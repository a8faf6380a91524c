------------------------------ MODULE Catalogue ------------------------------
(***************************************************************************)
(* BrandService and UserService: entries with a unique key (the name of a  *)
(* brand, the login of a user), deleted by a flag, and the pages in which  *)
(* brands are listed. Every statement goes to the pool and commits at      *)
(* once: an update is a read and a write, a page a count and a read, and   *)
(* a reader who wants all brands asks for page after page.                 *)
(*                                                                         *)
(* The row named after a request is the entry it creates.                  *)
(***************************************************************************)
EXTENDS Integers, SequencesExt

CONSTANTS
  Req,      \* the requests
  Past,     \* the names of the entries made before the requests arrive
  NoRow,    \* no such row, no such pointer
  InitRow,  \* the entries the requests find
  Body      \* the validated request bodies the users may send

VARIABLES
  table,    \* the rows of brands and users
  pc,       \* the statement each request is at
  call,     \* the body of each request
  found,    \* the row an update has read
  page,     \* the page a reader asks for
  total,    \* the number of brands counted with that page
  shown,    \* the brands he has been shown
  start,    \* history: the brands there were when he began
  since     \* history: what was done to brands since he began, and since the count

reading == <<page, total, shown, start>>
vars == <<table, pc, call, found, reading, since>>

Id == Req \cup Past

-----------------------------------------------------------------------------
\* Keys are numbers: brands are listed in the order of their names.
BrandRow == [kind : {"brand"}, key : Nat, live : BOOLEAN]

UserRow == [kind : {"user"}, key : Nat, role : {"owner", "employee"}, live : BOOLEAN]

EntryRow == BrandRow \cup UserRow

CreateBody == [op : {"create"}, row : {e \in EntryRow : e.live}]

\* What the body does not set is a pointer that is nil.
UpdateBody ==
  [op : {"update"}, kind : {"brand"}, entry : Id, key : Nat \cup {NoRow}, role : {NoRow}]
  \cup [op : {"update"}, kind : {"user"}, entry : Id, key : Nat \cup {NoRow},
        role : {"owner", "employee", NoRow}]

DeleteBody == [op : {"delete"}, kind : {"brand", "user"}, entry : Id]

ListBody == [op : {"list"}, limit : 1 .. 100]

NoCall == [op |-> "none"]

Event == {"create", "rename", "delete"}

ASSUME NamesAssumption == Req \cap Past = {} /\ IsFiniteSet(Id)

ASSUME BodyAssumption == Body \subseteq CreateBody \cup UpdateBody \cup DeleteBody \cup ListBody

ASSUME InitRowAssumption ==
  /\ InitRow \in [Id -> EntryRow \cup {NoRow}]
  /\ \A r \in Req : InitRow[r] = NoRow
  \* UNIQUE (name), UNIQUE (login)
  /\ \A x, y \in Id : (x # y /\ InitRow[x] # NoRow /\ InitRow[y] # NoRow) =>
       <<InitRow[x].kind, InitRow[x].key>> # <<InitRow[y].kind, InitRow[y].key>>

Kind(x, k) == table[x] # NoRow /\ table[x].kind = k

Live(x, k) == Kind(x, k) /\ table[x].live

-----------------------------------------------------------------------------
InFlight(r) == pc[r] \notin {"idle", "ok", "failed"}

Goto(r, statement) == pc' = [pc EXCEPT ![r] = statement]

\* An error return: nothing is left to roll back, and the variables of the
\* handler are gone.
Refuse(r) ==
  /\ Goto(r, "failed")
  /\ found' = [found EXCEPT ![r] = NoRow]
  /\ page' = [page EXCEPT ![r] = 1]
  /\ total' = [total EXCEPT ![r] = 0]
  /\ shown' = [shown EXCEPT ![r] = <<>>]
  /\ start' = [start EXCEPT ![r] = {}]
  /\ UNCHANGED <<table, call, since>>

Fail(r) == InFlight(r) /\ Refuse(r)

\* The statement has committed, whether or not its answer arrives.
Answer(r) == Goto(r, "ok") \/ Goto(r, "failed")

Reading(r) == InFlight(r) /\ call[r].op = "list"

\* What the readers see happen to the brands.
Happens(kind, event) ==
  since' = [r \in Req |->
    IF kind = "brand" /\ Reading(r)
      THEN [walk |-> since[r].walk \cup {event}, count |-> since[r].count \cup {event}]
      ELSE since[r]]

\* A request names an entry that an answer or a list has shown.
Nameable(b) == b.op \in {"update", "delete"} => table[b.entry] # NoRow

Receive(r) ==
  /\ pc[r] = "idle"
  /\ \E b \in {c \in Body : Nameable(c)} :
       /\ call' = [call EXCEPT ![r] = b]
       /\ Goto(r, CASE b.op = "create" -> "insert"
                    [] b.op = "update" -> "get"
                    [] b.op = "delete" -> "delete"
                    [] b.op = "list"   -> "count")
       /\ start' = IF b.op = "list" THEN [start EXCEPT ![r] = {x \in Id : Live(x, "brand")}]
                   ELSE start
  /\ UNCHANGED <<table, found, page, total, shown, since>>

-----------------------------------------------------------------------------
(* The entries.                                                            *)

\* Mutation of Taken: the key of a deleted entry is free again.
TakenByLive(x, kind, key) == \E y \in Id \ {x} : Live(y, kind) /\ table[y].key = key

\* isDuplicateKey: UNIQUE (name), UNIQUE (login) know nothing of is_deleted.
Taken(x, kind, key) == \E y \in Id \ {x} : Kind(y, kind) /\ table[y].key = key

\* repo.Create.
CreateEntry(r) ==
  /\ pc[r] = "insert"
  /\ LET row == call[r].row
     IN \/ /\ ~Taken(r, row.kind, row.key)
           /\ table' = [table EXCEPT ![r] = row]
           /\ Happens(row.kind, "create")
           /\ Answer(r)
           /\ UNCHANGED <<call, found, reading>>
        \/ /\ Taken(r, row.kind, row.key)
           /\ Refuse(r)

\* Mutation of Gettable: a deleted entry is found.
GettableDeleted(x, kind) == Kind(x, kind)

\* The condition is_deleted = false of the SELECT.
Gettable(x, kind) == Live(x, kind)

\* repo.GetByID.
GetEntry(r) ==
  /\ pc[r] = "get"
  /\ LET x == call[r].entry
     IN \/ /\ Gettable(x, call[r].kind)
           /\ found' = [found EXCEPT ![r] = table[x]]
           /\ Goto(r, "put")
           /\ UNCHANGED <<table, call, reading, since>>
        \/ /\ ~Gettable(x, call[r].kind)
           /\ Refuse(r)

\* The row that was read, with what the body sets.
Changed(r) ==
  LET b == call[r]
      row == IF b.key = NoRow THEN found[r] ELSE [found[r] EXCEPT !.key = b.key]
  IN IF b.role = NoRow THEN row ELSE [row EXCEPT !.role = b.role]

\* Mutation of StillLive: the UPDATE has no condition on is_deleted.
StillThere(x, kind) == Kind(x, kind)

\* The condition AND is_deleted = false of UPDATE and SoftDelete.
StillLive(x, kind) == Live(x, kind)

\* repo.Update: all columns of the row that was read but the flag.
PutEntry(r) ==
  /\ pc[r] = "put"
  /\ LET x == call[r].entry
     IN \/ /\ StillLive(x, call[r].kind)
           /\ ~Taken(x, call[r].kind, Changed(r).key)
           /\ table' = [table EXCEPT ![x] = [Changed(r) EXCEPT !.live = table[x].live]]
           /\ Happens(call[r].kind, "rename")
           /\ Answer(r)
           /\ UNCHANGED <<call, found, reading>>
        \/ /\ ~StillLive(x, call[r].kind) \/ Taken(x, call[r].kind, Changed(r).key)
           /\ Refuse(r)

\* repo.SoftDelete.
RemoveEntry(r) ==
  /\ pc[r] = "delete"
  /\ LET x == call[r].entry
     IN \/ /\ StillLive(x, call[r].kind)
           /\ table' = [table EXCEPT ![x].live = FALSE]
           /\ Happens(call[r].kind, "delete")
           /\ Answer(r)
           /\ UNCHANGED <<call, found, reading>>
        \/ /\ ~StillLive(x, call[r].kind)
           /\ Refuse(r)

-----------------------------------------------------------------------------
(* The pages. The limit is at most 100, so nobody gets all in one.         *)

\* Mutation of Counted: the deleted brands are counted too.
CountedAll == {x \in Id : Kind(x, "brand")}

\* SELECT COUNT(*) ... WHERE is_deleted = false.
Counted == {x \in Id : Live(x, "brand")}

CountBrands(r) ==
  /\ pc[r] = "count"
  /\ total' = [total EXCEPT ![r] = Cardinality(Counted)]
  /\ since' = [since EXCEPT ![r].count = {}]
  /\ Goto(r, "rows")
  /\ UNCHANGED <<table, call, found, page, shown, start>>

\* Mutation of Offset: pages counted from zero.
OffsetFromZero(n, limit) == n * limit

\* Mutation of Offset: the last brand of a page is on the next one, too.
OffsetOverlapping(n, limit) == (n - 1) * limit - IF n > 1 THEN 1 ELSE 0

Offset(n, limit) == (n - 1) * limit

\* SELECT ... WHERE is_deleted = false.
Listed == {x \in Id : Live(x, "brand")}

\* ORDER BY name: how many of the brands come no later than x.
Place(x) == Cardinality({y \in Listed : table[y].key <= table[x].key})

\* LIMIT limit OFFSET Offset(n, limit).
PageOf(n, limit) ==
  LET offset == Offset(n, limit)
      length == Min({limit, Cardinality(Listed) - offset})
  IN [i \in 1 .. length |-> CHOOSE x \in Listed : Place(x) = offset + i]

\* The list of a page, after its count: two statements, two snapshots. A reader
\* asks for the next page until one is not full.
ReadPage(r) ==
  /\ pc[r] = "rows"
  /\ LET rows == PageOf(page[r], call[r].limit)
     IN /\ shown' = [shown EXCEPT ![r] = @ \o rows]
        /\ IF Len(rows) = call[r].limit
             THEN Goto(r, "count") /\ page' = [page EXCEPT ![r] = @ + 1]
             ELSE Goto(r, "ok") /\ UNCHANGED page
  /\ UNCHANGED <<table, call, found, total, start, since>>

-----------------------------------------------------------------------------
Init ==
  /\ table = InitRow
  /\ pc = [r \in Req |-> "idle"]
  /\ call = [r \in Req |-> NoCall]
  /\ found = [r \in Req |-> NoRow]
  /\ page = [r \in Req |-> 1]
  /\ total = [r \in Req |-> 0]
  /\ shown = [r \in Req |-> <<>>]
  /\ start = [r \in Req |-> {}]
  /\ since = [r \in Req |-> [walk |-> {}, count |-> {}]]

Next ==
  \E r \in Req :
    \/ Receive(r) \/ Fail(r)
    \/ CreateEntry(r) \/ GetEntry(r) \/ PutEntry(r) \/ RemoveEntry(r)
    \/ CountBrands(r) \/ ReadPage(r)

Spec == Init /\ [][Next]_vars

-----------------------------------------------------------------------------
(* Properties.                                                             *)

Statement ==
  {"idle", "insert", "get", "put", "delete", "count", "rows", "ok", "failed"}

(* A name or a login belongs to one entry, deleted ones included, whatever *)
(* creations (retried ones too) and updates race for it: so a deleted user *)
(* and his records are never mistaken for a later one.                     *)
KeysUnique ==
  \A x, y \in Id : (x # y /\ table[x] # NoRow /\ table[y] # NoRow) =>
    <<table[x].kind, table[x].key>> # <<table[y].kind, table[y].key>>

(* A deletion is final: an update that had read the entry before does not  *)
(* bring it back or change it.                                             *)
DeletedIsFinal ==
  [][\A x \in Id : (table[x] # NoRow /\ ~table[x].live) => table'[x] = table[x]]_vars

(* A reader who goes through the pages while brands are created, but none  *)
(* is deleted or renamed, is shown every brand there was when he began.    *)
WalkMissesNothing ==
  \A r \in Req :
    (pc[r] = "ok" /\ call[r].op = "list" /\ since[r].walk \subseteq {"create"}) =>
      start[r] \subseteq ToSet(shown[r])

(* A reader is shown no brand twice while brands are deleted, but none is  *)
(* created or renamed: the later pages only move towards the front.        *)
WalkRepeatsNothing ==
  \A r \in Req : since[r].walk \subseteq {"delete"} => IsInjective(shown[r])

(* The total agrees with the pages: when nothing has happened since the    *)
(* last count, a reader who has come to the end has been shown that many.  *)
TotalIsReached ==
  \A r \in Req :
    (pc[r] = "ok" /\ call[r].op = "list" /\ since[r].count = {}) => total[r] <= Len(shown[r])
=============================================================================
