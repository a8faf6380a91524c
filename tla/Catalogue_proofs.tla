--------------------------- MODULE Catalogue_proofs ---------------------------
(***************************************************************************)
(* KeysUnique, DeletedIsFinal and what the pages promise their readers,    *)
(* for any set of requests, any bodies that pass validation and any        *)
(* entries to begin with whose keys are unique. The invariant of the       *)
(* entries leaves the readers out, as what they have been shown has no     *)
(* influence on the entries; that of the readers comes after it. The       *)
(* module is written over Sessions so that its lemmas serve there too.     *)
(***************************************************************************)
EXTENDS Sessions, FiniteSetTheorems, TLAPS

\* The part of the types that the entries depend on.
Types ==
  /\ table \in [Id -> EntryRow \cup {NoRow}]
  /\ pc \in [Req -> Statement \cup AuthStatement]
  /\ call \in [Req -> Body \cup AuthBody \cup {NoCall}]
  /\ found \in [Req -> {e \in EntryRow : e.live} \cup {NoRow}]

\* What the earlier statements of a request established.
Control(r) ==
  /\ pc[r] \in {"idle", "insert"} => table[r] = NoRow
  /\ pc[r] = "insert" => call[r] \in CreateBody
  /\ pc[r] \in {"get", "put"} => call[r] \in UpdateBody
  /\ pc[r] = "put" => found[r] \in EntryRow /\ found[r].kind = call[r].kind
  /\ pc[r] = "delete" => call[r] \in DeleteBody

Inv == Types /\ KeysUnique /\ \A r \in Req : Control(r)

-----------------------------------------------------------------------------
(* The row an update writes is an entry of the kind it was asked for.      *)
LEMMA ChangedType ==
  ASSUME NEW r \in Req, call[r] \in UpdateBody,
         found[r] \in EntryRow, found[r].kind = call[r].kind
  PROVE  Changed(r) \in EntryRow /\ Changed(r).kind = call[r].kind
<1> DEFINE b == call[r]
           row == IF b.key = NoRow THEN found[r] ELSE [found[r] EXCEPT !.key = b.key]
<1>1. CASE b.kind = "brand"
  <2>1. found[r] \in BrandRow
    BY <1>1 DEF EntryRow, BrandRow, UserRow
  <2>2. b.key \in Nat \cup {NoRow} /\ b.role = NoRow
    BY <1>1 DEF UpdateBody
  <2>3. row \in BrandRow
    BY <2>1, <2>2 DEF BrandRow
  <2>4. Changed(r) = row
    BY <2>2 DEF Changed
  <2> QED
    BY <2>3, <2>4, <1>1 DEF EntryRow, BrandRow
<1>2. CASE b.kind = "user"
  <2>1. found[r] \in UserRow
    BY <1>2 DEF EntryRow, BrandRow, UserRow
  <2>2. b.key \in Nat \cup {NoRow} /\ b.role \in {"owner", "employee", NoRow}
    BY <1>2 DEF UpdateBody
  <2>3. row \in UserRow
    BY <2>1, <2>2 DEF UserRow
  <2>4. Changed(r) = IF b.role = NoRow THEN row ELSE [row EXCEPT !.role = b.role]
    BY DEF Changed
  <2>5. Changed(r) \in UserRow
    BY <2>2, <2>3, <2>4 DEF UserRow
  <2> QED
    BY <2>5, <1>2 DEF EntryRow, UserRow
<1> QED
  BY <1>1, <1>2 DEF UpdateBody

(* Writing one entry whose key no other entry of its kind has keeps keys   *)
(* unique.                                                                 *)
LEMMA KeyKept ==
  ASSUME Types, KeysUnique, NEW x \in Id, NEW row \in EntryRow,
         ~Taken(x, row.kind, row.key),
         table' = [table EXCEPT ![x] = row]
  PROVE  KeysUnique'
<1> SUFFICES ASSUME NEW y \in Id, NEW z \in Id, y # z, table'[y] # NoRow, table'[z] # NoRow
             PROVE  <<table'[y].kind, table'[y].key>> # <<table'[z].kind, table'[z].key>>
  BY DEF KeysUnique
<1>1. \A w \in Id : table'[w] = IF w = x THEN row ELSE table[w]
  BY DEF Types
<1>2. \A w \in Id \ {x} : table[w] # NoRow => <<table[w].kind, table[w].key>> # <<row.kind, row.key>>
  BY DEF Taken, Kind
<1>3. CASE y = x
  BY <1>1, <1>2, <1>3
<1>4. CASE z = x
  BY <1>1, <1>2, <1>4
<1>5. CASE y # x /\ z # x
  BY <1>1, <1>5 DEF KeysUnique
<1> QED
  BY <1>3, <1>4, <1>5

LEMMA InvInit == Init => Inv
<1> SUFFICES ASSUME Init PROVE Inv
  OBVIOUS
<1>1. Types
  BY InitRowAssumption DEF Init, Types, Statement
<1>2. KeysUnique
  BY InitRowAssumption DEF Init, KeysUnique
<1>3. ASSUME NEW r \in Req PROVE Control(r)
  BY InitRowAssumption DEF Init, Control
<1> QED
  BY <1>1, <1>2, <1>3 DEF Inv

-----------------------------------------------------------------------------
(* A step that leaves the entries alone, and what the updates found that   *)
(* are still under way.                                                    *)
LEMMA ReadersStep ==
  ASSUME Inv, NEW r \in Req,
         NEW s \in (Statement \cup AuthStatement) \ {"idle", "insert", "get", "put", "delete"},
         NEW e \in {f \in EntryRow : f.live} \cup {NoRow},
         pc' = [pc EXCEPT ![r] = s], found' = [found EXCEPT ![r] = e],
         UNCHANGED <<table, call>>
  PROVE  Inv'
<1>1. Types'
  BY DEF Inv, Types, Statement
<1>2. KeysUnique'
  BY DEF Inv, KeysUnique
<1>3. ASSUME NEW q \in Req PROVE Control(q)'
  <2>1. /\ pc'[q] = IF q = r THEN s ELSE pc[q]
        /\ q # r => found'[q] = found[q]
    BY DEF Inv, Types, Statement
  <2> QED
    BY <2>1 DEF Inv, Control
<1> QED
  BY <1>1, <1>2, <1>3 DEF Inv

(* A step that writes an entry there is, keeping its kind, and ends.       *)
LEMMA WriterStep ==
  ASSUME Inv, NEW r \in Req, NEW x \in Id, NEW row \in EntryRow,
         table[x] # NoRow \/ (x = r /\ pc[r] = "insert"),
         ~Taken(x, row.kind, row.key),
         table' = [table EXCEPT ![x] = row],
         pc' = [pc EXCEPT ![r] = "ok"] \/ pc' = [pc EXCEPT ![r] = "failed"],
         UNCHANGED <<call, found>>
  PROVE  Inv'
<1>1. Types'
  BY DEF Inv, Types, Statement
<1>2. KeysUnique'
  BY KeyKept DEF Inv
<1>3. ASSUME NEW q \in Req PROVE Control(q)'
  <2>1. CASE q = r
    <3>1. pc'[q] \in {"ok", "failed"}
      BY <2>1 DEF Inv, Types, Statement
    <3> QED
      BY <3>1 DEF Control
  <2>2. CASE q # r
    <3>1. pc'[q] = pc[q]
      BY <2>2 DEF Inv, Types, Statement
    <3>2. pc[q] \in {"idle", "insert"} => table'[q] = NoRow
      <4>1. SUFFICES ASSUME pc[q] \in {"idle", "insert"} PROVE table'[q] = NoRow
        OBVIOUS
      <4>2. table[q] = NoRow
        BY <4>1 DEF Inv, Control
      <4>3. q # x
        BY <4>2, <2>2
      <4> QED
        BY <4>2, <4>3 DEF Inv, Types, Statement, Id
    <3> QED
      BY <3>1, <3>2 DEF Inv, Control
  <2> QED
    BY <2>1, <2>2
<1> QED
  BY <1>1, <1>2, <1>3 DEF Inv

LEMMA InvStep == Inv /\ [Next]_vars => Inv'
<1> SUFFICES ASSUME Inv, [Next]_vars PROVE Inv'
  OBVIOUS
<1>1. CASE UNCHANGED vars
  BY <1>1 DEF Inv, vars, Types, KeysUnique, Control
<1>2. ASSUME NEW r \in Req, Receive(r) PROVE Inv'
  <2>1. PICK b \in Body :
          /\ call' = [call EXCEPT ![r] = b]
          /\ pc' = [pc EXCEPT ![r] = CASE b.op = "create" -> "insert"
                                       [] b.op = "update" -> "get"
                                       [] b.op = "delete" -> "delete"
                                       [] b.op = "list"   -> "count"]
    BY <1>2 DEF Receive, Goto
  <2>2. pc[r] = "idle" /\ UNCHANGED <<table, found>>
    BY <1>2 DEF Receive
  <2>3. \/ b \in CreateBody /\ pc' = [pc EXCEPT ![r] = "insert"]
        \/ b \in UpdateBody /\ pc' = [pc EXCEPT ![r] = "get"]
        \/ b \in DeleteBody /\ pc' = [pc EXCEPT ![r] = "delete"]
        \/ pc' = [pc EXCEPT ![r] = "count"]
    <3>1. b \in CreateBody \cup UpdateBody \cup DeleteBody \cup ListBody
      BY BodyAssumption
    <3> QED
      BY <2>1, <3>1 DEF CreateBody, UpdateBody, DeleteBody, ListBody
  <2>4. Types'
    BY <2>1, <2>2, <2>3 DEF Inv, Types, Statement
  <2>5. KeysUnique'
    BY <2>2 DEF Inv, KeysUnique
  <2>6. ASSUME NEW q \in Req PROVE Control(q)'
    <3>1. CASE q = r
      <4>1. call'[q] = b /\ table'[q] = NoRow
        BY <2>1, <2>2, <3>1 DEF Inv, Types, Statement, Control
      <4>2. \/ b \in CreateBody /\ pc'[q] = "insert"
            \/ b \in UpdateBody /\ pc'[q] = "get"
            \/ b \in DeleteBody /\ pc'[q] = "delete"
            \/ pc'[q] = "count"
        BY <2>3, <3>1 DEF Inv, Types, Statement
      <4> QED
        BY <4>1, <4>2 DEF Control
    <3>2. CASE q # r
      <4>1. pc'[q] = pc[q] /\ call'[q] = call[q]
        BY <2>1, <2>3, <3>2 DEF Inv, Types, Statement
      <4> QED
        BY <4>1, <2>2 DEF Inv, Control
    <3> QED
      BY <3>1, <3>2
  <2> QED
    BY <2>4, <2>5, <2>6 DEF Inv
<1>3. ASSUME NEW r \in Req, Refuse(r) PROVE Inv'
  BY <1>3, ReadersStep DEF Refuse, Goto, Statement
<1>4. ASSUME NEW r \in Req, CreateEntry(r) PROVE Inv'
  <2>1. CASE Refuse(r)
    BY <2>1, <1>3
  <2>2. CASE ~Refuse(r)
    <3> DEFINE row == call[r].row
    <3>1. pc[r] = "insert" /\ row \in EntryRow /\ r \in Id
      BY <1>4 DEF CreateEntry, Inv, Control, CreateBody, Id
    <3>2. /\ ~Taken(r, row.kind, row.key)
          /\ table' = [table EXCEPT ![r] = row]
          /\ pc' = [pc EXCEPT ![r] = "ok"] \/ pc' = [pc EXCEPT ![r] = "failed"]
          /\ UNCHANGED <<call, found>>
      BY <1>4, <2>2 DEF CreateEntry, Answer, Goto
    <3> QED
      BY <3>1, <3>2, WriterStep
  <2> QED
    BY <2>1, <2>2
<1>5. ASSUME NEW r \in Req, GetEntry(r) PROVE Inv'
  <2>1. CASE Refuse(r)
    BY <2>1, <1>3
  <2>2. CASE ~Refuse(r)
    <3> DEFINE x == call[r].entry
    <3>1. pc[r] = "get" /\ call[r] \in UpdateBody
      BY <1>5 DEF GetEntry, Inv, Control
    <3>2. /\ Live(x, call[r].kind)
          /\ found' = [found EXCEPT ![r] = table[x]]
          /\ pc' = [pc EXCEPT ![r] = "put"]
          /\ UNCHANGED <<table, call>>
      BY <1>5, <2>2 DEF GetEntry, Gettable, Goto
    <3>3. x \in Id
      BY <3>1 DEF UpdateBody
    <3>4. table[x] \in EntryRow /\ table[x].live /\ table[x].kind = call[r].kind
      BY <3>2, <3>3 DEF Live, Kind, Inv, Types
    <3>5. Types'
      BY <3>2, <3>4 DEF Inv, Types, Statement
    <3>6. KeysUnique'
      BY <3>2 DEF Inv, KeysUnique
    <3>7. ASSUME NEW q \in Req PROVE Control(q)'
      <4>1. CASE q = r
        <5>1. pc'[q] = "put" /\ found'[q] = table[x]
          BY <3>2, <4>1 DEF Inv, Types, Statement
        <5> QED
          BY <5>1, <3>1, <3>2, <3>4, <4>1 DEF Control
      <4>2. CASE q # r
        <5>1. pc'[q] = pc[q] /\ found'[q] = found[q]
          BY <3>2, <4>2 DEF Inv, Types, Statement
        <5> QED
          BY <5>1, <3>2 DEF Inv, Control
      <4> QED
        BY <4>1, <4>2
    <3> QED
      BY <3>5, <3>6, <3>7 DEF Inv
  <2> QED
    BY <2>1, <2>2
<1>6. ASSUME NEW r \in Req, PutEntry(r) PROVE Inv'
  <2>1. CASE Refuse(r)
    BY <2>1, <1>3
  <2>2. CASE ~Refuse(r)
    <3> DEFINE x == call[r].entry
               row == [Changed(r) EXCEPT !.live = table[x].live]
    <3>1. /\ call[r] \in UpdateBody
          /\ found[r] \in EntryRow
          /\ found[r].kind = call[r].kind
      BY <1>6 DEF PutEntry, Inv, Control
    <3>2. /\ Live(x, call[r].kind)
          /\ ~Taken(x, call[r].kind, Changed(r).key)
          /\ table' = [table EXCEPT ![x] = row]
          /\ pc' = [pc EXCEPT ![r] = "ok"] \/ pc' = [pc EXCEPT ![r] = "failed"]
          /\ UNCHANGED <<call, found>>
      BY <1>6, <2>2 DEF PutEntry, StillLive, Answer, Goto
    <3>3. x \in Id
      BY <3>1 DEF UpdateBody
    <3>4. table[x] # NoRow /\ table[x].live \in BOOLEAN
      BY <3>2, <3>3 DEF Live, Kind, Inv, Types, EntryRow, BrandRow, UserRow
    <3>5. Changed(r) \in EntryRow /\ Changed(r).kind = call[r].kind
      BY <3>1, ChangedType
    <3>6. row \in EntryRow /\ row.kind = call[r].kind /\ row.key = Changed(r).key
      <4> HIDE DEF x
      <4> QED
        BY <3>4, <3>5 DEF EntryRow, BrandRow, UserRow
    <3> HIDE DEF row, x
    <3> QED
      BY <3>2, <3>3, <3>4, <3>6, WriterStep
  <2> QED
    BY <2>1, <2>2
<1>7. ASSUME NEW r \in Req, RemoveEntry(r) PROVE Inv'
  <2>1. CASE Refuse(r)
    BY <2>1, <1>3
  <2>2. CASE ~Refuse(r)
    <3> DEFINE x == call[r].entry
               row == [table[x] EXCEPT !.live = FALSE]
    <3>1. x \in Id
      BY <1>7 DEF RemoveEntry, Inv, Control, DeleteBody
    <3>2. /\ Live(x, call[r].kind)
          /\ table' = [table EXCEPT ![x].live = FALSE]
          /\ pc' = [pc EXCEPT ![r] = "ok"] \/ pc' = [pc EXCEPT ![r] = "failed"]
          /\ UNCHANGED <<call, found>>
      BY <1>7, <2>2 DEF RemoveEntry, StillLive, Answer, Goto
    <3>3. table[x] # NoRow /\ table[x] \in EntryRow
      BY <3>1, <3>2 DEF Live, Kind, Inv, Types
    <3>4. row \in EntryRow /\ row.kind = table[x].kind /\ row.key = table[x].key
      <4> HIDE DEF x
      <4> QED
        BY <3>3 DEF EntryRow, BrandRow, UserRow
    <3>5. ~Taken(x, row.kind, row.key)
      <4> HIDE DEF row, x
      <4> QED
        BY <3>1, <3>3, <3>4 DEF Taken, Kind, Inv, KeysUnique
    <3>6. table' = [table EXCEPT ![x] = row]
      BY <3>2
    <3> HIDE DEF row, x
    <3> QED
      BY <3>1, <3>2, <3>3, <3>4, <3>5, <3>6, WriterStep
  <2> QED
    BY <2>1, <2>2
<1>8. ASSUME NEW r \in Req, CountBrands(r) \/ ReadPage(r) PROVE Inv'
  <2>1. \E s \in {"ok", "count", "rows"} : pc' = [pc EXCEPT ![r] = s]
    BY <1>8 DEF CountBrands, ReadPage, Goto
  <2>2. UNCHANGED <<table, call, found>>
    BY <1>8 DEF CountBrands, ReadPage
  <2>3. found' = [found EXCEPT ![r] = found[r]] /\ found[r] \in {f \in EntryRow : f.live} \cup {NoRow}
    BY <2>2 DEF Inv, Types, Statement
  <2> QED
    BY <2>1, <2>2, <2>3, ReadersStep DEF Statement
<1> QED
  BY <1>1, <1>2, <1>3, <1>4, <1>5, <1>6, <1>7, <1>8 DEF Next, Fail

LEMMA Invariance == Spec => []Inv
  BY InvInit, InvStep, PTL DEF Spec

(* A name or a login belongs to one entry, deleted ones included.          *)
THEOREM KeysStayUnique == Spec => []KeysUnique
<1>1. Inv => KeysUnique
  BY DEF Inv
<1> QED
  BY <1>1, Invariance, PTL

-----------------------------------------------------------------------------
(* A step of the system leaves a deleted entry as it is.                   *)
LEMMA FinalStep ==
  ASSUME Inv, [Next]_vars, NEW x \in Id, table[x] # NoRow, ~table[x].live
  PROVE  table'[x] = table[x]
<1>1. CASE UNCHANGED vars
  BY <1>1 DEF vars
<1>2. ASSUME NEW r \in Req, Receive(r) PROVE table'[x] = table[x]
  BY <1>2 DEF Receive
<1>3. ASSUME NEW r \in Req, Refuse(r) PROVE table'[x] = table[x]
  BY <1>3 DEF Refuse
<1>4. ASSUME NEW r \in Req, CreateEntry(r) PROVE table'[x] = table[x]
  <2>1. CASE Refuse(r)
    BY <2>1, <1>3
  <2>2. CASE ~Refuse(r)
    <3>1. pc[r] = "insert" /\ table' = [table EXCEPT ![r] = call[r].row]
      BY <1>4, <2>2 DEF CreateEntry
    <3>2. x # r
      BY <3>1 DEF Inv, Control
    <3> QED
      BY <3>1, <3>2 DEF Inv, Types, Statement
  <2> QED
    BY <2>1, <2>2
<1>5. ASSUME NEW r \in Req, GetEntry(r) PROVE table'[x] = table[x]
  BY <1>5 DEF GetEntry, Refuse
<1>6. ASSUME NEW r \in Req, PutEntry(r) PROVE table'[x] = table[x]
  <2>1. CASE Refuse(r)
    BY <2>1, <1>3
  <2>2. CASE ~Refuse(r)
    <3> DEFINE y == call[r].entry
               row == [Changed(r) EXCEPT !.live = table[y].live]
    <3>1. Live(y, call[r].kind) /\ table' = [table EXCEPT ![y] = row]
      BY <1>6, <2>2 DEF PutEntry, StillLive
    <3>2. x # y
      BY <3>1 DEF Live
    <3> HIDE DEF row, y
    <3> QED
      BY <3>1, <3>2 DEF Inv, Types, Statement
  <2> QED
    BY <2>1, <2>2
<1>7. ASSUME NEW r \in Req, RemoveEntry(r) PROVE table'[x] = table[x]
  <2>1. CASE Refuse(r)
    BY <2>1, <1>3
  <2>2. CASE ~Refuse(r)
    <3> DEFINE y == call[r].entry
    <3>1. Live(y, call[r].kind) /\ table' = [table EXCEPT ![y].live = FALSE]
      BY <1>7, <2>2 DEF RemoveEntry, StillLive
    <3>2. x # y
      BY <3>1 DEF Live
    <3> HIDE DEF y
    <3> QED
      BY <3>1, <3>2 DEF Inv, Types, Statement
  <2> QED
    BY <2>1, <2>2
<1>8. ASSUME NEW r \in Req, CountBrands(r) \/ ReadPage(r) PROVE table'[x] = table[x]
  BY <1>8 DEF CountBrands, ReadPage
<1> QED
  BY <1>1, <1>2, <1>3, <1>4, <1>5, <1>6, <1>7, <1>8 DEF Next, Fail

(* A deletion is final: no update that read the entry before changes it.   *)
THEOREM DeletionsAreFinal == Spec => DeletedIsFinal
<1>1. Inv /\ [Next]_vars =>
        [\A x \in Id : (table[x] # NoRow /\ ~table[x].live) => table'[x] = table[x]]_vars
  BY FinalStep
<1> QED
  BY <1>1, Invariance, PTL DEF Spec, DeletedIsFinal

-----------------------------------------------------------------------------
(* Places: the brands that are listed have the places from one to their    *)
(* number, each one place, because no two have one name.                   *)

LEMMA BrandKeys ==
  ASSUME Types, KeysUnique
  PROVE  /\ Listed \subseteq Id /\ IsFiniteSet(Listed)
         /\ \A x \in Listed : table[x].key \in Nat
         /\ \A x, y \in Listed : table[x].key = table[y].key => x = y
<1>1. Listed \subseteq Id /\ IsFiniteSet(Listed)
  BY NamesAssumption, FS_Subset DEF Listed
<1>2. \A x \in Listed : table[x] # NoRow /\ table[x].kind = "brand" /\ table[x] \in EntryRow
  BY DEF Listed, Live, Kind, Types
<1>3. \A x \in Listed : table[x].key \in Nat
  BY <1>2 DEF EntryRow, BrandRow, UserRow
<1>4. ASSUME NEW x \in Listed, NEW y \in Listed, table[x].key = table[y].key PROVE x = y
  BY <1>1, <1>2, <1>4 DEF KeysUnique
<1> QED
  BY <1>1, <1>3, <1>4

\* The brands that come no later than x.
Before(x) == {y \in Listed : table[y].key <= table[x].key}

LEMMA PlaceRange ==
  ASSUME Types, KeysUnique, NEW x \in Listed
  PROVE  /\ IsFiniteSet(Before(x)) /\ Place(x) = Cardinality(Before(x))
         /\ Cardinality(Listed) \in Nat /\ Place(x) \in 1 .. Cardinality(Listed)
<1>1. Before(x) \subseteq Listed /\ x \in Before(x) /\ IsFiniteSet(Listed)
  BY BrandKeys DEF Before
<1>2. /\ IsFiniteSet(Before(x)) /\ Cardinality(Before(x)) <= Cardinality(Listed)
      /\ Cardinality(Before(x)) \in Nat /\ Cardinality(Listed) \in Nat
  BY <1>1, FS_Subset, FS_CardinalityType
<1>3. Cardinality(Before(x)) # 0
  BY <1>1, <1>2, FS_EmptySet
<1> QED
  BY <1>2, <1>3 DEF Place, Before

LEMMA PlacesDiffer ==
  ASSUME Types, KeysUnique, NEW x \in Listed, NEW y \in Listed, Place(x) = Place(y)
  PROVE  x = y
<1>1. ASSUME NEW a \in Listed, NEW b \in Listed, Place(a) = Place(b), table[a].key <= table[b].key
      PROVE  a = b
  <2>1. \A z \in Listed : table[z].key \in Nat
    BY BrandKeys
  <2>2. Before(a) \subseteq Before(b)
    BY <1>1, <2>1 DEF Before
  <2>3. IsFiniteSet(Before(b)) /\ Cardinality(Before(a)) = Cardinality(Before(b))
    BY <1>1, PlaceRange
  <2>4. Before(a) = Before(b)
    BY <2>2, <2>3, FS_Subset
  <2>5. table[b].key <= table[a].key
    BY <2>1, <2>4 DEF Before
  <2>6. table[a].key = table[b].key
    BY <1>1, <2>1, <2>5
  <2> QED
    BY <2>6, BrandKeys
<1>2. table[x].key \in Nat /\ table[y].key \in Nat
  BY BrandKeys
<1>3. table[x].key <= table[y].key \/ table[y].key <= table[x].key
  BY <1>2
<1> QED
  BY <1>1, <1>3

LEMMA EveryPlace ==
  ASSUME Types, KeysUnique, NEW i \in 1 .. Cardinality(Listed)
  PROVE  \E x \in Listed : Place(x) = i
<1>1. PICK n, f : n = Cardinality(Listed) /\ f = [x \in Listed |-> Place(x)]
  OBVIOUS
<1>2. IsFiniteSet(Listed) /\ n \in Nat
  BY <1>1, BrandKeys, FS_CardinalityType
<1>3. f \in Injection(Listed, 1 .. n)
  <2>1. f \in [Listed -> 1 .. n]
    BY <1>1, PlaceRange
  <2>2. \A x, y \in Listed : f[x] = f[y] => x = y
    BY <1>1, PlacesDiffer
  <2> QED
    BY <2>1, <2>2 DEF Injection, IsInjective
<1>4. IsFiniteSet(1 .. n) /\ Cardinality(1 .. n) = n
  BY <1>2, FS_Interval
<1>5. f \in Surjection(Listed, 1 .. n)
  BY <1>1, <1>3, <1>4, FS_Injection
<1>6. \E x \in Listed : f[x] = i
  BY <1>1, <1>5 DEF Surjection
<1> QED
  BY <1>1, <1>6

\* How many brands page n has.
LengthOf(n, limit) == Min({limit, Cardinality(Listed) - Offset(n, limit)})

(* A page has the brands of its places, and is shorter than its limit only *)
(* if it comes to the end.                                                 *)
LEMMA PageHas ==
  ASSUME Types, KeysUnique, NEW n \in Nat \ {0}, NEW limit \in 1 .. 100
  PROVE  /\ Offset(n, limit) \in Nat
         /\ PageOf(n, limit) \in Seq(Id) /\ Len(PageOf(n, limit)) <= limit
         /\ \A i \in 1 .. Len(PageOf(n, limit)) :
              PageOf(n, limit)[i] \in Listed /\ Place(PageOf(n, limit)[i]) = Offset(n, limit) + i
         /\ Len(PageOf(n, limit)) # limit =>
              Cardinality(Listed) <= Offset(n, limit) + Len(PageOf(n, limit))
<1>1. PICK all, offset, length : /\ all = Cardinality(Listed) /\ offset = Offset(n, limit)
                                 /\ length = Min({limit, all - offset})
  OBVIOUS
<1>2. IsFiniteSet(Listed) /\ all \in Nat /\ Listed \subseteq Id
  BY <1>1, BrandKeys, FS_CardinalityType
<1>3. offset \in Nat
  <2>1. n - 1 \in Nat /\ limit \in Nat
    OBVIOUS
  <2>2. \A a, b \in Nat : a * b \in Nat
    OBVIOUS
  <2> QED
    BY <1>1, <2>1, <2>2 DEF Offset
<1>4. length \in Int /\ length = IF limit <= all - offset THEN limit ELSE all - offset
  <2>1. \A a, b \in Int : Min({a, b}) = IF a <= b THEN a ELSE b
    BY DEF Min
  <2>2. limit \in Int /\ all - offset \in Int
    BY <1>2, <1>3
  <2> QED
    BY <1>1, <2>1, <2>2
<1>5. PICK rows : rows = [i \in 1 .. length |-> CHOOSE x \in Listed : Place(x) = offset + i]
  OBVIOUS
<1>6. PageOf(n, limit) = rows
  BY <1>1, <1>5 DEF PageOf
<1>7. ASSUME NEW i \in 1 .. length PROVE rows[i] \in Listed /\ Place(rows[i]) = offset + i
  <2>1. offset + i \in 1 .. all
    BY <1>2, <1>3, <1>4
  <2>2. \E x \in Listed : Place(x) = offset + i
    BY <1>1, <2>1, EveryPlace
  <2> QED
    BY <1>5, <2>2
<1>8. CASE length >= 0
  <2>1. length \in Nat
    BY <1>4, <1>8
  <2>2. rows \in Seq(Id) /\ Len(rows) = length
    BY <1>2, <1>5, <1>7, <2>1
  <2>3. length <= limit /\ (length # limit => all <= offset + length)
    BY <1>2, <1>3, <1>4
  <2>4. \A i \in 1 .. Len(rows) : rows[i] \in Listed /\ Place(rows[i]) = offset + i
    BY <1>7, <2>2
  <2> QED
    BY <1>1, <1>3, <1>6, <2>2, <2>3, <2>4
<1>9. CASE length < 0
  <2>1. 1 .. length = {}
    BY <1>4, <1>9
  <2>2. rows = <<>>
    BY <1>5, <2>1
  <2>3. rows \in Seq(Id) /\ Len(rows) = 0
    BY <2>2
  <2> QED
    BY <1>1, <1>2, <1>3, <1>4, <1>6, <1>9, <2>3
<1> QED
  BY <1>4, <1>8, <1>9

-----------------------------------------------------------------------------
(* What creations and deletions do to the places.                          *)

\* No brand goes, no brand comes; neither changes its name.
Grows == Listed \subseteq Listed' /\ \A x \in Listed : table'[x].key = table[x].key
Shrinks == Listed' \subseteq Listed /\ \A x \in Listed' : table'[x].key = table[x].key

LEMMA PlaceGrows ==
  ASSUME Grows, NEW x \in Listed
  PROVE  x \in Listed' /\ Place(x) \in Nat /\ Place(x)' \in Nat /\ Place(x) <= Place(x)'
<1>1. PICK S, T : S = Before(x) /\ T = Before(x)'
  OBVIOUS
<1>2. S \subseteq T /\ T \subseteq Id /\ IsFiniteSet(Id)
  BY <1>1, NamesAssumption DEF Grows, Before, Listed
<1>3. IsFiniteSet(T) /\ IsFiniteSet(S) /\ Cardinality(S) <= Cardinality(T)
  BY <1>2, FS_Subset
<1>4. Cardinality(S) \in Nat /\ Cardinality(T) \in Nat
  BY <1>3, FS_CardinalityType
<1>5. Place(x) = Cardinality(S) /\ Place(x)' = Cardinality(T)
  BY <1>1 DEF Place, Before
<1> QED
  BY <1>3, <1>4, <1>5 DEF Grows

LEMMA PlaceShrinks ==
  ASSUME Shrinks, NEW x \in Listed'
  PROVE  x \in Listed /\ Place(x) \in Nat /\ Place(x)' \in Nat /\ Place(x)' <= Place(x)
<1>1. PICK S, T : S = Before(x) /\ T = Before(x)'
  OBVIOUS
<1>2. T \subseteq S /\ S \subseteq Id /\ IsFiniteSet(Id)
  BY <1>1, NamesAssumption DEF Shrinks, Before, Listed
<1>3. IsFiniteSet(S) /\ IsFiniteSet(T) /\ Cardinality(T) <= Cardinality(S)
  BY <1>2, FS_Subset
<1>4. Cardinality(S) \in Nat /\ Cardinality(T) \in Nat
  BY <1>3, FS_CardinalityType
<1>5. Place(x) = Cardinality(S) /\ Place(x)' = Cardinality(T)
  BY <1>1 DEF Place, Before
<1> QED
  BY <1>3, <1>4, <1>5 DEF Shrinks

-----------------------------------------------------------------------------
(* The invariant of the readers: between two pages, what a reader has been *)
(* shown is as long as the offset of the next page; while brands are only  *)
(* created, the rest of those he began with have later places; while they  *)
(* are only deleted, what he has been shown has earlier ones.              *)
ReaderTypes ==
  /\ page \in [Req -> Nat \ {0}] /\ total \in [Req -> Nat] /\ shown \in [Req -> Seq(Id)]
  /\ start \in [Req -> SUBSET Id]
  /\ since \in [Req -> [walk : SUBSET Event, count : SUBSET Event]]

Paging(r) == pc[r] \in {"count", "rows"}

Finished(r) == pc[r] = "ok" /\ call[r].op = "list"

Paged(r) ==
  /\ pc[r] = "idle" => page[r] = 1 /\ shown[r] = <<>>
  /\ Paging(r) => call[r] \in ListBody /\ Len(shown[r]) = Offset(page[r], call[r].limit)
  /\ pc[r] \in AuthStatement => call[r].op # "list"

Complete(r) ==
  since[r].walk \subseteq {"create"} =>
    /\ Paging(r) => \A x \in start[r] : \/ x \in ToSet(shown[r])
                                        \/ x \in Listed /\ Place(x) > Len(shown[r])
    /\ Finished(r) => start[r] \subseteq ToSet(shown[r])

Distinct(r) ==
  since[r].walk \subseteq {"delete"} =>
    /\ IsInjective(shown[r])
    /\ Paging(r) => \A x \in ToSet(shown[r]) \cap Listed : Place(x) <= Len(shown[r])

Totalled(r) ==
  since[r].count = {} =>
    /\ pc[r] = "rows" => total[r] = Cardinality(Listed)
    /\ Finished(r) => total[r] <= Len(shown[r])

Walker(r) == Paged(r) /\ Complete(r) /\ Distinct(r) /\ Totalled(r)

Walkers == ReaderTypes /\ \A r \in Req : Walker(r)

LEMMA WalkersInit == Init => Walkers
<1> SUFFICES ASSUME Init PROVE Walkers
  OBVIOUS
<1>1. ReaderTypes
  BY DEF Init, ReaderTypes, Event
<1>2. ASSUME NEW r \in Req PROVE Walker(r)
  <2>1. pc[r] = "idle" /\ page[r] = 1 /\ shown[r] = <<>>
    BY DEF Init
  <2>2. IsInjective(shown[r])
    BY <2>1 DEF IsInjective
  <2> QED
    BY <2>1, <2>2 DEF Walker, Paged, Complete, Distinct, Totalled, Paging, Finished, AuthStatement
<1> QED
  BY <1>1, <1>2 DEF Walkers

(* What the readers see of a step on the entries.                          *)
Noted(q, event) ==
  since'[q] = [walk |-> since[q].walk \cup {event}, count |-> since[q].count \cup {event}]

Effect(q) ==
  \/ Paging(q) /\ Noted(q, "create") /\ Grows
  \/ Paging(q) /\ Noted(q, "delete") /\ Shrinks
  \/ Paging(q) /\ Noted(q, "rename")
  \/ since'[q] = since[q] /\ (Paging(q) => Grows /\ Shrinks)

(* A reader who takes no part in a step is where he was.                   *)
LEMMA OtherWalks ==
  ASSUME ReaderTypes, NEW q \in Req, Walker(q), Effect(q),
         pc'[q] = pc[q], call'[q] = call[q], page'[q] = page[q], total'[q] = total[q],
         shown'[q] = shown[q], start'[q] = start[q]
  PROVE  Walker(q)'
<1>1. /\ Paging(q)' <=> Paging(q)
      /\ Finished(q)' <=> Finished(q)
      /\ Finished(q) => ~Paging(q)
  BY DEF Paging, Finished
<1>2. since[q].walk \subseteq since'[q].walk /\ since[q].count \subseteq since'[q].count
  BY DEF Effect, Noted
<1>3. Paging(q) /\ since'[q].walk \subseteq {"create"} => Grows
  BY DEF Effect, Noted
<1>4. Paging(q) /\ since'[q].walk \subseteq {"delete"} => Shrinks
  BY DEF Effect, Noted
<1>5. Paging(q) /\ since'[q].count = {} => Grows /\ Shrinks
  BY DEF Effect, Noted
<1>6. Len(shown[q]) \in Nat
  BY DEF ReaderTypes
<1>7. Paged(q)'
  BY <1>1 DEF Walker, Paged
<1>8. Complete(q)'
  <2> SUFFICES ASSUME since'[q].walk \subseteq {"create"} PROVE Complete(q)'
    BY DEF Complete
  <2>1. since[q].walk \subseteq {"create"}
    BY <1>2
  <2>2. ASSUME Paging(q), NEW x \in start[q], x \notin ToSet(shown[q])
        PROVE  x \in Listed' /\ Place(x)' > Len(shown[q])
    <3>1. Grows /\ x \in Listed /\ Place(x) > Len(shown[q])
      BY <1>3, <2>1, <2>2 DEF Walker, Complete
    <3> QED
      BY <1>6, <3>1, PlaceGrows
  <2> QED
    BY <1>1, <2>1, <2>2 DEF Walker, Complete
<1>9. Distinct(q)'
  <2> SUFFICES ASSUME since'[q].walk \subseteq {"delete"} PROVE Distinct(q)'
    BY DEF Distinct
  <2>1. since[q].walk \subseteq {"delete"}
    BY <1>2
  <2>2. ASSUME Paging(q), NEW x \in ToSet(shown[q]) \cap Listed'
        PROVE  Place(x)' <= Len(shown[q])
    <3>1. Shrinks
      BY <1>4, <2>2
    <3>2. x \in Listed /\ Place(x) \in Nat /\ Place(x)' \in Nat /\ Place(x)' <= Place(x)
      BY <3>1, PlaceShrinks
    <3>3. Place(x) <= Len(shown[q])
      BY <2>1, <2>2, <3>2 DEF Walker, Distinct
    <3> QED
      BY <1>6, <3>2, <3>3
  <2> QED
    BY <1>1, <2>1, <2>2 DEF Walker, Distinct
<1>10. Totalled(q)'
  <2> SUFFICES ASSUME since'[q].count = {} PROVE Totalled(q)'
    BY DEF Totalled
  <2>1. since[q].count = {}
    BY <1>2
  <2>2. CASE Paging(q)
    <3>1. Listed' = Listed
      BY <1>5, <2>2 DEF Grows, Shrinks
    <3> QED
      BY <1>1, <2>1, <2>2, <3>1 DEF Walker, Totalled
  <2>3. CASE ~Paging(q)
    BY <1>1, <2>1, <2>3 DEF Walker, Totalled, Paging
  <2> QED
    BY <2>2, <2>3
<1> QED
  BY <1>7, <1>8, <1>9, <1>10 DEF Walker

-----------------------------------------------------------------------------
(* A page is shown.                                                        *)

\* What a page adds to s: its rows have the places that follow.
LEMMA PageShown ==
  ASSUME NEW s \in Seq(Id), NEW rows \in Seq(Id)
  PROVE  /\ s \o rows \in Seq(Id) /\ Len(s \o rows) = Len(s) + Len(rows)
         /\ DOMAIN (s \o rows) = 1 .. Len(s) + Len(rows) /\ DOMAIN s = 1 .. Len(s)
         /\ \A i \in 1 .. Len(s) : (s \o rows)[i] = s[i] /\ s[i] \in ToSet(s)
         /\ \A i \in 1 .. Len(s) + Len(rows) : i > Len(s) =>
              (s \o rows)[i] = rows[i - Len(s)] /\ i - Len(s) \in 1 .. Len(rows)
         /\ \A x \in ToSet(s) : x \in ToSet(s \o rows)
         /\ \A i \in 1 .. Len(rows) : rows[i] \in ToSet(s \o rows)
<1>1. PICK t, m, n : t = s \o rows /\ m = Len(s) /\ n = Len(rows)
  OBVIOUS
<1>2. m \in Nat /\ n \in Nat
  BY <1>1
<1>3. t \in Seq(Id) /\ Len(t) = m + n /\ DOMAIN t = 1 .. m + n /\ DOMAIN s = 1 .. m
  BY <1>1
<1>4. /\ \A i \in 1 .. m : t[i] = s[i]
      /\ \A i \in 1 .. m + n : i > m => t[i] = rows[i - m] /\ i - m \in 1 .. n
  BY <1>1, <1>2
<1>5. \A i \in 1 .. m : s[i] \in ToSet(s)
  BY <1>3 DEF ToSet
<1>6. \A x \in ToSet(s) : x \in ToSet(t)
  BY <1>2, <1>3, <1>4 DEF ToSet
<1>7. ASSUME NEW i \in 1 .. n PROVE rows[i] \in ToSet(t)
  <2>1. i + m \in 1 .. m + n /\ i + m > m /\ (i + m) - m = i
    BY <1>2
  <2>2. t[i + m] = rows[i]
    BY <1>4, <2>1
  <2> QED
    BY <1>3, <2>1, <2>2 DEF ToSet
<1> QED
  BY <1>1, <1>3, <1>4, <1>5, <1>6, <1>7

LEMMA PageStep ==
  ASSUME Inv, Walkers, NEW r \in Req, ReadPage(r)
  PROVE  Walker(r)'
<1>1. /\ Types /\ KeysUnique /\ ReaderTypes
      /\ Paged(r) /\ Complete(r) /\ Distinct(r) /\ Totalled(r)
  BY DEF Inv, Walkers, Walker
<1>2. /\ pc[r] = "rows" /\ call[r] \in ListBody /\ Paging(r)
      /\ table' = table /\ since' = since /\ call' = call /\ total' = total /\ start' = start
  BY <1>1 DEF ReadPage, Paged, Paging
<1>3. PICK n \in Nat \ {0}, limit \in 1 .. 100 : n = page[r] /\ limit = call[r].limit
  BY <1>1, <1>2 DEF ReaderTypes, ListBody
<1>4. PICK old \in Seq(Id) : old = shown[r]
  BY <1>1 DEF ReaderTypes
<1>5. PICK rows : rows = PageOf(n, limit)
  OBVIOUS
<1>6. PICK all, m, k, new : /\ all = Cardinality(Listed) /\ m = Len(old)
                          /\ k = Len(rows) /\ new = old \o rows
  OBVIOUS
<1>7. m = Offset(n, limit) /\ m \in Nat /\ all \in Nat
  <2>1. IsFiniteSet(Listed)
    BY <1>1, BrandKeys
  <2> QED
    BY <1>1, <1>2, <1>3, <1>4, <1>6, <2>1, FS_CardinalityType DEF Paged
<1>8. /\ rows \in Seq(Id) /\ k \in Nat /\ k <= limit
      /\ \A i \in 1 .. k : rows[i] \in Listed /\ Place(rows[i]) = m + i
      /\ k # limit => all <= m + k
  <2>1. /\ rows \in Seq(Id) /\ Len(rows) <= limit
        /\ \A i \in 1 .. Len(rows) :
             rows[i] \in Listed /\ Place(rows[i]) = Offset(n, limit) + i
        /\ Len(rows) # limit => Cardinality(Listed) <= Offset(n, limit) + Len(rows)
    BY <1>1, <1>5, PageHas
  <2>2. Len(rows) \in Nat
    BY <2>1
  <2> QED
    BY <1>6, <1>7, <2>1, <2>2
<1>9. /\ shown'[r] = new /\ new \in Seq(Id) /\ Len(new) = m + k
      /\ DOMAIN new = 1 .. m + k
      /\ \A i \in 1 .. m : new[i] = old[i] /\ old[i] \in ToSet(old)
      /\ \A i \in 1 .. m + k : i > m => new[i] = rows[i - m] /\ i - m \in 1 .. k
      /\ \A x \in ToSet(old) : x \in ToSet(new)
      /\ \A i \in 1 .. k : rows[i] \in ToSet(new)
  <2>1. shown'[r] = new
    BY <1>1, <1>3, <1>4, <1>5, <1>6 DEF ReadPage, ReaderTypes
  <2> QED
    BY <1>4, <1>6, <1>8, <2>1, PageShown
<1>10. /\ pc'[r] = IF k = limit THEN "count" ELSE "ok"
       /\ k = limit => page'[r] = n + 1
  <2>1. IF k = limit THEN pc' = [pc EXCEPT ![r] = "count"] /\ page' = [page EXCEPT ![r] = @ + 1]
                     ELSE pc' = [pc EXCEPT ![r] = "ok"]
    BY <1>3, <1>5, <1>6 DEF ReadPage, Goto
  <2> QED
    BY <1>1, <1>3, <2>1 DEF Types, ReaderTypes
<1>11. /\ Paging(r)' <=> k = limit
       /\ Finished(r)' => k # limit
       /\ pc'[r] \in {"count", "ok"}
  BY <1>10 DEF Paging, Finished
<1>12. Listed' = Listed /\ \A x : Place(x)' = Place(x)
  BY <1>2 DEF Listed, Live, Kind, Place
<1>13. \A x \in Listed : Place(x) \in 1 .. all
  BY <1>1, <1>6, PlaceRange
<1>14. Paged(r)'
  <2>1. k = limit => Offset(n + 1, limit) = m + k
    <3>1. PICK p \in Nat : n = p + 1
      BY <1>3
    <3>2. (p + 1) * limit = p * limit + limit
      OBVIOUS
    <3>3. n - 1 = p /\ (n + 1) - 1 = p + 1
      BY <3>1
    <3>4. Offset(n, limit) = p * limit /\ Offset(n + 1, limit) = (p + 1) * limit
      BY <3>3 DEF Offset
    <3> QED
      BY <1>7, <3>2, <3>4
  <2> QED
    BY <1>2, <1>3, <1>9, <1>10, <1>11, <2>1 DEF Paged, AuthStatement
<1>15. ASSUME since[r].walk \subseteq {"create"}, NEW x \in start[r], x \notin ToSet(new)
       PROVE  x \in Listed /\ Place(x) > m + k /\ k = limit
  <2>1. x \in Listed /\ Place(x) > m /\ Place(x) \in 1 .. all
    BY <1>1, <1>2, <1>4, <1>6, <1>9, <1>13, <1>15 DEF Complete
  <2>2. Place(x) > m + k
    <3> SUFFICES ASSUME Place(x) <= m + k PROVE FALSE
      BY <1>7, <1>8, <2>1
    <3>1. PICK i \in 1 .. k : i = Place(x) - m
      BY <1>7, <1>8, <2>1
    <3>2. rows[i] \in Listed /\ Place(rows[i]) = Place(x)
      BY <1>7, <1>8, <2>1, <3>1
    <3>3. rows[i] = x
      BY <1>1, <2>1, <3>2, PlacesDiffer
    <3> QED
      BY <1>9, <1>15, <3>3
  <2> QED
    BY <1>7, <1>8, <2>1, <2>2
<1>16. Complete(r)'
  BY <1>2, <1>9, <1>11, <1>12, <1>15 DEF Complete
<1>17. Distinct(r)'
  <2> SUFFICES ASSUME since[r].walk \subseteq {"delete"}
               PROVE  IsInjective(new) /\ \A x \in ToSet(new) \cap Listed : Place(x) <= m + k
    BY <1>2, <1>9, <1>12 DEF Distinct
  <2>1. IsInjective(old) /\ \A x \in ToSet(old) \cap Listed : Place(x) <= m
    BY <1>1, <1>2, <1>4, <1>6 DEF Distinct
  <2>2. ASSUME NEW i \in 1 .. m + k
        PROVE  \/ i <= m /\ new[i] = old[i] /\ (new[i] \in Listed => Place(new[i]) <= m)
               \/ i > m /\ new[i] \in Listed /\ Place(new[i]) = i
    <3>1. CASE i <= m
      <4>1. i \in 1 .. m
        BY <1>7, <3>1
      <4> QED
        BY <1>9, <2>1, <3>1, <4>1
    <3>2. CASE i > m
      <4>1. i - m \in 1 .. k /\ new[i] = rows[i - m]
        BY <1>9, <3>2
      <4>2. rows[i - m] \in Listed /\ Place(rows[i - m]) = m + (i - m)
        BY <1>8, <4>1
      <4> QED
        BY <1>7, <3>2, <4>1, <4>2
    <3> QED
      BY <1>7, <3>1, <3>2
  <2>3. ASSUME NEW i \in 1 .. m + k, NEW j \in 1 .. m + k, new[i] = new[j] PROVE i = j
    <3>1. CASE i <= m /\ j <= m
      <4>1. i \in 1 .. m /\ j \in 1 .. m /\ old[i] = old[j]
        BY <1>7, <1>9, <2>3, <3>1
      <4>2. DOMAIN old = 1 .. m
        BY <1>4, <1>6
      <4> QED
        BY <2>1, <4>1, <4>2 DEF IsInjective
    <3>2. CASE ~(i <= m /\ j <= m)
      BY <1>7, <2>2, <2>3, <3>2
    <3> QED
      BY <3>1, <3>2
  <2>4. IsInjective(new)
    BY <1>9, <2>3 DEF IsInjective
  <2>5. ASSUME NEW x \in ToSet(new) \cap Listed PROVE Place(x) <= m + k
    <3>1. PICK i \in 1 .. m + k : x = new[i]
      BY <1>9 DEF ToSet
    <3>2. Place(x) <= m \/ Place(x) = i
      BY <2>2, <3>1
    <3>3. Place(x) \in 1 .. all
      BY <1>13
    <3> QED
      BY <1>7, <1>8, <3>1, <3>2, <3>3
  <2> QED
    BY <2>4, <2>5
<1>18. Totalled(r)'
  BY <1>1, <1>2, <1>6, <1>8, <1>9, <1>11 DEF Totalled
<1> QED
  BY <1>14, <1>16, <1>17, <1>18 DEF Walker

-----------------------------------------------------------------------------
(* The other steps.                                                        *)

LEMMA ReadersPage ==
  ASSUME Inv, NEW q \in Req, Paged(q)
  PROVE  Reading(q) <=> Paging(q)
<1>1. Paging(q) => Reading(q)
  BY DEF Paged, Paging, Reading, InFlight, ListBody
<1>2. ASSUME Reading(q) PROVE Paging(q)
  <2>1. pc[q] \in Statement \cup AuthStatement /\ call[q].op = "list"
    BY <1>2 DEF Inv, Types, Reading
  <2>2. pc[q] \notin AuthStatement /\ pc[q] \notin {"idle", "ok", "failed"}
    BY <1>2, <2>1 DEF Paged, Reading, InFlight
  <2>3. pc[q] \notin {"insert", "get", "put", "delete"}
    BY <2>1 DEF Inv, Control, CreateBody, UpdateBody, DeleteBody
  <2> QED
    BY <2>1, <2>2, <2>3 DEF Statement, Paging
<1> QED
  BY <1>1, <1>2

(* What happens to an entry is noted by those who are reading.             *)
LEMMA HappensEffect ==
  ASSUME Inv, Walkers, NEW kind, NEW event \in Event, Happens(kind, event),
         kind # "brand" => Grows /\ Shrinks,
         kind = "brand" => \/ event = "create" /\ Grows
                           \/ event = "delete" /\ Shrinks
                           \/ event = "rename"
  PROVE  /\ since' \in [Req -> [walk : SUBSET Event, count : SUBSET Event]]
         /\ \A q \in Req : Effect(q)
<1>1. since \in [Req -> [walk : SUBSET Event, count : SUBSET Event]]
  BY DEF Walkers, ReaderTypes
<1>2. \A q \in Req : since'[q] =
        IF kind = "brand" /\ Reading(q)
          THEN [walk |-> since[q].walk \cup {event}, count |-> since[q].count \cup {event}]
          ELSE since[q]
  BY DEF Happens
<1>3. \A q \in Req : Reading(q) <=> Paging(q)
  BY ReadersPage DEF Walkers, Walker
<1>4. ASSUME NEW q \in Req PROVE Effect(q)
  BY <1>2, <1>3 DEF Effect, Noted
<1>5. ASSUME NEW q \in Req PROVE since'[q] \in [walk : SUBSET Event, count : SUBSET Event]
  <2>1. since[q].walk \cup {event} \in SUBSET Event /\ since[q].count \cup {event} \in SUBSET Event
    BY <1>1
  <2>2. since'[q] = since[q] \/ since'[q] = [walk |-> since[q].walk \cup {event},
                                            count |-> since[q].count \cup {event}]
    BY <1>2
  <2> QED
    BY <1>1, <2>1, <2>2
<1> QED
  BY <1>4, <1>5 DEF Happens

LEMMA SameBrands ==
  ASSUME table' = table
  PROVE  Grows /\ Shrinks
BY DEF Grows, Shrinks, Listed, Live, Kind

(* Writing a user leaves the brands alone.                                 *)
LEMMA UserWritten ==
  ASSUME Types, NEW x \in Id, NEW row, row.kind = "user",
         table[x] = NoRow \/ table[x].kind = "user", table' = [table EXCEPT ![x] = row]
  PROVE  Grows /\ Shrinks
<1>1. \A y \in Id : table'[y] = IF y = x THEN row ELSE table[y]
  BY DEF Types
<1>2. x \notin Listed /\ x \notin Listed'
  BY <1>1 DEF Listed, Live, Kind
<1>3. \A y \in Id \ {x} : table'[y] = table[y] /\ (y \in Listed' <=> y \in Listed)
  BY <1>1 DEF Listed, Live, Kind
<1>4. Listed \subseteq Id /\ Listed' \subseteq Id
  BY DEF Listed
<1> QED
  BY <1>2, <1>3, <1>4 DEF Grows, Shrinks

(* A step by a request that is not reading, and does not begin to.         *)
LEMMA StepWalks ==
  ASSUME Inv, Walkers, NEW r \in Req, ~Paging(r),
         UNCHANGED <<page, total, shown, start>>,
         since' \in [Req -> [walk : SUBSET Event, count : SUBSET Event]],
         \A q \in Req : Effect(q),
         \A q \in Req \ {r} : pc'[q] = pc[q] /\ call'[q] = call[q],
         pc'[r] \notin {"idle", "count", "rows"},
         pc'[r] \in AuthStatement \cup {"ok"} => call'[r].op # "list"
  PROVE  Walkers'
<1>1. ReaderTypes'
  BY DEF Walkers, ReaderTypes
<1>2. ASSUME NEW q \in Req, q # r PROVE Walker(q)'
  BY <1>2, OtherWalks DEF Walkers
<1>3. Walker(r)'
  <2>1. ~Paging(r)' /\ ~Finished(r)' /\ since'[r] = since[r] /\ Distinct(r)
    BY DEF Paging, Finished, Effect, Walkers, Walker
  <2> QED
    BY <2>1 DEF Walker, Paged, Complete, Distinct, Totalled, Paging
<1> QED
  BY <1>1, <1>2, <1>3 DEF Walkers

LEMMA RefuseWalks ==
  ASSUME Inv, Walkers, NEW r \in Req, Refuse(r)
  PROVE  Walkers'
<1>1. Types /\ ReaderTypes
  BY DEF Inv, Walkers
<1>2. /\ pc' = [pc EXCEPT ![r] = "failed"] /\ page' = [page EXCEPT ![r] = 1]
      /\ total' = [total EXCEPT ![r] = 0] /\ shown' = [shown EXCEPT ![r] = <<>>]
      /\ start' = [start EXCEPT ![r] = {}]
      /\ table' = table /\ call' = call /\ since' = since
  BY DEF Refuse, Goto
<1>3. ReaderTypes'
  BY <1>1, <1>2 DEF ReaderTypes
<1>4. ASSUME NEW q \in Req, q # r PROVE Walker(q)'
  <2>1. /\ pc'[q] = pc[q] /\ call'[q] = call[q] /\ page'[q] = page[q] /\ total'[q] = total[q]
        /\ shown'[q] = shown[q] /\ start'[q] = start[q]
    BY <1>1, <1>2, <1>4 DEF Types, ReaderTypes
  <2>2. Effect(q)
    BY <1>2, SameBrands DEF Effect
  <2> QED
    BY <1>1, <2>1, <2>2, OtherWalks DEF Walkers
<1>5. Walker(r)'
  <2>1. pc'[r] = "failed" /\ shown'[r] = <<>>
    BY <1>1, <1>2 DEF Types, ReaderTypes
  <2>2. IsInjective(shown'[r])
    BY <2>1 DEF IsInjective
  <2> QED
    BY <2>1, <2>2 DEF Walker, Paged, Complete, Distinct, Totalled, Paging, Finished, AuthStatement
<1> QED
  BY <1>3, <1>4, <1>5 DEF Walkers

LEMMA WriterWalks ==
  ASSUME Inv, Walkers, NEW r \in Req, ~Refuse(r),
         CreateEntry(r) \/ PutEntry(r) \/ RemoveEntry(r)
  PROVE  Walkers'
<1>1. Types /\ Control(r)
  BY DEF Inv
<1>2. PICK kind, event :
        /\ event \in Event /\ Happens(kind, event)
        /\ kind # "brand" => Grows /\ Shrinks
        /\ kind = "brand" => \/ event = "create" /\ Grows
                             \/ event = "delete" /\ Shrinks
                             \/ event = "rename"
  <2>1. CASE CreateEntry(r)
    <3>1. PICK row : row = call[r].row
      OBVIOUS
    <3>2. /\ table[r] = NoRow /\ table' = [table EXCEPT ![r] = row] /\ Happens(row.kind, "create")
          /\ row \in EntryRow /\ r \in Id
      BY <1>1, <2>1, <3>1 DEF CreateEntry, Control, CreateBody, Id
    <3>3. row.kind \in {"brand", "user"}
      BY <3>2 DEF EntryRow, BrandRow, UserRow
    <3>4. row.kind # "brand" => Grows /\ Shrinks
      BY <1>1, <3>2, <3>3, UserWritten
    <3>5. Grows \/ row.kind # "brand"
      <4>1. r \notin Listed
        BY <3>2 DEF Listed, Live, Kind
      <4>2. \A y \in Id \ {r} : table'[y] = table[y]
        BY <1>1, <3>2 DEF Types
      <4>3. \A y \in Listed : y \in Id \ {r}
        BY <4>1 DEF Listed
      <4> QED
        BY <4>2, <4>3 DEF Grows, Listed, Live, Kind
    <3> QED
      BY <3>2, <3>4, <3>5 DEF Event
  <2>2. CASE PutEntry(r)
    <3>1. PICK x, k, row : /\ x = call[r].entry /\ k = call[r].kind
                           /\ row = [Changed(r) EXCEPT !.live = table[x].live]
      OBVIOUS
    <3>2. /\ table' = [table EXCEPT ![x] = row] /\ Happens(k, "rename")
          /\ Live(x, k) /\ call[r] \in UpdateBody
      BY <1>1, <2>2, <3>1 DEF PutEntry, StillLive, Control
    <3>3. x \in Id /\ k \in {"brand", "user"}
      BY <3>1, <3>2 DEF UpdateBody
    <3>4. Changed(r) \in EntryRow /\ Changed(r).kind = k
      BY <1>1, <2>2, <3>1, <3>2, ChangedType DEF Control, PutEntry
    <3>5. row.kind = k
      BY <3>1, <3>4 DEF EntryRow, BrandRow, UserRow
    <3>6. k # "brand" => Grows /\ Shrinks
      BY <1>1, <3>2, <3>3, <3>5, UserWritten DEF Live, Kind
    <3> QED
      BY <3>2, <3>6 DEF Event
  <2>3. CASE RemoveEntry(r)
    <3>1. PICK x, k, row : /\ x = call[r].entry /\ k = call[r].kind
                           /\ row = [table[x] EXCEPT !.live = FALSE]
      OBVIOUS
    <3>2. /\ table' = [table EXCEPT ![x] = row] /\ Happens(k, "delete")
          /\ Live(x, k) /\ call[r] \in DeleteBody
      BY <1>1, <2>3, <3>1 DEF RemoveEntry, StillLive, Control
    <3>3. x \in Id /\ k \in {"brand", "user"}
      BY <3>1, <3>2 DEF DeleteBody
    <3>4. table[x] \in EntryRow /\ table[x].kind = k
      BY <1>1, <3>2, <3>3 DEF Live, Kind, Types
    <3>5. row.kind = k /\ ~row.live
      BY <3>1, <3>4 DEF EntryRow, BrandRow, UserRow
    <3>6. k # "brand" => Grows /\ Shrinks
      BY <1>1, <3>2, <3>3, <3>4, <3>5, UserWritten
    <3>7. Shrinks
      <4>1. \A y \in Id : table'[y] = IF y = x THEN row ELSE table[y]
        BY <1>1, <3>2 DEF Types
      <4>2. x \notin Listed'
        BY <3>3, <3>5, <4>1 DEF Listed, Live, Kind
      <4>3. \A y \in Listed' : y \in Id \ {x} /\ table'[y] = table[y]
        BY <4>1, <4>2 DEF Listed
      <4> QED
        BY <4>3 DEF Shrinks, Listed, Live, Kind
    <3> QED
      BY <3>2, <3>6, <3>7 DEF Event
  <2> QED
    BY <2>1, <2>2, <2>3
<1>3. /\ since' \in [Req -> [walk : SUBSET Event, count : SUBSET Event]]
      /\ \A q \in Req : Effect(q)
  BY <1>2, HappensEffect
<1>4. /\ UNCHANGED <<page, total, shown, start>> /\ call' = call
      /\ pc' = [pc EXCEPT ![r] = "ok"] \/ pc' = [pc EXCEPT ![r] = "failed"]
      /\ pc[r] \in {"insert", "put", "delete"}
  BY DEF CreateEntry, PutEntry, RemoveEntry, Answer, Goto, reading
<1>5. call[r].op # "list" /\ ~Paging(r)
  BY <1>1, <1>4 DEF Control, CreateBody, UpdateBody, DeleteBody, Paging
<1>6. /\ pc'[r] \in {"ok", "failed"}
      /\ \A q \in Req \ {r} : pc'[q] = pc[q] /\ call'[q] = call[q]
  BY <1>1, <1>4 DEF Types
<1> QED
  BY <1>3, <1>4, <1>5, <1>6, StepWalks DEF AuthStatement

LEMMA ReceiveWalks ==
  ASSUME Inv, Walkers, NEW r \in Req, Receive(r)
  PROVE  Walkers'
<1>1. Types /\ KeysUnique /\ ReaderTypes /\ Paged(r)
  BY DEF Inv, Walkers, Walker
<1>2. PICK b \in Body :
        /\ call' = [call EXCEPT ![r] = b]
        /\ pc' = [pc EXCEPT ![r] = CASE b.op = "create" -> "insert"
                                     [] b.op = "update" -> "get"
                                     [] b.op = "delete" -> "delete"
                                     [] b.op = "list"   -> "count"]
        /\ start' = IF b.op = "list" THEN [start EXCEPT ![r] = {x \in Id : Live(x, "brand")}]
                    ELSE start
  BY DEF Receive, Goto
<1>3. /\ pc[r] = "idle" /\ table' = table /\ page' = page /\ total' = total
      /\ shown' = shown /\ since' = since
  BY DEF Receive
<1>4. \A q \in Req : Effect(q)
  BY <1>3, SameBrands DEF Effect
<1>5. \A q \in Req \ {r} : pc'[q] = pc[q] /\ call'[q] = call[q] /\ start'[q] = start[q]
  BY <1>1, <1>2 DEF Types, ReaderTypes
<1>6. b \in CreateBody \cup UpdateBody \cup DeleteBody \cup ListBody
  BY BodyAssumption
<1>7. CASE b.op # "list"
  <2>1. b.op \in {"create", "update", "delete"}
    BY <1>6, <1>7 DEF CreateBody, UpdateBody, DeleteBody, ListBody
  <2>2. pc'[r] \in {"insert", "get", "delete"} /\ start' = start
    BY <1>1, <1>2, <2>1 DEF Types
  <2>3. ~Paging(r)
    BY <1>3 DEF Paging
  <2> QED
    BY <1>1, <1>3, <1>4, <1>5, <2>2, <2>3, StepWalks DEF AuthStatement, ReaderTypes
<1>8. CASE b.op = "list"
  <2>1. b \in ListBody
    BY <1>6, <1>8 DEF CreateBody, UpdateBody, DeleteBody
  <2>2. pc'[r] = "count" /\ call'[r] = b /\ start'[r] = Listed
    BY <1>1, <1>2, <1>8 DEF Types, ReaderTypes, Listed
  <2>3. page'[r] = 1 /\ shown'[r] = <<>>
    BY <1>1, <1>3 DEF Paged
  <2>4. ReaderTypes'
    BY <1>1, <1>2, <1>3, <1>8 DEF ReaderTypes
  <2>5. ASSUME NEW q \in Req, q # r PROVE Walker(q)'
    BY <1>3, <1>4, <1>5, <2>5, OtherWalks DEF Walkers
  <2>6. Walker(r)'
    <3>1. Offset(1, b.limit) = 0
      BY <2>1 DEF Offset, ListBody
    <3>2. Paged(r)'
      BY <2>1, <2>2, <2>3, <3>1 DEF Paged, AuthStatement
    <3>3. Listed' = Listed /\ \A x : Place(x)' = Place(x)
      BY <1>3 DEF Listed, Live, Kind, Place
    <3>4. \A x \in Listed : Place(x) > 0
      BY <1>1, PlaceRange
    <3>5. Complete(r)'
      BY <2>2, <2>3, <3>3, <3>4 DEF Complete, Finished
    <3>6. IsInjective(shown'[r]) /\ ToSet(shown'[r]) = {}
      BY <2>3 DEF IsInjective, ToSet
    <3>7. Distinct(r)'
      BY <3>6 DEF Distinct
    <3>8. Totalled(r)'
      BY <2>2 DEF Totalled, Finished
    <3> QED
      BY <3>2, <3>5, <3>7, <3>8 DEF Walker
  <2> QED
    BY <2>4, <2>5, <2>6 DEF Walkers
<1> QED
  BY <1>7, <1>8

LEMMA CountWalks ==
  ASSUME Inv, Walkers, NEW r \in Req, CountBrands(r)
  PROVE  Walkers'
<1>1. /\ Types /\ ReaderTypes
      /\ Paged(r) /\ Complete(r) /\ Distinct(r)
  BY DEF Inv, Walkers, Walker
<1>2. /\ pc[r] = "count" /\ pc' = [pc EXCEPT ![r] = "rows"]
      /\ total' = [total EXCEPT ![r] = Cardinality(Listed)]
      /\ since' = [since EXCEPT ![r].count = {}]
      /\ table' = table /\ call' = call /\ page' = page /\ shown' = shown /\ start' = start
  BY DEF CountBrands, Goto, Counted, Listed
<1>3. Cardinality(Listed) \in Nat
  <2>1. IsFiniteSet(Listed)
    BY BrandKeys DEF Inv
  <2> QED
    BY <2>1, FS_CardinalityType
<1>4. ReaderTypes'
  BY <1>1, <1>2, <1>3 DEF ReaderTypes
<1>5. ASSUME NEW q \in Req, q # r PROVE Walker(q)'
  <2>1. pc'[q] = pc[q] /\ total'[q] = total[q] /\ since'[q] = since[q]
    BY <1>1, <1>2, <1>5 DEF Types, ReaderTypes
  <2>2. Effect(q)
    BY <1>2, <2>1, SameBrands DEF Effect
  <2> QED
    BY <1>1, <1>2, <2>1, <2>2, OtherWalks DEF Walkers
<1>6. Walker(r)'
  <2>1. pc'[r] = "rows" /\ total'[r] = Cardinality(Listed) /\ since'[r].walk = since[r].walk
    BY <1>1, <1>2 DEF Types, ReaderTypes
  <2>2. Listed' = Listed /\ \A x : Place(x)' = Place(x)
    BY <1>2 DEF Listed, Live, Kind, Place
  <2>3. Paging(r) /\ Paging(r)' /\ ~Finished(r)'
    BY <1>2, <2>1 DEF Paging, Finished
  <2>4. Paged(r)'
    BY <1>1, <1>2, <2>1, <2>3 DEF Paged, AuthStatement
  <2>5. Complete(r)'
    BY <1>1, <1>2, <2>1, <2>2, <2>3 DEF Complete
  <2>6. Distinct(r)'
    BY <1>1, <1>2, <2>1, <2>2, <2>3 DEF Distinct
  <2>7. Totalled(r)'
    BY <2>1, <2>2, <2>3 DEF Totalled
  <2> QED
    BY <2>4, <2>5, <2>6, <2>7 DEF Walker
<1> QED
  BY <1>4, <1>5, <1>6 DEF Walkers

LEMMA PageWalks ==
  ASSUME Inv, Walkers, NEW r \in Req, ReadPage(r)
  PROVE  Walkers'
<1>1. Types /\ ReaderTypes /\ KeysUnique /\ Paged(r)
  BY DEF Inv, Walkers, Walker
<1>2. PICK rows, s : /\ rows = PageOf(page[r], call[r].limit)
                     /\ pc[r] = "rows" /\ pc' = [pc EXCEPT ![r] = s]
                     /\ shown' = [shown EXCEPT ![r] = @ \o rows]
                     /\ page' = [page EXCEPT ![r] = @ + 1] \/ page' = page
                     /\ table' = table /\ call' = call /\ total' = total
                     /\ start' = start /\ since' = since
  BY DEF ReadPage, Goto
<1>3. rows \in Seq(Id)
  <2>1. PICK n \in Nat \ {0}, limit \in 1 .. 100 : n = page[r] /\ limit = call[r].limit
    BY <1>1, <1>2 DEF ReaderTypes, ListBody, Paged, Paging
  <2>2. PageOf(n, limit) \in Seq(Id)
    BY <1>1, PageHas
  <2> QED
    BY <1>2, <2>1, <2>2
<1>4. ReaderTypes'
  <2>1. shown' \in [Req -> Seq(Id)]
    BY <1>1, <1>2, <1>3 DEF ReaderTypes
  <2>2. page' \in [Req -> Nat \ {0}]
    BY <1>1, <1>2 DEF ReaderTypes
  <2> QED
    BY <1>1, <1>2, <2>1, <2>2 DEF ReaderTypes
<1>5. ASSUME NEW q \in Req, q # r PROVE Walker(q)'
  <2>1. pc'[q] = pc[q] /\ page'[q] = page[q] /\ shown'[q] = shown[q]
    BY <1>1, <1>2, <1>5 DEF Types, ReaderTypes
  <2>2. Effect(q)
    BY <1>2, SameBrands DEF Effect
  <2> QED
    BY <1>1, <1>2, <2>1, <2>2, OtherWalks DEF Walkers
<1>6. Walker(r)'
  BY PageStep
<1> QED
  BY <1>4, <1>5, <1>6 DEF Walkers

LEMMA GetWalks ==
  ASSUME Inv, Walkers, NEW r \in Req, GetEntry(r), ~Refuse(r)
  PROVE  Walkers'
<1>1. Types /\ ReaderTypes
  BY DEF Inv, Walkers
<1>2. /\ pc[r] = "get" /\ pc' = [pc EXCEPT ![r] = "put"]
      /\ table' = table /\ call' = call /\ page' = page /\ total' = total
      /\ shown' = shown /\ start' = start /\ since' = since
  BY DEF GetEntry, Goto, reading
<1>3. \A q \in Req : Effect(q)
  BY <1>2, SameBrands DEF Effect
<1>4. pc'[r] = "put" /\ ~Paging(r) /\ \A q \in Req \ {r} : pc'[q] = pc[q]
  BY <1>1, <1>2 DEF Types, Paging
<1> QED
  BY <1>1, <1>2, <1>3, <1>4, StepWalks DEF AuthStatement, ReaderTypes

LEMMA StutterWalks ==
  ASSUME Walkers, UNCHANGED vars
  PROVE  Walkers'
<1>1. /\ table' = table /\ pc' = pc /\ call' = call /\ page' = page /\ total' = total
      /\ shown' = shown /\ start' = start /\ since' = since
  BY DEF vars, reading
<1>2. ReaderTypes'
  BY <1>1 DEF Walkers, ReaderTypes
<1>3. ASSUME NEW q \in Req PROVE Walker(q)'
  <2>1. Effect(q)
    BY <1>1, SameBrands DEF Effect
  <2> QED
    BY <1>1, <2>1, OtherWalks DEF Walkers
<1> QED
  BY <1>2, <1>3 DEF Walkers

LEMMA WalkersStep == Inv /\ Walkers /\ [Next]_vars => Walkers'
<1> SUFFICES ASSUME Inv, Walkers, [Next]_vars PROVE Walkers'
  OBVIOUS
<1>1. CASE UNCHANGED vars
  BY <1>1, StutterWalks
<1>2. ASSUME NEW r \in Req, Refuse(r) PROVE Walkers'
  BY <1>2, RefuseWalks
<1>3. ASSUME NEW r \in Req, Receive(r) PROVE Walkers'
  BY <1>3, ReceiveWalks
<1>4. ASSUME NEW r \in Req, CreateEntry(r) \/ PutEntry(r) \/ RemoveEntry(r) PROVE Walkers'
  BY <1>2, <1>4, WriterWalks
<1>5. ASSUME NEW r \in Req, GetEntry(r) PROVE Walkers'
  BY <1>2, <1>5, GetWalks
<1>6. ASSUME NEW r \in Req, CountBrands(r) PROVE Walkers'
  BY <1>6, CountWalks
<1>7. ASSUME NEW r \in Req, ReadPage(r) PROVE Walkers'
  BY <1>7, PageWalks
<1> QED
  BY <1>1, <1>2, <1>3, <1>4, <1>5, <1>6, <1>7 DEF Next, Fail

LEMMA WalkersInvariance == Spec => [](Inv /\ Walkers)
<1>1. Init => Inv /\ Walkers
  BY InvInit, WalkersInit
<1>2. Inv /\ Walkers /\ [Next]_vars => (Inv /\ Walkers)'
  BY InvStep, WalkersStep
<1> QED
  BY <1>1, <1>2, PTL DEF Spec

LEMMA WalkersPromise == Walkers => WalkMissesNothing /\ WalkRepeatsNothing /\ TotalIsReached
<1> SUFFICES ASSUME Walkers PROVE WalkMissesNothing /\ WalkRepeatsNothing /\ TotalIsReached
  OBVIOUS
<1>1. \A r \in Req : Complete(r) /\ Distinct(r) /\ Totalled(r)
  BY DEF Walkers, Walker
<1>2. WalkMissesNothing
  BY <1>1 DEF WalkMissesNothing, Complete, Finished
<1>3. WalkRepeatsNothing
  BY <1>1 DEF WalkRepeatsNothing, Distinct
<1>4. TotalIsReached
  BY <1>1 DEF TotalIsReached, Totalled, Finished
<1> QED
  BY <1>2, <1>3, <1>4

(* A reader who goes through the pages is shown every brand there was when *)
(* he began, as long as brands are only created: what is inserted pushes   *)
(* the others to later pages, and he has yet to come to those.             *)
THEOREM WalksMissNothing == Spec => []WalkMissesNothing
  BY WalkersInvariance, WalkersPromise, PTL

(* He is shown none twice, as long as brands are only deleted: the others  *)
(* move to earlier pages, and he has left those behind.                    *)
THEOREM WalksRepeatNothing == Spec => []WalkRepeatsNothing
  BY WalkersInvariance, WalkersPromise, PTL

(* A reader who comes to the end has been shown as many brands as the last *)
(* total said, unless something happened in between: every page before was *)
(* full.                                                                   *)
THEOREM TotalsAreReached == Spec => []TotalIsReached
  BY WalkersInvariance, WalkersPromise, PTL
=============================================================================
