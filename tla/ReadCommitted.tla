--------------------------- MODULE ReadCommitted ---------------------------
(***************************************************************************)
(* The database as internal/repository uses it: PostgreSQL at its default  *)
(* isolation level, READ COMMITTED, reached through a pgx pool or a pgx    *)
(* transaction (the two things repository.DBTX stands for).                *)
(*                                                                         *)
(* `table' maps the name of every row to its last committed version.       *)
(* `draft[r]' holds the row versions that the open transaction of request  *)
(* r has written or locked and not committed: its domain is the set of     *)
(* rows on which r holds the row lock. Nobody else sees a draft. A         *)
(* statement outside a transaction reads `table'; a statement inside one   *)
(* also sees its own drafts; a statement that must lock a row waits until  *)
(* no other transaction has it, and then works on the version committed    *)
(* last.                                                                   *)
(***************************************************************************)
CONSTANTS
  Req,      \* the requests: one goroutine of net/http each
  NoRow     \* the version of a row that does not exist

VARIABLES
  table,    \* the committed version of every row
  draft     \* the uncommitted row versions of every request's transaction

db == <<table, draft>>

\* The rows request r has locked.
Locked(r) == DOMAIN draft[r]

\* A transaction that has locked nothing.
NoDraft == [x \in {} |-> NoRow]

\* No other transaction holds the lock of row x.
Free(r, x) == \A q \in Req \ {r} : x \notin Locked(q)

\* The version of row x a statement of r's transaction works on.
Seen(r, x) == IF x \in Locked(r) THEN draft[r][x] ELSE table[x]

\* INSERT, UPDATE, DELETE or SELECT ... FOR UPDATE in a transaction, once no
\* other transaction holds a row of it: the rows of new get these versions.
Write(r, new) ==
  /\ \A x \in DOMAIN new : Free(r, x)
  /\ draft' = [draft EXCEPT ![r] =
                 [x \in Locked(r) \cup DOMAIN new |->
                    IF x \in DOMAIN new THEN new[x] ELSE draft[r][x]]]
  /\ UNCHANGED table

\* SELECT ... FOR UPDATE: row x is locked at the version it has.
LockRow(r, x) == Write(r, [y \in {x} |-> Seen(r, y)])

\* An UPDATE of row x or an INSERT of it on the pool: a transaction of its own.
Autocommit(r, x, new) ==
  /\ Free(r, x)
  /\ table' = [table EXCEPT ![x] = new]
  /\ UNCHANGED draft

\* tx.Commit: every draft of r becomes the committed version of its row.
Commit(r) ==
  /\ table' = [x \in DOMAIN table |-> Seen(r, x)]
  /\ draft' = [draft EXCEPT ![r] = NoDraft]

\* tx.Rollback, deferred in every service: r's drafts and locks are gone.
Rollback(r) ==
  /\ draft' = [draft EXCEPT ![r] = NoDraft]
  /\ UNCHANGED table
=============================================================================
