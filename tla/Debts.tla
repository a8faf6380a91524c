------------------------------- MODULE Debts -------------------------------
(***************************************************************************)
(* Who owes whom: ClientPaymentService and CreditorTransactionService,     *)
(* which move a running total of debt together with the safe,              *)
(* SafeService.OwnerDeposit, which settles the debts that closing a shift  *)
(* leaves to the owner, and the creation, renaming and deletion of clients *)
(* and creditors, which go to the pool.                                    *)
(*                                                                         *)
(* The row named after a request is the payment or loan it inserts, and    *)
(* Entry(r) is the entry it makes in the safe. Amounts of requests (that   *)
(* of a loan is a product with the rate of exchange) are counted in parts, *)
(* those of rows in units.                                                 *)
(***************************************************************************)
EXTENDS Sequences, FiniteSetsExt, ReadCommitted, Decimal

CONSTANTS
  Client, Creditor,
  Newest,   \* the owner's debts, the newest first: the order of ListUnsettled
  InitRow,  \* the database the requests find
  Body      \* the validated request bodies the users may send

VARIABLES
  pc,       \* the statement each request is at
  call,     \* the body of each request
  found,    \* the row of a client or creditor that GetByID found
  debts,    \* the positions of the debts a deposit has listed and not looked at yet
  remaining \* what is left of a deposit

locals == <<call, found, debts, remaining>>
vars == <<table, draft, pc, locals>>

Person == Client \cup Creditor
OwnerDebt == {Newest[i] : i \in DOMAIN Newest}

Entry(r) == <<r, "safe">>

Row == Person \cup OwnerDebt \cup Req \cup {Entry(r) : r \in Req}

-----------------------------------------------------------------------------
\* total_debt of a client is what he owes, of a creditor what he is owed.
PersonRow == [total_debt : Int, live : BOOLEAN]

OwnerDebtRow == [amount : Nat, is_settled : BOOLEAN]

PaymentRow == [client : Client, amount : Nat]

LoanRow == [creditor : Creditor, type : {"receive", "repay"}, amount_uzs : Nat]

\* An entry of the safe: income counts up, an expense down.
EntryRow == [amount : Int]

Version(x) ==
  CASE x \in Person    -> PersonRow \cup {NoRow}
    [] x \in OwnerDebt -> OwnerDebtRow
    [] x \in Req       -> PaymentRow \cup LoanRow \cup {NoRow}
    [] OTHER           -> EntryRow \cup {NoRow}

Rows(f) ==
  /\ f = [x \in DOMAIN f |-> f[x]]
  /\ DOMAIN f \subseteq Row
  /\ \A x \in DOMAIN f : f[x] \in Version(x)

PaymentBody == [op : {"payment"}, client : Client, amount : Nat \ {0}]

LoanBody == [op : {"loan"}, creditor : Creditor, type : {"receive", "repay"},
             amount_uzs : Nat \ {0}]

DepositBody == [op : {"deposit"}, amount : Nat \ {0}]

CreateBody == [op : {"create"}, person : Person]

\* A new name, phone or note for a client or a creditor: not modelled themselves.
RenameBody == [op : {"rename"}, person : Person]

DeleteBody == [op : {"delete"}, person : Person]

NoCall == [op |-> "none"]

ASSUME NamesAssumption ==
  /\ IsFiniteSet(Req)
  /\ Client \cap Creditor = {} /\ Person \cap OwnerDebt = {}
  /\ Req \cap (Person \cup OwnerDebt) = {}
  /\ {Entry(r) : r \in Req} \cap (Person \cup OwnerDebt \cup Req) = {}

ASSUME NewestAssumption == Newest \in Seq(OwnerDebt)

ASSUME BodyAssumption ==
  Body \subseteq PaymentBody \cup LoanBody \cup DepositBody \cup CreateBody \cup RenameBody
             \cup DeleteBody

\* The names the server will choose (uuid.New) for new clients and creditors.
Fresh == {b.person : b \in {c \in Body : c.op = "create"}}

ASSUME NoRowAssumption == NoRow \notin EntryRow \cup PersonRow

ASSUME InitRowAssumption ==
  /\ Rows(InitRow) /\ DOMAIN InitRow = Row
  /\ \A r \in Req : InitRow[r] = NoRow /\ InitRow[Entry(r)] = NoRow
  /\ \A x \in Fresh : InitRow[x] = NoRow

-----------------------------------------------------------------------------
InFlight(r) == pc[r] \notin {"idle", "ok", "failed"}

Goto(r, statement) == pc' = [pc EXCEPT ![r] = statement]

\* The statement after this one: a payment is recorded first and booked last, a
\* loan the other way round.
After(op, statement) ==
  CASE statement = "insert" -> IF op = "payment" THEN "debt" ELSE "commit"
    [] statement = "debt"   -> IF op = "payment" THEN "safe" ELSE "insert"
    [] statement = "safe"   -> CASE op = "payment" -> "commit"
                                 [] op = "loan"    -> "debt"
                                 [] op = "deposit" -> "list"

Proceed(r) == Goto(r, After(call[r].op, pc[r])) /\ UNCHANGED locals

\* The handler returns: its variables are gone.
Leave(r, outcome) ==
  /\ Goto(r, outcome)
  /\ found' = [found EXCEPT ![r] = NoRow]
  /\ debts' = [debts EXCEPT ![r] = {}]
  /\ remaining' = [remaining EXCEPT ![r] = 0]
  /\ UNCHANGED call

\* An error return, with the deferred Rollback.
Refuse(r) == Rollback(r) /\ Leave(r, "failed")

Fail(r) == InFlight(r) /\ Refuse(r)

\* The client or the creditor a request is about.
Subject(b) ==
  CASE b.op = "payment" -> b.client
    [] b.op = "loan"    -> b.creditor
    [] OTHER            -> b.person

\* No two creations choose the same name, and no body knows it before.
Nameable(b) ==
  CASE b.op = "create"  -> \A q \in Req : call[q].op = "create" => call[q].person # b.person
    [] b.op = "deposit" -> TRUE
    [] OTHER            -> Subject(b) \in Fresh => table[Subject(b)] # NoRow

Receive(r) ==
  /\ pc[r] = "idle"
  /\ \E b \in {c \in Body : Nameable(c)} :
       /\ call' = [call EXCEPT ![r] = b]
       /\ Goto(r, CASE b.op \in {"payment", "rename"} -> "find"
                    [] b.op \in {"loan", "deposit"} -> "safe"
                    [] b.op = "create" -> "create"
                    [] b.op = "delete" -> "put")
  /\ UNCHANGED <<db, found, debts, remaining>>

\* Mutation of StillLive: the UPDATE has no condition on is_deleted.
Exists(row) == row # NoRow

\* The condition AND is_deleted = false on a row, once it is free for an UPDATE.
StillLive(row) == row # NoRow /\ row.live

\* GetByID, on the pool: the row can change, or be deleted, after it.
FindPerson(r) ==
  /\ pc[r] = "find"
  /\ LET x == Subject(call[r])
     IN \/ /\ StillLive(table[x])
           /\ found' = [found EXCEPT ![r] = table[x]]
           /\ Goto(r, IF call[r].op = "payment" THEN "insert" ELSE "put")
           /\ UNCHANGED <<db, call, debts, remaining>>
        \/ /\ ~StillLive(table[x])
           /\ Refuse(r)

InsertPayment(r) ==
  /\ pc[r] = "insert"
  /\ call[r].op = "payment"
  /\ Write(r, [x \in {r} |-> [client |-> call[r].client, amount |-> Round(call[r].amount)]])
  /\ Proceed(r)

\* ctRepo.Create; the foreign key wants the creditor to exist, deleted or not.
InsertLoan(r) ==
  /\ pc[r] = "insert"
  /\ call[r].op = "loan"
  /\ \/ /\ table[call[r].creditor] # NoRow
        /\ Write(r, [x \in {r} |-> [creditor |-> call[r].creditor, type |-> call[r].type,
                                    amount_uzs |-> Round(call[r].amount_uzs)]])
        /\ Proceed(r)
     \/ /\ table[call[r].creditor] = NoRow
        /\ Refuse(r)

\* What the request adds to the debt of its person, in parts.
Delta(b) ==
  CASE b.op = "payment" -> -b.amount
    [] b.op = "loan" /\ b.type = "receive" -> b.amount_uzs
    [] b.op = "loan" /\ b.type = "repay" -> -b.amount_uzs

\* UpdateDebt of a client or a creditor: of one who is deleted, or who does not
\* exist, it changes no row, and the service goes on.
UpdateDebt(r) ==
  /\ pc[r] = "debt"
  /\ LET x == Subject(call[r])
     IN \/ /\ StillLive(Seen(r, x))
           /\ Write(r, [y \in {x} |-> [Seen(r, y) EXCEPT !.total_debt = Plus(@, Delta(call[r]))]])
        \/ /\ Free(r, x)
           /\ ~StillLive(Seen(r, x))
           /\ UNCHANGED db
  /\ Proceed(r)

\* What the request adds to the safe.
Booked(b) ==
  CASE b.op = "payment" -> Round(b.amount)
    [] b.op = "loan"    -> Round(IF b.type = "receive" THEN b.amount_uzs ELSE -b.amount_uzs)
    [] b.op = "deposit" -> -Round(b.amount)

\* Mutation of CreateEntry: safeRepo.Create on the pool instead of the transaction.
CreateEntryOnPool(r) == Autocommit(r, Entry(r), [amount |-> Booked(call[r])])

CreateEntry(r) == Write(r, [x \in {Entry(r)} |-> [amount |-> Booked(call[r])]])

\* safeRepo.Create.
BookSafe(r) ==
  /\ pc[r] = "safe"
  /\ CreateEntry(r)
  /\ Proceed(r)

CommitTx(r) ==
  /\ pc[r] = "commit"
  /\ Commit(r)
  /\ Leave(r, "ok")

-----------------------------------------------------------------------------
(* OwnerDeposit.                                                           *)

\* ownerDebtRepo.ListUnsettled, on the pool.
ListUnsettled(r) ==
  /\ pc[r] = "list"
  /\ debts' = [debts EXCEPT ![r] = {i \in DOMAIN Newest : ~table[Newest[i]].is_settled}]
  /\ remaining' = [remaining EXCEPT ![r] = call[r].amount]
  /\ Goto(r, "settle")
  /\ UNCHANGED <<db, call, found>>

\* Mutation of Covers: a debt is settled by what is left, however little.
CoversPart(amount, d) == amount > 0

\* What is left of the deposit pays the whole of debt d.
Covers(amount, d) == Parts * table[d].amount <= amount

\* Mutation of Less: the debt is not subtracted.
LessNothing(amount, d) == amount

Less(amount, d) == amount - Parts * table[d].amount

\* The next debt of the list: Settle it if there is enough for it, and go on. One
\* that another deposit has settled since it was listed is counted all the same.
SettleNext(r) ==
  /\ pc[r] = "settle"
  /\ remaining[r] > 0
  /\ \E i \in debts[r] :
       /\ \A j \in debts[r] : i <= j
       /\ debts' = [debts EXCEPT ![r] = @ \ {i}]
       /\ LET d == Newest[i]
          IN \/ /\ Covers(remaining[r], d)
                /\ Free(r, d)
                /\ IF Seen(r, d).is_settled
                     THEN UNCHANGED db
                     ELSE Write(r, [x \in {d} |-> [Seen(r, x) EXCEPT !.is_settled = TRUE]])
                /\ remaining' = [remaining EXCEPT ![r] = Less(@, d)]
             \/ /\ ~Covers(remaining[r], d)
                /\ UNCHANGED <<db, remaining>>
  /\ UNCHANGED <<pc, call, found>>

\* The loop ends with the list or with the money.
SettledAll(r) ==
  /\ pc[r] = "settle"
  /\ debts[r] = {} \/ remaining[r] <= 0
  /\ Goto(r, "commit")
  /\ UNCHANGED <<db, locals>>

-----------------------------------------------------------------------------
(* The catalogue of clients and creditors, on the pool.                    *)

\* clientRepo.Create, creditorRepo.Create: total_debt DEFAULT 0.
CreatePerson(r) ==
  /\ pc[r] = "create"
  /\ Autocommit(r, call[r].person, [total_debt |-> 0, live |-> TRUE])
  /\ Leave(r, "ok")

\* Mutation of Renamed: the whole row that was found is written back.
RenamedWhole(r, x) == found[r]

\* Update writes the name and the like, and not total_debt.
Renamed(r, x) == table[x]

\* SoftDelete takes no notice of what is owed.
Changed(r, x) == IF call[r].op = "rename" THEN Renamed(r, x) ELSE [table[x] EXCEPT !.live = FALSE]

\* The one UPDATE of Update and of SoftDelete.
PutPerson(r) ==
  /\ pc[r] = "put"
  /\ LET x == Subject(call[r])
     IN \/ /\ StillLive(table[x])
           /\ Autocommit(r, x, Changed(r, x))
           /\ Leave(r, "ok")
        \/ /\ Free(r, x)
           /\ ~StillLive(table[x])
           /\ Refuse(r)

-----------------------------------------------------------------------------
Init ==
  /\ table = InitRow
  /\ draft = [r \in Req |-> NoDraft]
  /\ pc = [r \in Req |-> "idle"]
  /\ call = [r \in Req |-> NoCall]
  /\ found = [r \in Req |-> NoRow]
  /\ debts = [r \in Req |-> {}]
  /\ remaining = [r \in Req |-> 0]

Step(r) ==
  \/ FindPerson(r) \/ InsertPayment(r) \/ InsertLoan(r) \/ UpdateDebt(r) \/ BookSafe(r)
  \/ ListUnsettled(r) \/ SettleNext(r) \/ SettledAll(r)
  \/ CommitTx(r) \/ CreatePerson(r) \/ PutPerson(r)

Next == \E r \in Req : Receive(r) \/ Step(r) \/ Fail(r)

Spec == Init /\ [][Next]_vars

-----------------------------------------------------------------------------
(* Properties.                                                             *)

Statement ==
  {"idle", "find", "insert", "debt", "safe", "list", "settle", "commit", "create", "put",
   "ok", "failed"}

(* Every row, committed or not, and every local has its type; what remains *)
(* of a deposit is never below zero.                                       *)
TypeOK ==
  /\ Rows(table) /\ DOMAIN table = Row
  /\ draft = [r \in Req |-> draft[r]]
  /\ \A r \in Req : Rows(draft[r])
  /\ pc \in [Req -> Statement]
  /\ call \in [Req -> Body \cup {NoCall}]
  /\ found \in [Req -> PersonRow \cup {NoRow}]
  /\ debts \in [Req -> SUBSET DOMAIN Newest]
  /\ remaining \in [Req -> Nat]

Done(op) == {r \in Req : pc[r] = "ok" /\ call[r].op = op}

\* What the recorded payments and loans have added to the debt of x.
Recorded(x) ==
  SumFunction([r \in Req |->
    IF r \in Done("payment") /\ table[r].client = x THEN -table[r].amount
    ELSE IF r \in Done("loan") /\ table[r].creditor = x
      THEN IF table[r].type = "receive" THEN table[r].amount_uzs ELSE -table[r].amount_uzs
    ELSE 0])

\* The requests about x whose amounts end in half a unit: only these does it
\* matter to, whether an amount is rounded or its sum with something.
Halves(x) ==
  {r \in Done("payment") \cup Done("loan") :
     Subject(call[r]) = x /\ IsHalf(Delta(call[r]))}

(* The running total of everyone who is not deleted is what the recorded   *)
(* payments and loans make of it, in whatever order they come, and a new   *)
(* name in the middle of them brings back no older total. It drifts from   *)
(* the records, which are rounded one by one, by at most a unit for every  *)
(* amount that ends in a half, and for no other reason.                    *)
DebtsReconcile ==
  \A x \in Person : table[x] # NoRow /\ table[x].live =>
    LET first == IF InitRow[x] = NoRow THEN 0 ELSE InitRow[x].total_debt
        drift == table[x].total_debt - (first + Recorded(x))
    IN -Cardinality(Halves(x)) <= drift /\ drift <= Cardinality(Halves(x))

(* The safe and the records agree to the unit: a payment or a loan is      *)
(* recorded exactly when its money is booked, at the same rounded amount,  *)
(* and of a request that is refused, even at its last statement, nothing   *)
(* stays in the safe.                                                      *)
SafeAgrees ==
  \A r \in Req :
    LET entry == table[Entry(r)]
    IN CASE r \in Done("payment") -> entry = [amount |-> table[r].amount]
         [] r \in Done("loan")    ->
              entry.amount = IF table[r].type = "receive" THEN table[r].amount_uzs
                                                          ELSE -table[r].amount_uzs
         [] r \in Done("deposit") -> entry # NoRow /\ table[r] = NoRow
         [] OTHER                 -> entry = NoRow /\ table[r] = NoRow

\* The debts that deposits have settled, and what the deposits took from the safe.
Settled ==
  SumFunction([d \in OwnerDebt |->
    IF table[d].is_settled /\ ~InitRow[d].is_settled THEN table[d].amount ELSE 0])
Deposited ==
  SumFunction([r \in Req |-> IF r \in Done("deposit") THEN -table[Entry(r)].amount ELSE 0])

(* No debt to the owner is settled for nothing: those that deposits have   *)
(* settled come to no more than the cash the deposits took from the safe,  *)
(* rounded as the safe rounds it.                                          *)
SettledIsPaid == Settled <= Deposited

(* A deletion is final: the debt of a deleted client or creditor never     *)
(* changes again, not even by a request that found him before.             *)
DeletedIsFinal ==
  [][\A x \in Person :
       table[x] # NoRow /\ ~table[x].live => table'[x] = table[x]]_vars
=============================================================================
