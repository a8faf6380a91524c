----------------------------- MODULE Debts_proofs -----------------------------
(***************************************************************************)
(* The safety properties of Debts, for any people, debts, bodies and       *)
(* requests, and any number of parts to a unit: first the inductive        *)
(* invariant Inv and what follows from it, then the accounts, which are    *)
(* kept on top of it: DebtsReconcile and SettledIsPaid.                    *)
(***************************************************************************)
EXTENDS Debts, Sums_proofs

(***************************************************************************)
(* The inductive invariant. Control says which bodies reach a statement;   *)
(* Quiet that a request outside its transaction holds nothing; Books what  *)
(* each request has recorded and booked so far, in its draft or, once it   *)
(* has succeeded, in the table; LiveHeld that nobody deletes a person      *)
(* under a transaction that is changing his debt; Unborn that a person to  *)
(* be created is not there yet.                                            *)
(***************************************************************************)
Ops(statement) ==
  CASE statement \in {"insert", "debt"} -> {"payment", "loan"}
    [] statement \in {"safe", "commit"} -> {"payment", "loan", "deposit"}
    [] statement \in {"list", "settle"} -> {"deposit"}
    [] statement = "find"               -> {"payment", "rename"}
    [] statement = "put"                -> {"rename", "delete"}
    [] statement = "create"             -> {"create"}
    [] OTHER -> {"payment", "loan", "deposit", "create", "rename", "delete"}

Control(r) ==
  IF pc[r] = "idle" THEN call[r] = NoCall ELSE call[r] \in Body /\ call[r].op \in Ops(pc[r])

Exclusive == \A q, r \in Req : q # r => Locked(q) \cap Locked(r) = {}

Outside == {"idle", "find", "create", "put", "ok", "failed"}

Quiet(r) == pc[r] \in Outside => draft[r] = NoDraft

\* The record and the entry a body leads to.
RecordOf(b) ==
  IF b.op = "payment"
    THEN [client |-> b.client, amount |-> Round(b.amount)]
    ELSE [creditor |-> b.creditor, type |-> b.type, amount_uzs |-> Round(b.amount_uzs)]

EntryOf(b) == [amount |-> Booked(b)]

\* Request r has its record, or its entry, in its draft.
Recording(r) ==
  \/ call[r].op = "payment" /\ pc[r] \in {"debt", "safe", "commit"}
  \/ call[r].op = "loan" /\ pc[r] = "commit"

Booking(r) ==
  \/ call[r].op = "payment" /\ pc[r] = "commit"
  \/ call[r].op = "loan" /\ pc[r] \in {"debt", "insert", "commit"}
  \/ call[r].op = "deposit" /\ pc[r] \in {"list", "settle", "commit"}

Drafts(r) ==
  /\ Locked(r) \subseteq Person \cup OwnerDebt \cup {r, Entry(r)}
  /\ r \in Locked(r) <=> Recording(r)
  /\ Recording(r) => draft[r][r] = RecordOf(call[r])
  /\ Entry(r) \in Locked(r) <=> Booking(r)
  /\ Booking(r) => draft[r][Entry(r)] = EntryOf(call[r])

Committed(r) ==
  /\ table[r] = IF pc[r] = "ok" /\ call[r].op \in {"payment", "loan"}
                  THEN RecordOf(call[r]) ELSE NoRow
  /\ table[Entry(r)] = IF pc[r] = "ok" /\ call[r].op \in {"payment", "loan", "deposit"}
                         THEN EntryOf(call[r]) ELSE NoRow

Books(r) == Drafts(r) /\ Committed(r)

LiveHeld(r) == \A x \in Locked(r) \cap Person : StillLive(table[x])

\* Nobody but the one request that is sent to create him makes a person.
Unborn ==
  /\ \A q, r \in Req :
       (/\ q # r /\ call[q].op = "create" /\ call[r].op = "create") =>
         call[q].person # call[r].person
  /\ \A r \in Req : pc[r] = "create" => table[call[r].person] = NoRow
  /\ \A x \in Fresh : table[x] # NoRow =>
       \E r \in Req : call[r].op = "create" /\ call[r].person = x

Inv ==
  /\ TypeOK
  /\ Exclusive
  /\ Unborn
  /\ \A r \in Req : Control(r) /\ Quiet(r) /\ Books(r) /\ LiveHeld(r)

-----------------------------------------------------------------------------
(* The database operations.                                                *)

RowsOK ==
  /\ Rows(table) /\ DOMAIN table = Row
  /\ draft = [r \in Req |-> draft[r]]
  /\ \A r \in Req : Rows(draft[r])

LEMMA SeenType ==
  ASSUME RowsOK, NEW r \in Req, NEW x \in Row
  PROVE  Seen(r, x) \in Version(x)
BY DEF RowsOK, Rows, Seen, Locked

LEMMA WriteEffect ==
  ASSUME RowsOK, NEW r \in Req, NEW new, Write(r, new)
  PROVE  /\ table' = table
         /\ draft' = [q \in Req |-> draft'[q]]
         /\ \A q \in Req \ {r} : draft'[q] = draft[q]
         /\ Locked(r)' = Locked(r) \cup DOMAIN new
         /\ \A x \in Locked(r)' :
              draft'[r][x] = IF x \in DOMAIN new THEN new[x] ELSE draft[r][x]
         /\ draft'[r] = [x \in Locked(r)' |-> draft'[r][x]]
BY DEF RowsOK, Write, Locked

LEMMA WriteOne ==
  ASSUME RowsOK, NEW r \in Req, NEW x, NEW new, DOMAIN new = {x}, Write(r, new)
  PROVE  /\ Locked(r)' = Locked(r) \cup {x}
         /\ draft'[r][x] = new[x]
         /\ \A y \in Locked(r) \ {x} : draft'[r][y] = draft[r][y]
<1>1. Locked(r)' = Locked(r) \cup {x}
  BY WriteEffect
<1>2. \A y \in Locked(r)' : draft'[r][y] = IF y \in {x} THEN new[y] ELSE draft[r][y]
  BY WriteEffect
<1> QED
  BY <1>1, <1>2

LEMMA WriteTypes ==
  ASSUME RowsOK, NEW r \in Req, NEW x \in Row, NEW version, version \in Version(x),
         Write(r, [y \in {x} |-> version])
  PROVE  RowsOK'
<1>1. Rows(draft'[r])
  BY WriteEffect DEF RowsOK, Rows, Locked
<1> QED
  BY <1>1, WriteEffect DEF RowsOK

LEMMA RollbackEffect ==
  ASSUME RowsOK, NEW r \in Req, Rollback(r)
  PROVE  /\ table' = table
         /\ draft' = [q \in Req |-> draft'[q]]
         /\ \A q \in Req \ {r} : draft'[q] = draft[q]
         /\ draft'[r] = NoDraft /\ Locked(r)' = {}
BY DEF RowsOK, Rollback, Locked, NoDraft

LEMMA CommitEffect ==
  ASSUME RowsOK, NEW r \in Req, Commit(r)
  PROVE  /\ table' = [x \in Row |-> Seen(r, x)]
         /\ draft' = [q \in Req |-> draft'[q]]
         /\ \A q \in Req \ {r} : draft'[q] = draft[q]
         /\ draft'[r] = NoDraft /\ Locked(r)' = {}
BY DEF RowsOK, Commit, Locked, NoDraft

LEMMA NoDraftRows == Rows(NoDraft)
BY DEF Rows, NoDraft

LEMMA RollbackTypes ==
  ASSUME RowsOK, NEW r \in Req, Rollback(r)
  PROVE  RowsOK'
BY RollbackEffect, NoDraftRows DEF RowsOK

LEMMA CommitTypes ==
  ASSUME RowsOK, NEW r \in Req, Commit(r)
  PROVE  RowsOK'
<1>1. Rows(table') /\ DOMAIN table' = Row
  BY CommitEffect, SeenType DEF RowsOK, Rows
<1> QED
  BY <1>1, CommitEffect, NoDraftRows DEF RowsOK

LEMMA AutocommitTypes ==
  ASSUME RowsOK, NEW r \in Req, NEW x \in Row, NEW new \in Version(x), Autocommit(r, x, new)
  PROVE  RowsOK'
BY DEF Autocommit, RowsOK, Rows

(* The names of the rows are apart, and their versions are of their kind.  *)
LEMMA VersionOf ==
  /\ \A x \in Person : x \in Row /\ Version(x) = PersonRow \cup {NoRow}
  /\ \A x \in OwnerDebt : x \in Row /\ Version(x) = OwnerDebtRow
  /\ \A r \in Req : r \in Row /\ Version(r) = PaymentRow \cup LoanRow \cup {NoRow}
  /\ \A r \in Req : Entry(r) \in Row /\ Version(Entry(r)) = EntryRow \cup {NoRow}
<1>1. \A r \in Req : Entry(r) \notin Person \cup OwnerDebt \cup Req
  BY NamesAssumption
<1>2. \A r \in Req : r \notin Person \cup OwnerDebt
  BY NamesAssumption
<1>3. \A x \in OwnerDebt : x \notin Person
  BY NamesAssumption
<1> QED
  BY <1>1, <1>2, <1>3 DEF Version, Row

LEMMA BodyType ==
  ASSUME NEW b \in Body
  PROVE  /\ b.op \in {"payment", "loan", "deposit", "create", "rename", "delete"}
         /\ b.op = "payment" => b \in PaymentBody
         /\ b.op = "loan" => b \in LoanBody
         /\ b.op = "deposit" => b \in DepositBody
         /\ b.op \in {"create", "rename", "delete"} => b.person \in Person
         /\ b.op # "deposit" => Subject(b) \in Person
BY BodyAssumption DEF PaymentBody, LoanBody, DepositBody, CreateBody, RenameBody, DeleteBody,
                      Subject, Person

-----------------------------------------------------------------------------
(* Types, and which bodies reach a statement.                              *)

Act(r) == Receive(r) \/ Step(r) \/ Fail(r)

LEMMA RowsOfTypes == TypeOK => RowsOK
BY DEF TypeOK, RowsOK

LEMMA LeaveTypes ==
  ASSUME TypeOK, NEW r \in Req, NEW outcome \in {"ok", "failed"}, Leave(r, outcome)
  PROVE  /\ pc' \in [Req -> Statement]
         /\ call' \in [Req -> Body \cup {NoCall}]
         /\ found' \in [Req -> PersonRow \cup {NoRow}]
         /\ debts' \in [Req -> SUBSET DOMAIN Newest]
         /\ remaining' \in [Req -> Nat]
BY DEF TypeOK, Leave, Goto, Statement

LEMMA RefuseTypes ==
  ASSUME TypeOK, NEW r \in Req, Refuse(r)
  PROVE  TypeOK'
<1>1. RowsOK'
  BY RowsOfTypes, RollbackTypes DEF Refuse
<1> QED
  BY <1>1, LeaveTypes DEF TypeOK, RowsOK, Refuse

LEMMA UnchangedRows ==
  ASSUME RowsOK, UNCHANGED db
  PROVE  RowsOK'
BY DEF RowsOK, db

LEMMA ProceedTypes ==
  ASSUME TypeOK, NEW r \in Req, Control(r), pc[r] \in {"insert", "debt", "safe"}, RowsOK',
         Proceed(r)
  PROVE  TypeOK' /\ Control(r)'
<1>1. call[r] \in Body /\ call[r].op \in Ops(pc[r])
  BY DEF Control
<1>2. /\ pc[r] \in {"insert", "debt"} => call[r].op \in {"payment", "loan"}
      /\ pc[r] = "safe" => call[r].op \in {"payment", "loan", "deposit"}
  BY <1>1 DEF Ops
<1>3. /\ After(call[r].op, pc[r]) \in {"commit", "safe", "insert", "debt", "list"}
      /\ call[r].op \in Ops(After(call[r].op, pc[r]))
  <2>1. CASE pc[r] = "insert"
    BY <1>2, <2>1 DEF After, Ops
  <2>2. CASE pc[r] = "debt"
    BY <1>2, <2>2 DEF After, Ops
  <2>3. CASE pc[r] = "safe"
    BY <1>2, <2>3 DEF After, Ops
  <2> QED
    BY <2>1, <2>2, <2>3
<1>4. pc' = [pc EXCEPT ![r] = After(call[r].op, pc[r])] /\ UNCHANGED locals
  BY DEF Proceed, Goto
<1>5. TypeOK'
  BY <1>3, <1>4 DEF TypeOK, RowsOK, locals, Statement
<1>6. pc'[r] = After(call[r].op, pc[r]) /\ call'[r] = call[r]
  BY <1>4 DEF TypeOK, locals
<1> QED
  BY <1>1, <1>3, <1>5, <1>6 DEF Control

LEMMA ControlLeft ==
  ASSUME TypeOK, NEW r \in Req, Control(r), pc[r] # "idle", NEW outcome \in {"ok", "failed"},
         Leave(r, outcome)
  PROVE  Control(r)' /\ pc'[r] = outcome /\ call' = call
<1>1. pc'[r] = outcome /\ call' = call
  BY DEF Leave, Goto, TypeOK
<1>2. call[r] \in Body
  BY DEF Control
<1> QED
  BY <1>1, <1>2, BodyType DEF Control, Ops

LEMMA TypeStep ==
  ASSUME TypeOK, NEW r \in Req, Control(r), Act(r)
  PROVE  TypeOK' /\ Control(r)'
<1> USE RowsOfTypes
<1>1. ASSUME Refuse(r), pc[r] # "idle" PROVE TypeOK' /\ Control(r)'
  BY <1>1, RefuseTypes, ControlLeft DEF Refuse
<1>2. CASE Receive(r)
  <2>1. PICK b \in Body :
          /\ call' = [call EXCEPT ![r] = b]
          /\ Goto(r, CASE b.op \in {"payment", "rename"} -> "find"
                       [] b.op \in {"loan", "deposit"} -> "safe"
                       [] b.op = "create" -> "create"
                       [] b.op = "delete" -> "put")
    BY <1>2 DEF Receive
  <2>2. UNCHANGED <<db, found, debts, remaining>>
    BY <1>2 DEF Receive
  <2> DEFINE s == CASE b.op \in {"payment", "rename"} -> "find"
                    [] b.op \in {"loan", "deposit"} -> "safe"
                    [] b.op = "create" -> "create"
                    [] b.op = "delete" -> "put"
  <2>3. pc' = [pc EXCEPT ![r] = s] /\ s \in Statement \ {"idle"} /\ b.op \in Ops(s)
    <3>1. pc' = [pc EXCEPT ![r] = s]
      BY <2>1 DEF Goto
    <3>2. CASE b.op \in {"payment", "rename"}
      BY <3>1, <3>2 DEF Statement, Ops
    <3>3. CASE b.op \in {"loan", "deposit"}
      BY <3>1, <3>3 DEF Statement, Ops
    <3>4. CASE b.op \in {"create", "delete"}
      BY <3>1, <3>4 DEF Statement, Ops
    <3> QED
      BY <3>2, <3>3, <3>4, BodyType
  <2> HIDE DEF s
  <2>4. TypeOK'
    BY <2>1, <2>2, <2>3, UnchangedRows DEF TypeOK, RowsOK
  <2>5. pc'[r] = s /\ call'[r] = b
    BY <2>1, <2>3 DEF TypeOK
  <2> QED
    BY <2>3, <2>4, <2>5 DEF Control
<1>3. CASE FindPerson(r)
  <2>1. pc[r] = "find" /\ call[r] \in Body /\ call[r].op \in {"payment", "rename"}
    BY <1>3 DEF FindPerson, Control, Ops
  <2> DEFINE x == Subject(call[r])
  <2>2. CASE /\ StillLive(table[x])
             /\ found' = [found EXCEPT ![r] = table[x]]
             /\ Goto(r, IF call[r].op = "payment" THEN "insert" ELSE "put")
             /\ UNCHANGED <<db, call, debts, remaining>>
    <3>1. table[x] \in PersonRow \cup {NoRow}
      BY <2>1, BodyType, VersionOf DEF TypeOK, Rows
    <3>2. PICK s \in {"insert", "put"} : pc' = [pc EXCEPT ![r] = s] /\ call[r].op \in Ops(s)
      BY <2>1, <2>2 DEF Goto, Ops
    <3>3. TypeOK'
      BY <2>2, <3>1, <3>2, UnchangedRows DEF TypeOK, RowsOK, Statement
    <3>4. pc'[r] = s /\ call'[r] = call[r]
      BY <2>2, <3>2 DEF TypeOK
    <3> QED
      BY <2>1, <3>2, <3>3, <3>4 DEF Control
  <2> QED
    BY <1>1, <1>3, <2>1, <2>2 DEF FindPerson
<1>4. CASE InsertPayment(r)
  <2>1. pc[r] = "insert" /\ call[r] \in PaymentBody
    BY <1>4, BodyType DEF InsertPayment, Control
  <2> DEFINE version == [client |-> call[r].client, amount |-> Round(call[r].amount)]
  <2>2. version \in Version(r) /\ r \in Row
    BY <2>1, RoundType, VersionOf DEF PaymentBody, PaymentRow
  <2>3. Write(r, [x \in {r} |-> version]) /\ Proceed(r)
    BY <1>4 DEF InsertPayment
  <2> HIDE DEF version
  <2> QED
    BY <2>1, <2>2, <2>3, WriteTypes, ProceedTypes
<1>5. CASE InsertLoan(r)
  <2>1. pc[r] = "insert" /\ call[r] \in LoanBody
    BY <1>5, BodyType DEF InsertLoan, Control
  <2> DEFINE version == [creditor |-> call[r].creditor, type |-> call[r].type,
                         amount_uzs |-> Round(call[r].amount_uzs)]
  <2>2. version \in Version(r) /\ r \in Row
    BY <2>1, RoundType, VersionOf DEF LoanBody, LoanRow
  <2>3. Refuse(r) \/ (Write(r, [x \in {r} |-> version]) /\ Proceed(r))
    BY <1>5 DEF InsertLoan
  <2> HIDE DEF version
  <2> QED
    BY <1>1, <2>1, <2>2, <2>3, WriteTypes, ProceedTypes
<1>6. CASE UpdateDebt(r)
  <2>1. pc[r] = "debt" /\ call[r] \in Body /\ call[r].op \in {"payment", "loan"}
    BY <1>6 DEF UpdateDebt, Control, Ops
  <2> DEFINE x == Subject(call[r])
             version == [Seen(r, x) EXCEPT !.total_debt = Plus(@, Delta(call[r]))]
  <2>2. x \in Person
    BY <2>1, BodyType
  <2>3. Delta(call[r]) \in Int
    BY <2>1, BodyType DEF Delta, PaymentBody, LoanBody
  <2>4. ASSUME StillLive(Seen(r, x)), Write(r, [y \in {x} |-> version])
        PROVE  RowsOK'
    <3>1. Seen(r, x) \in PersonRow
      BY <2>2, <2>4, SeenType, VersionOf DEF StillLive
    <3>2. Parts * Seen(r, x).total_debt \in Int
      BY <3>1, PartsAssumption DEF PersonRow
    <3>3. Plus(Seen(r, x).total_debt, Delta(call[r])) \in Int
      BY <2>3, <3>2, RoundType DEF Plus
    <3>4. version \in Version(x) /\ x \in Row
      BY <2>2, <3>1, <3>3, VersionOf DEF PersonRow
    <3> HIDE DEF version, x
    <3> QED
      BY <2>4, <3>4, WriteTypes
  <2>5. RowsOK' /\ Proceed(r)
    <3>1. \/ StillLive(Seen(r, x)) /\ Write(r, [y \in {x} |-> version])
          \/ UNCHANGED db
      <4>1. [y \in {x} |-> [Seen(r, y) EXCEPT !.total_debt = Plus(@, Delta(call[r]))]]
              = [y \in {x} |-> version]
        OBVIOUS
      <4> QED
        BY <1>6, <4>1 DEF UpdateDebt
    <3>2. Proceed(r)
      BY <1>6 DEF UpdateDebt
    <3> HIDE DEF version, x
    <3> QED
      BY <2>4, <3>1, <3>2, UnchangedRows
  <2> QED
    BY <2>1, <2>5, ProceedTypes
<1>7. CASE BookSafe(r)
  <2>1. pc[r] = "safe" /\ call[r] \in Body /\ call[r].op \in {"payment", "loan", "deposit"}
    BY <1>7 DEF BookSafe, Control, Ops
  <2>2. Booked(call[r]) \in Int
    <3>1. CASE call[r].op = "payment"
      BY <2>1, <3>1, BodyType, RoundType DEF Booked, PaymentBody
    <3>2. CASE call[r].op = "loan"
      BY <2>1, <3>2, BodyType, RoundType DEF Booked, LoanBody
    <3>3. CASE call[r].op = "deposit"
      BY <2>1, <3>3, BodyType, RoundType DEF Booked, DepositBody
    <3> QED
      BY <2>1, <3>1, <3>2, <3>3
  <2> DEFINE version == [amount |-> Booked(call[r])]
  <2>3. version \in Version(Entry(r)) /\ Entry(r) \in Row
    BY <2>2, VersionOf DEF EntryRow
  <2>4. Write(r, [x \in {Entry(r)} |-> version]) /\ Proceed(r)
    BY <1>7 DEF BookSafe, CreateEntry
  <2> HIDE DEF version
  <2> QED
    BY <2>1, <2>3, <2>4, WriteTypes, ProceedTypes
<1>8. CASE ListUnsettled(r)
  <2>1. pc[r] = "list" /\ call[r] \in DepositBody /\ call[r] \in Body
    BY <1>8, BodyType DEF ListUnsettled, Control, Ops
  <2>2. TypeOK'
    BY <1>8, <2>1, UnchangedRows DEF ListUnsettled, Goto, TypeOK, RowsOK, DepositBody, Statement
  <2>3. pc'[r] = "settle" /\ call'[r] = call[r]
    BY <1>8 DEF ListUnsettled, Goto, TypeOK
  <2> QED
    BY <2>1, <2>2, <2>3 DEF Control, Ops, DepositBody
<1>9. CASE SettleNext(r)
  <2>1. PICK i \in debts[r] :
          /\ debts' = [debts EXCEPT ![r] = @ \ {i}]
          /\ \/ /\ Covers(remaining[r], Newest[i])
                /\ IF Seen(r, Newest[i]).is_settled
                     THEN UNCHANGED db
                     ELSE Write(r, [x \in {Newest[i]} |->
                                      [Seen(r, x) EXCEPT !.is_settled = TRUE]])
                /\ remaining' = [remaining EXCEPT ![r] = Less(@, Newest[i])]
             \/ UNCHANGED <<db, remaining>>
    BY <1>9 DEF SettleNext
  <2> DEFINE d == Newest[i]
             version == [Seen(r, d) EXCEPT !.is_settled = TRUE]
  <2>2. d \in OwnerDebt
    BY <2>1 DEF TypeOK, OwnerDebt
  <2>3. Seen(r, d) \in OwnerDebtRow /\ table[d] \in OwnerDebtRow /\ d \in Row
    BY <2>2, SeenType, VersionOf DEF TypeOK, Rows
  <2>4. version \in Version(d)
    BY <2>2, <2>3, VersionOf DEF OwnerDebtRow
  <2>5. RowsOK'
    <3>1. UNCHANGED db \/ Write(r, [x \in {d} |-> version])
      BY <2>1
    <3> HIDE DEF version, d
    <3> QED
      BY <2>3, <2>4, <3>1, WriteTypes, UnchangedRows
  <2>6. Covers(remaining[r], d) => Less(remaining[r], d) \in Nat
    <3>1. Parts * table[d].amount \in Nat
      BY <2>3, PartsAssumption DEF OwnerDebtRow
    <3> QED
      BY <3>1 DEF Covers, Less, TypeOK
  <2>7. debts' \in [Req -> SUBSET DOMAIN Newest] /\ remaining' \in [Req -> Nat]
    BY <2>1, <2>6 DEF TypeOK
  <2>8. UNCHANGED <<pc, call, found>>
    BY <1>9 DEF SettleNext
  <2> QED
    BY <2>5, <2>7, <2>8 DEF TypeOK, RowsOK, Control
<1>10. CASE SettledAll(r)
  <2>1. /\ pc[r] = "settle" /\ pc' = [pc EXCEPT ![r] = "commit"]
        /\ UNCHANGED <<db, locals>>
    BY <1>10 DEF SettledAll, Goto
  <2> QED
    BY <2>1, UnchangedRows DEF TypeOK, RowsOK, locals, Statement, Control, Ops
<1>11. CASE CommitTx(r)
  <2>1. RowsOK' /\ Leave(r, "ok") /\ pc[r] = "commit"
    BY <1>11, CommitTypes DEF CommitTx
  <2> QED
    BY <2>1, LeaveTypes, ControlLeft DEF TypeOK, RowsOK
<1>12. CASE CreatePerson(r)
  <2>1. pc[r] = "create" /\ call[r].person \in Person
    BY <1>12, BodyType DEF CreatePerson, Control, Ops
  <2> DEFINE version == [total_debt |-> 0, live |-> TRUE]
  <2>2. version \in Version(call[r].person) /\ call[r].person \in Row
    <3>1. version \in PersonRow
      BY DEF PersonRow
    <3> HIDE DEF version
    <3> QED
      BY <2>1, <3>1, VersionOf
  <2>3. Autocommit(r, call[r].person, version) /\ Leave(r, "ok")
    BY <1>12 DEF CreatePerson
  <2> HIDE DEF version
  <2>4. RowsOK'
    BY <2>2, <2>3, AutocommitTypes
  <2> QED
    BY <2>1, <2>3, <2>4, LeaveTypes, ControlLeft DEF TypeOK, RowsOK
<1>13. CASE PutPerson(r)
  <2>1. pc[r] = "put" /\ call[r] \in Body /\ call[r].op \in {"rename", "delete"}
    BY <1>13 DEF PutPerson, Control, Ops
  <2> DEFINE x == Subject(call[r])
  <2>2. x \in Person
    BY <2>1, BodyType
  <2>3. CASE StillLive(table[x]) /\ Autocommit(r, x, Changed(r, x)) /\ Leave(r, "ok")
    <3>1. table[x] \in PersonRow
      BY <2>2, <2>3, VersionOf DEF TypeOK, Rows, StillLive
    <3>2. Changed(r, x) \in PersonRow
      BY <3>1 DEF Changed, Renamed, PersonRow
    <3>3. Changed(r, x) \in Version(x) /\ x \in Row
      BY <2>2, <3>2, VersionOf
    <3> HIDE DEF x
    <3>4. RowsOK'
      BY <2>3, <3>3, AutocommitTypes
    <3> QED
      BY <2>1, <2>3, <3>4, LeaveTypes, ControlLeft DEF TypeOK, RowsOK
  <2> QED
    BY <1>1, <1>13, <2>1, <2>3 DEF PutPerson
<1>14. CASE Fail(r)
  BY <1>1, <1>14 DEF Fail, InFlight
<1> QED
  BY <1>2, <1>3, <1>4, <1>5, <1>6, <1>7, <1>8, <1>9, <1>10, <1>11, <1>12, <1>13, <1>14
  DEF Act, Step

-----------------------------------------------------------------------------
(* What a step does to the database, and to the other requests.            *)

LEMMA DbStep ==
  ASSUME NEW r \in Req, Act(r)
  PROVE  \/ UNCHANGED db
         \/ \E new : Write(r, new)
         \/ Rollback(r)
         \/ Commit(r)
         \/ \E x, new : Autocommit(r, x, new)
<1>1. CASE Receive(r)
  BY <1>1 DEF Receive, db
<1>2. CASE FindPerson(r)
  BY <1>2 DEF FindPerson, Refuse, db
<1>3. CASE InsertPayment(r) \/ InsertLoan(r)
  BY <1>3 DEF InsertPayment, InsertLoan, Refuse
<1>4. CASE UpdateDebt(r) \/ BookSafe(r)
  BY <1>4 DEF UpdateDebt, BookSafe, CreateEntry
<1>5. CASE ListUnsettled(r) \/ SettleNext(r) \/ SettledAll(r)
  BY <1>5 DEF ListUnsettled, SettleNext, SettledAll, db
<1>6. CASE CommitTx(r)
  BY <1>6 DEF CommitTx
<1>7. CASE CreatePerson(r) \/ PutPerson(r)
  BY <1>7 DEF CreatePerson, PutPerson, Refuse
<1>8. CASE Fail(r)
  BY <1>8 DEF Fail, Refuse
<1> QED
  BY <1>1, <1>2, <1>3, <1>4, <1>5, <1>6, <1>7, <1>8 DEF Act, Step

LEMMA StepIsLocal ==
  ASSUME TypeOK, NEW r \in Req, NEW q \in Req \ {r}, Act(r)
  PROVE  draft'[q] = draft[q] /\ pc'[q] = pc[q] /\ call'[q] = call[q]
<1>1. draft'[q] = draft[q]
  BY DbStep, RowsOfTypes, WriteEffect, RollbackEffect, CommitEffect DEF Autocommit, db
<1>2. \/ \E s : Goto(r, s)
      \/ pc' = pc
  BY DEF Act, Step, Receive, FindPerson, InsertPayment, InsertLoan, UpdateDebt, BookSafe,
         ListUnsettled, SettleNext, SettledAll, CommitTx, CreatePerson, PutPerson, Fail, Refuse,
         Leave, Proceed
<1>3. \/ \E b : call' = [call EXCEPT ![r] = b]
      \/ call' = call
  BY DEF Act, Step, Receive, FindPerson, InsertPayment, InsertLoan, UpdateDebt, BookSafe,
         ListUnsettled, SettleNext, SettledAll, CommitTx, CreatePerson, PutPerson, Fail, Refuse,
         Leave, Proceed, locals
<1> QED
  BY <1>1, <1>2, <1>3 DEF Goto, TypeOK

(* A row that a transaction has written stays its own until it ends.       *)
LEMMA ExclusiveStep ==
  ASSUME TypeOK, Exclusive, NEW r \in Req, Act(r)
  PROVE  Exclusive'
<1>1. \A q \in Req \ {r} : Locked(q)' = Locked(q)
  BY StepIsLocal DEF Locked
<1>2. ASSUME NEW q \in Req \ {r} PROVE Locked(q) \cap Locked(r)' = {}
  <2>1. CASE \E new : Write(r, new)
    <3>1. PICK new : Write(r, new)
      BY <2>1
    <3>2. Locked(r)' = Locked(r) \cup DOMAIN new
      BY <3>1, RowsOfTypes, WriteEffect
    <3>3. \A x \in DOMAIN new : x \notin Locked(q)
      BY <3>1 DEF Write, Free
    <3> QED
      BY <3>2, <3>3 DEF Exclusive
  <2>2. CASE UNCHANGED db \/ \E x, new : Autocommit(r, x, new)
    BY <2>2 DEF Exclusive, Locked, db, Autocommit
  <2>3. CASE Rollback(r) \/ Commit(r)
    BY <2>3, RowsOfTypes, RollbackEffect, CommitEffect
  <2> QED
    BY <2>1, <2>2, <2>3, DbStep
<1> QED
  BY <1>1, <1>2 DEF Exclusive

(* A statement on the pool, or the end, leaves no draft.                   *)
LEMMA QuietStep ==
  ASSUME TypeOK, NEW r \in Req, Control(r), Quiet(r), Act(r)
  PROVE  Quiet(r)'
<1> USE RowsOfTypes DEF Quiet, Outside
<1>1. ASSUME Refuse(r) PROVE Quiet(r)'
  BY <1>1, RollbackEffect DEF Refuse
<1>2. CASE Receive(r)
  BY <1>2 DEF Receive, db
<1>3. CASE FindPerson(r)
  BY <1>1, <1>3 DEF FindPerson, db
<1>4. ASSUME pc[r] \in {"insert", "debt", "safe"}, Proceed(r) PROVE Quiet(r)'
  <2>1. After(call[r].op, pc[r]) \notin Outside
    BY <1>4 DEF After, Control, Ops
  <2>2. pc'[r] = After(call[r].op, pc[r])
    BY <1>4 DEF Proceed, Goto, TypeOK
  <2> QED
    BY <2>1, <2>2
<1>5. CASE InsertPayment(r) \/ InsertLoan(r) \/ UpdateDebt(r) \/ BookSafe(r)
  BY <1>1, <1>4, <1>5 DEF InsertPayment, InsertLoan, UpdateDebt, BookSafe
<1>6. CASE ListUnsettled(r) \/ SettleNext(r) \/ SettledAll(r)
  BY <1>6 DEF ListUnsettled, SettleNext, SettledAll, Goto, TypeOK
<1>7. CASE CommitTx(r)
  BY <1>7, CommitEffect DEF CommitTx
<1>8. CASE CreatePerson(r) \/ PutPerson(r)
  BY <1>1, <1>8 DEF CreatePerson, PutPerson, Autocommit
<1>9. CASE Fail(r)
  BY <1>1, <1>9 DEF Fail
<1> QED
  BY <1>2, <1>3, <1>5, <1>6, <1>7, <1>8, <1>9 DEF Act, Step

-----------------------------------------------------------------------------
(* Who changes a committed row: a commit those it has locked, a creation   *)
(* or a change of a person that one, while it is not locked.               *)

LEMMA TableStep ==
  ASSUME TypeOK, NEW r \in Req, Control(r), Act(r)
  PROVE  \/ table' = table
         \/ /\ CommitTx(r)
            /\ \A x \in Row : table'[x] = Seen(r, x)
         \/ /\ CreatePerson(r)
            /\ call[r].person \in Person
            /\ Free(r, call[r].person)
            /\ table'[call[r].person] = [total_debt |-> 0, live |-> TRUE]
            /\ \A x \in Row : x # call[r].person => table'[x] = table[x]
         \/ /\ PutPerson(r)
            /\ Subject(call[r]) \in Person
            /\ Free(r, Subject(call[r])) /\ StillLive(table[Subject(call[r])])
            /\ \A x \in Row : x # Subject(call[r]) => table'[x] = table[x]
<1>1. CASE CommitTx(r)
  BY <1>1, RowsOfTypes, CommitEffect DEF CommitTx
<1>2. CASE CreatePerson(r)
  <2>1. Autocommit(r, call[r].person, [total_debt |-> 0, live |-> TRUE])
    BY <1>2 DEF CreatePerson
  <2>2. call[r].person \in Person
    BY <1>2, BodyType DEF CreatePerson, Control, Ops
  <2>3. call[r].person \in DOMAIN table
    BY <2>2, VersionOf DEF TypeOK
  <2> QED
    BY <1>2, <2>1, <2>2, <2>3 DEF Autocommit, TypeOK
<1>3. CASE PutPerson(r)
  <2> DEFINE x == Subject(call[r])
  <2>1. x \in Person
    BY <1>3, BodyType DEF PutPerson, Control, Ops
  <2>2. CASE Refuse(r)
    BY <2>2 DEF Refuse, Rollback
  <2>3. CASE StillLive(table[x]) /\ Autocommit(r, x, Changed(r, x))
    BY <1>3, <2>1, <2>3 DEF Autocommit, TypeOK
  <2> QED
    BY <1>3, <2>2, <2>3 DEF PutPerson
<1>4. CASE Receive(r) \/ FindPerson(r) \/ ListUnsettled(r) \/ SettleNext(r) \/ SettledAll(r)
           \/ Fail(r)
  BY <1>4 DEF Receive, FindPerson, ListUnsettled, SettleNext, SettledAll, Fail, Refuse, Rollback,
              Write, db
<1>5. CASE InsertPayment(r) \/ InsertLoan(r) \/ UpdateDebt(r) \/ BookSafe(r)
  BY <1>5 DEF InsertPayment, InsertLoan, UpdateDebt, BookSafe, CreateEntry, Refuse, Rollback,
              Write, db
<1> QED
  BY <1>1, <1>2, <1>3, <1>4, <1>5 DEF Act, Step

(* The persons a transaction has locked are there and not deleted.         *)
LEMMA LiveHeldStep ==
  ASSUME TypeOK, Exclusive, NEW r \in Req, Control(r), Quiet(r)', Drafts(r), LiveHeld(r), Act(r),
         NEW q \in Req, LiveHeld(q)
  PROVE  LiveHeld(q)'
<1>1. CASE q # r
  <2>1. Locked(q)' = Locked(q)
    BY <1>1, StepIsLocal DEF Locked
  <2>2. ASSUME NEW x \in Locked(q) \cap Person PROVE table'[x] = table[x]
    <3>1. x \in Row /\ x \notin Locked(r)
      BY <1>1, VersionOf DEF Exclusive
    <3> QED
      BY <1>1, <3>1, TableStep DEF Seen, Free
  <2> QED
    BY <2>1, <2>2 DEF LiveHeld
<1>2. CASE q = r /\ pc'[r] \in Outside
  BY <1>2 DEF Quiet, LiveHeld, Locked, NoDraft
<1>3. CASE q = r /\ pc'[r] \notin Outside
  <2>1. table' = table
    BY <1>3, TableStep DEF CommitTx, CreatePerson, PutPerson, Leave, Refuse, Goto, Outside,
                           TypeOK, Rollback
  <2>2. ASSUME NEW x \in Person, x \in Locked(r)' PROVE StillLive(table[x])
    <3>1. CASE x \in Locked(r)
      BY <3>1 DEF LiveHeld
    <3>2. CASE UpdateDebt(r) /\ x \notin Locked(r)
      <4>1. PICK new : /\ DOMAIN new = {Subject(call[r])}
                       /\ Write(r, new) /\ StillLive(Seen(r, Subject(call[r])))
        BY <2>2, <3>2 DEF UpdateDebt, Locked, db
      <4>2. x = Subject(call[r])
        <5>1. Locked(r)' = Locked(r) \cup DOMAIN new
          BY <4>1, RowsOfTypes, WriteEffect
        <5> QED
          BY <2>2, <3>2, <4>1, <5>1
      <4> QED
        BY <3>2, <4>1, <4>2 DEF Seen
    <3>3. CASE InsertPayment(r) \/ InsertLoan(r) \/ BookSafe(r)
      <4>1. Refuse(r) \/ \E new : Write(r, new) /\ DOMAIN new \subseteq {r, Entry(r)}
        BY <3>3 DEF InsertPayment, InsertLoan, BookSafe, CreateEntry
      <4>2. ~Refuse(r)
        BY <1>3 DEF Refuse, Leave, Goto, Outside, TypeOK
      <4>3. x \notin {r, Entry(r)}
        BY NamesAssumption
      <4>4. PICK new : Write(r, new) /\ DOMAIN new \subseteq {r, Entry(r)}
        BY <4>1, <4>2
      <4>5. Locked(r)' = Locked(r) \cup DOMAIN new
        BY <4>4, RowsOfTypes, WriteEffect
      <4> QED
        BY <2>2, <3>1, <4>3, <4>4, <4>5
    <3>4. CASE SettleNext(r)
      <4>1. UNCHANGED db \/ \E new : Write(r, new) /\ DOMAIN new \subseteq OwnerDebt
        <5>1. PICK i \in debts[r] :
                \/ UNCHANGED db
                \/ Write(r, [y \in {Newest[i]} |-> [Seen(r, y) EXCEPT !.is_settled = TRUE]])
          BY <3>4 DEF SettleNext, db
        <5>2. Newest[i] \in OwnerDebt
          BY <5>1 DEF TypeOK, OwnerDebt
        <5> QED
          BY <5>1, <5>2
      <4>2. x \notin OwnerDebt
        BY NamesAssumption
      <4>3. CASE UNCHANGED db
        BY <2>2, <3>1, <4>3 DEF db, Locked
      <4>4. ASSUME NEW new, Write(r, new), DOMAIN new \subseteq OwnerDebt
            PROVE  StillLive(table[x])
        <5>1. Locked(r)' = Locked(r) \cup DOMAIN new
          BY <4>4, RowsOfTypes, WriteEffect
        <5> QED
          BY <2>2, <3>1, <4>2, <4>4, <5>1
      <4> QED
        BY <4>1, <4>3, <4>4
    <3>5. CASE UNCHANGED db
      BY <2>2, <3>1, <3>5 DEF db, Locked
    <3>6. CASE CommitTx(r) \/ CreatePerson(r) \/ PutPerson(r) \/ Fail(r)
      BY <1>3, <3>6 DEF CommitTx, CreatePerson, PutPerson, Fail, Refuse, Leave, Goto, Outside, TypeOK
    <3>7. CASE Receive(r) \/ FindPerson(r) \/ ListUnsettled(r) \/ SettledAll(r)
      BY <1>3, <3>5, <3>7 DEF Receive, FindPerson, ListUnsettled, SettledAll, Refuse, Leave, Goto,
                              Outside, TypeOK
    <3> QED
      BY <3>1, <3>2, <3>3, <3>4, <3>6, <3>7 DEF Act, Step
  <2> QED
    BY <1>3, <2>1, <2>2 DEF LiveHeld
<1> QED
  BY <1>1, <1>2, <1>3

(* A new person is new to the table, and made by one request.              *)
LEMMA UnbornStep ==
  ASSUME TypeOK, Unborn, NEW r \in Req, \A q \in Req : Control(q), LiveHeld(r), Act(r)
  PROVE  Unborn'
<1>1. CASE Receive(r)
  <2>1. PICK b \in Body : Nameable(b) /\ call' = [call EXCEPT ![r] = b]
    BY <1>1 DEF Receive
  <2>2. table' = table /\ call[r] = NoCall
    BY <1>1 DEF Receive, db, Control
  <2>3. ASSUME b.op = "create" PROVE table[b.person] = NoRow
    <3>1. b.person \in Fresh
      BY <2>3 DEF Fresh
    <3>2. \A q \in Req : call[q].op = "create" => call[q].person # b.person
      BY <2>1, <2>3 DEF Nameable
    <3> QED
      BY <3>1, <3>2 DEF Unborn
  <2>4. \A q \in Req : call'[q] = IF q = r THEN b ELSE call[q]
    BY <2>1 DEF TypeOK
  <2>5. \A q \in Req \ {r} : pc'[q] = pc[q]
    BY StepIsLocal
  <2>6. pc'[r] = "create" => b.op = "create"
    <3>1. Control(r)'
      BY TypeStep
    <3> QED
      BY <2>4, <3>1 DEF Control, Ops
  <2>7. \A q \in Req : q # r /\ call[q].op = "create" /\ b.op = "create" =>
                         call[q].person # b.person
    BY <2>1 DEF Nameable
  <2>8. \A q, w \in Req :
          (/\ q # w /\ call'[q].op = "create" /\ call'[w].op = "create") =>
            call'[q].person # call'[w].person
    BY <2>4, <2>7 DEF Unborn
  <2>9. \A q \in Req : pc'[q] = "create" => table'[call'[q].person] = NoRow
    BY <2>2, <2>3, <2>4, <2>5, <2>6 DEF Unborn
  <2>10. ASSUME NEW x \in Fresh, table'[x] # NoRow
         PROVE  \E q \in Req : call'[q].op = "create" /\ call'[q].person = x
    <3>1. PICK q \in Req : call[q].op = "create" /\ call[q].person = x
      BY <2>2, <2>10 DEF Unborn
    <3>2. q # r
      BY <2>2, <3>1 DEF NoCall
    <3> QED
      BY <2>4, <3>1, <3>2
  <2> QED
    BY <2>8, <2>9, <2>10 DEF Unborn, Fresh
<1>2. CASE ~Receive(r)
  <2>1. call' = call
    BY <1>2 DEF Act, Step, FindPerson, InsertPayment, InsertLoan, UpdateDebt, BookSafe,
                ListUnsettled, SettleNext, SettledAll, CommitTx, CreatePerson, PutPerson, Fail,
                Refuse, Leave, Proceed, locals
  <2>2. pc'[r] # "create"
    <3>1. pc[r] \in {"insert", "debt", "safe"} => After(call[r].op, pc[r]) # "create"
      BY DEF After, Control, Ops
    <3> QED
      BY <1>2, <3>1 DEF Act, Step, FindPerson, InsertPayment, InsertLoan, UpdateDebt, BookSafe,
                ListUnsettled, SettleNext, SettledAll, CommitTx, CreatePerson, PutPerson, Fail,
                Refuse, Leave, Proceed, Goto, TypeOK
  <2>3. ASSUME NEW x \in Person, table[x] = NoRow, table'[x] # NoRow
        PROVE  CreatePerson(r) /\ x = call[r].person
    <3>1. x \in Row /\ x \notin Locked(r)
      BY <2>3, VersionOf DEF LiveHeld, StillLive
    <3> QED
      BY <2>3, <3>1, TableStep DEF Seen, StillLive
  <2>4. ASSUME NEW q \in Req, pc'[q] = "create" PROVE table'[call'[q].person] = NoRow
    <3>1. q # r /\ pc[q] = "create" /\ table[call[q].person] = NoRow
      BY <2>2, <2>4, StepIsLocal DEF Unborn
    <3>2. call[q].op = "create" /\ call[q].person \in Person
      BY <3>1, BodyType DEF Control, Ops
    <3>3. CreatePerson(r) => call[r].op = "create" /\ call[r].person # call[q].person
      BY <3>1, <3>2 DEF CreatePerson, Control, Ops, Unborn
    <3> QED
      BY <2>1, <2>3, <3>1, <3>2, <3>3
  <2>5. ASSUME NEW x \in Fresh, table'[x] # NoRow
        PROVE  \E q \in Req : call[q].op = "create" /\ call[q].person = x
    <3>1. CASE table[x] # NoRow
      BY <3>1 DEF Unborn
    <3>2. CASE table[x] = NoRow
      <4>1. x \in Person
        BY BodyType DEF Fresh
      <4>2. CreatePerson(r) /\ x = call[r].person
        BY <2>3, <2>5, <3>2, <4>1
      <4>3. call[r].op = "create"
        BY <4>2 DEF CreatePerson, Control, Ops
      <4> QED
        BY <4>2, <4>3
    <3> QED
      BY <3>1, <3>2
  <2> QED
    BY <2>1, <2>4, <2>5 DEF Unborn, Fresh
<1> QED
  BY <1>1, <1>2

-----------------------------------------------------------------------------
(* The records and entries of a request: in its draft while it runs, in    *)
(* the table once it has succeeded.                                        *)

LEMMA OwnNames ==
  ASSUME NEW r \in Req
  PROVE  /\ r # Entry(r) /\ {r, Entry(r)} \cap (Person \cup OwnerDebt) = {}
         /\ \A q \in Req \ {r} : {q, Entry(q)} \cap {r, Entry(r)} = {}
<1>1. Entry(r) \notin Person \cup OwnerDebt \cup Req
  BY NamesAssumption
<1>2. \A q \in Req : Entry(q) \notin Req
  BY NamesAssumption
<1>3. \A q \in Req \ {r} : Entry(q) # Entry(r)
  BY DEF Entry
<1> QED
  BY <1>1, <1>2, <1>3, NamesAssumption

(* No other request touches them.                                          *)
LEMMA OthersBooks ==
  ASSUME TypeOK, NEW r \in Req, Control(r), Drafts(r), Act(r), NEW q \in Req \ {r}, Books(q)
  PROVE  Books(q)'
<1>1. draft'[q] = draft[q] /\ pc'[q] = pc[q] /\ call'[q] = call[q]
  BY StepIsLocal
<1>2. ASSUME NEW x \in {q, Entry(q)} PROVE table'[x] = table[x]
  <2>1. x \in Row /\ x \notin Person
    BY OwnNames, VersionOf
  <2>2. x \notin Locked(r)
    BY OwnNames DEF Drafts
  <2> QED
    BY <2>1, <2>2, TableStep DEF Seen
<1>3. Drafts(q)'
  BY <1>1 DEF Books, Drafts, Recording, Booking, Locked
<1>4. table'[q] = table[q] /\ table'[Entry(q)] = table[Entry(q)]
  BY <1>2
<1> QED
  BY <1>1, <1>3, <1>4 DEF Books, Committed

(* The statements of a transaction add to the draft what the body asks     *)
(* for, in the order of the service.                                       *)
LEMMA DraftsStep ==
  ASSUME TypeOK, NEW r \in Req, Control(r), Control(r)', Quiet(r)', Drafts(r), Act(r)
  PROVE  Drafts(r)'
<1> USE RowsOfTypes, OwnNames
<1>1. CASE pc'[r] \in Outside
  <2>1. Locked(r)' = {}
    BY <1>1 DEF Quiet, Locked, NoDraft
  <2>2. ~Recording(r)' /\ ~Booking(r)'
    BY <1>1 DEF Recording, Booking, Outside
  <2> QED
    BY <2>1, <2>2 DEF Drafts
<1>2. ASSUME draft' = draft, Recording(r)' <=> Recording(r), Booking(r)' <=> Booking(r),
             call'[r] = call[r]
      PROVE  Drafts(r)'
  BY <1>2 DEF Drafts, Locked
<1>3. ASSUME pc[r] \in {"insert", "debt", "safe"}, Proceed(r)
      PROVE  pc'[r] = After(call[r].op, pc[r]) /\ call'[r] = call[r]
  BY <1>3 DEF Proceed, Goto, TypeOK, locals
<1>4. CASE InsertPayment(r)
  <2>1. /\ pc[r] = "insert" /\ call[r].op = "payment" /\ Proceed(r)
        /\ \E new : /\ DOMAIN new = {r} /\ new[r] = RecordOf(call[r])
                  /\ Write(r, new)
    BY <1>4 DEF InsertPayment, RecordOf
  <2>2. pc'[r] = "debt" /\ call'[r] = call[r]
    BY <1>3, <2>1 DEF After
  <2>3. /\ Locked(r)' = Locked(r) \cup {r}
        /\ draft'[r][r] = RecordOf(call[r])
    BY <2>1, WriteOne
  <2>4. Recording(r)' /\ ~Booking(r)' /\ ~Booking(r)
    BY <2>1, <2>2 DEF Recording, Booking
  <2> QED
    BY <2>2, <2>3, <2>4 DEF Drafts
<1>5. CASE InsertLoan(r) /\ pc'[r] \notin Outside
  <2>1. /\ pc[r] = "insert" /\ call[r].op = "loan" /\ Proceed(r)
        /\ \E new : /\ DOMAIN new = {r} /\ new[r] = RecordOf(call[r])
                  /\ Write(r, new)
    BY <1>5 DEF InsertLoan, RecordOf, Refuse, Leave, Goto, TypeOK, Outside
  <2>2. pc'[r] = "commit" /\ call'[r] = call[r]
    BY <1>3, <2>1 DEF After
  <2>3. /\ Locked(r)' = Locked(r) \cup {r}
        /\ draft'[r][r] = RecordOf(call[r])
        /\ \A x \in Locked(r) \ {r} : draft'[r][x] = draft[r][x]
    BY <2>1, WriteOne
  <2>4. Recording(r)' /\ Booking(r)' /\ Booking(r)
    BY <2>1, <2>2 DEF Recording, Booking
  <2> QED
    BY <2>2, <2>3, <2>4 DEF Drafts
<1>6. CASE BookSafe(r)
  <2>1. /\ pc[r] = "safe" /\ call[r].op \in {"payment", "loan", "deposit"} /\ Proceed(r)
        /\ \E new : /\ DOMAIN new = {Entry(r)} /\ new[Entry(r)] = EntryOf(call[r])
                  /\ Write(r, new)
    BY <1>6 DEF BookSafe, CreateEntry, EntryOf, Control, Ops
  <2>2. pc'[r] = After(call[r].op, "safe") /\ call'[r] = call[r]
    BY <1>3, <2>1
  <2>3. /\ Locked(r)' = Locked(r) \cup {Entry(r)}
        /\ draft'[r][Entry(r)] = EntryOf(call[r])
        /\ \A x \in Locked(r) \ {Entry(r)} : draft'[r][x] = draft[r][x]
    BY <2>1, WriteOne
  <2>4. Booking(r)' /\ (Recording(r)' <=> Recording(r))
    BY <2>1, <2>2 DEF Recording, Booking, After
  <2> QED
    BY <2>2, <2>3, <2>4 DEF Drafts
<1>7. ASSUME NEW x \in Person \cup OwnerDebt, NEW new, DOMAIN new = {x}, Write(r, new),
             Recording(r)' <=> Recording(r), Booking(r)' <=> Booking(r), call'[r] = call[r]
      PROVE  Drafts(r)'
  <2>1. /\ Locked(r)' = Locked(r) \cup {x}
        /\ \A y \in Locked(r) \ {x} : draft'[r][y] = draft[r][y]
    BY <1>7, WriteEffect
  <2>2. x # r /\ x # Entry(r)
    BY <1>7
  <2> QED
    BY <1>7, <2>1, <2>2 DEF Drafts
<1>8. CASE UpdateDebt(r)
  <2>1. pc[r] = "debt" /\ call[r].op \in {"payment", "loan"} /\ Proceed(r)
    BY <1>8 DEF UpdateDebt, Control, Ops
  <2>2. pc'[r] = After(call[r].op, "debt") /\ call'[r] = call[r]
    BY <1>3, <2>1
  <2>3. (Recording(r)' <=> Recording(r)) /\ (Booking(r)' <=> Booking(r))
    BY <2>1, <2>2 DEF Recording, Booking, After
  <2>4. Subject(call[r]) \in Person
    BY <2>1, BodyType DEF Control
  <2>5. UNCHANGED db \/ \E new : DOMAIN new = {Subject(call[r])} /\ Write(r, new)
    BY <1>8 DEF UpdateDebt
  <2> QED
    BY <1>2, <1>7, <2>2, <2>3, <2>4, <2>5 DEF db
<1>9. CASE SettleNext(r)
  <2>1. pc'[r] = pc[r] /\ call'[r] = call[r]
    BY <1>9 DEF SettleNext
  <2>2. (Recording(r)' <=> Recording(r)) /\ (Booking(r)' <=> Booking(r))
    BY <2>1 DEF Recording, Booking
  <2>3. PICK i \in debts[r] :
          \/ UNCHANGED db
          \/ Write(r, [y \in {Newest[i]} |-> [Seen(r, y) EXCEPT !.is_settled = TRUE]])
    BY <1>9 DEF SettleNext, db
  <2>4. Newest[i] \in OwnerDebt
    BY <2>3 DEF TypeOK, OwnerDebt
  <2>5. UNCHANGED db \/ \E new : DOMAIN new = {Newest[i]} /\ Write(r, new)
    BY <2>3
  <2> QED
    BY <1>2, <1>7, <2>1, <2>2, <2>4, <2>5 DEF db
<1>10. CASE ListUnsettled(r) \/ SettledAll(r)
  <2>1. /\ draft' = draft /\ call'[r] = call[r] /\ call[r].op = "deposit"
        /\ pc[r] \in {"list", "settle"} /\ pc'[r] \in {"settle", "commit"}
    BY <1>10 DEF ListUnsettled, SettledAll, Goto, TypeOK, db, locals, Control, Ops
  <2>2. (Recording(r)' <=> Recording(r)) /\ (Booking(r)' <=> Booking(r))
    BY <2>1 DEF Recording, Booking
  <2> QED
    BY <1>2, <2>1, <2>2
<1>11. CASE Receive(r) /\ pc'[r] \notin Outside
  <2>1. draft' = draft /\ ~Recording(r) /\ ~Booking(r)
    BY <1>11 DEF Receive, db, Recording, Booking
  <2>2. pc'[r] = "safe" /\ call'[r].op \in {"loan", "deposit"}
    <3>1. PICK b \in Body :
            /\ call' = [call EXCEPT ![r] = b]
            /\ Goto(r, CASE b.op \in {"payment", "rename"} -> "find"
                         [] b.op \in {"loan", "deposit"} -> "safe"
                         [] b.op = "create" -> "create"
                         [] b.op = "delete" -> "put")
      BY <1>11 DEF Receive
    <3>2. call'[r] = b
      BY <3>1 DEF TypeOK
    <3> QED
      BY <1>11, <3>1, <3>2, BodyType DEF Goto, TypeOK, Outside
  <2>3. ~Recording(r)' /\ ~Booking(r)'
    BY <2>2 DEF Recording, Booking
  <2> QED
    BY <2>1, <2>3 DEF Drafts, Locked
<1>12. CASE FindPerson(r) /\ pc'[r] \notin Outside
  <2>1. /\ draft' = draft /\ call'[r] = call[r] /\ pc[r] = "find" /\ pc'[r] = "insert"
        /\ call[r].op = "payment"
    BY <1>12 DEF FindPerson, Refuse, Leave, Goto, TypeOK, Outside, db
  <2>2. ~Recording(r)' /\ ~Recording(r) /\ ~Booking(r)' /\ ~Booking(r)
    BY <2>1 DEF Recording, Booking
  <2> QED
    BY <1>2, <2>1, <2>2
<1>13. CASE CommitTx(r) \/ CreatePerson(r) \/ PutPerson(r) \/ Fail(r)
  BY <1>1, <1>13 DEF CommitTx, CreatePerson, PutPerson, Fail, Refuse, Leave, Goto, TypeOK, Outside
<1> QED
  BY <1>1, <1>4, <1>5, <1>6, <1>8, <1>9, <1>10, <1>11, <1>12, <1>13 DEF Act, Step

(* Nothing but the commit of its own transaction makes them final.         *)
LEMMA CommittedStep ==
  ASSUME TypeOK, NEW r \in Req, Control(r), Books(r), Act(r)
  PROVE  Committed(r)'
<1>1. pc[r] # "ok"
  BY DEF Act, Receive, Step, FindPerson, InsertPayment, InsertLoan, UpdateDebt, BookSafe,
         ListUnsettled, SettleNext, SettledAll, CommitTx, CreatePerson, PutPerson, Fail, InFlight
<1>2. table[r] = NoRow /\ table[Entry(r)] = NoRow
  BY <1>1 DEF Books, Committed
<1>3. CASE CommitTx(r)
  <2>1. pc[r] = "commit" /\ pc'[r] = "ok" /\ call'[r] = call[r]
    BY <1>3 DEF CommitTx, Leave, Goto, TypeOK
  <2>2. call[r].op \in {"payment", "loan", "deposit"}
    BY <2>1 DEF Control, Ops
  <2>3. table'[r] = Seen(r, r) /\ table'[Entry(r)] = Seen(r, Entry(r))
    BY <1>3, RowsOfTypes, CommitEffect, VersionOf DEF CommitTx
  <2>4. /\ Recording(r) <=> call[r].op \in {"payment", "loan"}
        /\ Booking(r)
    BY <2>1, <2>2 DEF Recording, Booking
  <2>5. /\ Seen(r, r) = IF call[r].op \in {"payment", "loan"} THEN RecordOf(call[r]) ELSE NoRow
        /\ Seen(r, Entry(r)) = EntryOf(call[r])
    BY <1>2, <2>4 DEF Books, Drafts, Seen
  <2> QED
    BY <2>1, <2>2, <2>3, <2>5 DEF Committed
<1>4. CASE ~CommitTx(r)
  <2>1. table'[r] = NoRow /\ table'[Entry(r)] = NoRow
    <3>1. /\ r \in Row /\ Entry(r) \in Row
          /\ \A x \in Person : x # r /\ x # Entry(r)
      BY VersionOf, OwnNames
    <3> QED
      BY <1>2, <1>4, <3>1, TableStep
  <2>2. pc'[r] = "ok" => call'[r].op \notin {"payment", "loan", "deposit"}
    <3>1. pc[r] \in {"insert", "debt", "safe"} => After(call[r].op, pc[r]) # "ok"
      BY DEF After, Control, Ops
    <3>2. CASE CreatePerson(r) \/ PutPerson(r)
      BY <3>2 DEF CreatePerson, PutPerson, Refuse, Leave, Goto, TypeOK, Control, Ops
    <3>3. CASE Receive(r)
      BY <3>3, BodyType DEF Receive, Goto, TypeOK
    <3> QED
      BY <1>4, <3>1, <3>2, <3>3 DEF Act, Step, FindPerson, InsertPayment, InsertLoan, UpdateDebt,
         BookSafe, ListUnsettled, SettleNext, SettledAll, Fail, Refuse, Leave, Proceed, Goto, TypeOK
  <2> QED
    BY <2>1, <2>2 DEF Committed
<1> QED
  BY <1>3, <1>4

-----------------------------------------------------------------------------
(* Inv is inductive.                                                       *)

LEMMA InvInit == Init => Inv
<1> SUFFICES ASSUME Init PROVE Inv
  OBVIOUS
<1> USE DEF Init
<1>1. TypeOK
  <2>1. RowsOK
    BY InitRowAssumption, NoDraftRows DEF RowsOK
  <2> QED
    BY <2>1 DEF TypeOK, RowsOK, Statement
<1>2. \A r \in Req : Locked(r) = {}
  BY DEF Locked, NoDraft
<1>3. Exclusive
  BY <1>2 DEF Exclusive
<1>4. Unborn
  BY InitRowAssumption DEF Unborn, NoCall
<1>5. ASSUME NEW r \in Req PROVE Control(r) /\ Quiet(r) /\ Books(r) /\ LiveHeld(r)
  <2>1. Control(r) /\ Quiet(r) /\ LiveHeld(r)
    BY <1>2 DEF Control, Quiet, LiveHeld
  <2>2. ~Recording(r) /\ ~Booking(r)
    BY DEF Recording, Booking
  <2>3. Drafts(r)
    BY <1>2, <2>2 DEF Drafts
  <2>4. Committed(r)
    BY InitRowAssumption DEF Committed
  <2> QED
    BY <2>1, <2>3, <2>4 DEF Books
<1> QED
  BY <1>1, <1>3, <1>4, <1>5 DEF Inv

LEMMA InvStep == Inv /\ [Next]_vars => Inv'
<1> SUFFICES ASSUME Inv, [Next]_vars PROVE Inv'
  OBVIOUS
<1>1. CASE UNCHANGED vars
  BY <1>1 DEF vars, locals, Inv, TypeOK, Exclusive, Unborn, Control, Quiet, Books, Drafts,
              Committed, LiveHeld, Recording, Booking, Locked, StillLive
<1>2. ASSUME NEW r \in Req, Act(r) PROVE Inv'
  <2>1. TypeOK' /\ Control(r)'
    BY <1>2, TypeStep DEF Inv
  <2>2. Exclusive' /\ Unborn'
    BY <1>2, ExclusiveStep, UnbornStep DEF Inv
  <2>3. Quiet(r)'
    BY <1>2, QuietStep DEF Inv
  <2>4. Books(r)'
    BY <1>2, <2>1, <2>3, DraftsStep, CommittedStep DEF Inv, Books
  <2>5. ASSUME NEW q \in Req \ {r} PROVE Control(q)' /\ Quiet(q)' /\ Books(q)'
    <3>1. Control(q)' /\ Quiet(q)'
      BY <1>2, StepIsLocal DEF Inv, Control, Quiet
    <3>2. Books(q)'
      BY <1>2, OthersBooks DEF Inv, Books
    <3> QED
      BY <3>1, <3>2
  <2>6. ASSUME NEW q \in Req PROVE LiveHeld(q)'
    BY <1>2, <2>3, LiveHeldStep DEF Inv, Books
  <2> QED
    BY <2>1, <2>2, <2>3, <2>4, <2>5, <2>6 DEF Inv
<1> QED
  BY <1>1, <1>2 DEF Next, Act

LEMMA Invariance == Spec => []Inv
BY InvInit, InvStep, PTL DEF Spec

-----------------------------------------------------------------------------
(* Every row, committed or not, and every variable of a service keeps its  *)
(* type, and what is left of a deposit is never below zero.                *)
THEOREM TypeCorrect == Spec => []TypeOK
<1>1. Inv => TypeOK
  BY DEF Inv
<1> QED
  BY <1>1, Invariance, PTL

(* The safe and the records agree: each payment and loan that was answered *)
(* has its entry at the same rounded amount, with the sign of a repayment, *)
(* and no request that was refused, or is still running, has left either.  *)
THEOREM SafeAgreement == Spec => []SafeAgrees
<1>1. Inv => SafeAgrees
  <2> SUFFICES ASSUME Inv, NEW r \in Req
               PROVE  CASE r \in Done("payment") ->
                             table[Entry(r)] = [amount |-> table[r].amount]
                        [] r \in Done("loan")    ->
                             table[Entry(r)].amount =
                               IF table[r].type = "receive" THEN table[r].amount_uzs
                                                            ELSE -table[r].amount_uzs
                        [] r \in Done("deposit") ->
                             table[Entry(r)] # NoRow /\ table[r] = NoRow
                        [] OTHER -> table[Entry(r)] = NoRow /\ table[r] = NoRow
    BY DEF SafeAgrees
  <2>1. Committed(r) /\ Control(r)
    BY DEF Inv, Books
  <2>2. CASE r \in Done("payment")
    <3>1. pc[r] = "ok" /\ call[r].op = "payment"
      BY <2>2 DEF Done
    <3>2. table[r].amount = Round(call[r].amount)
      BY <2>1, <3>1 DEF Committed, RecordOf
    <3>3. table[Entry(r)] = [amount |-> Round(call[r].amount)]
      BY <2>1, <3>1 DEF Committed, EntryOf, Booked
    <3>4. table[Entry(r)] = [amount |-> table[r].amount]
      BY <3>2, <3>3
    <3> QED
      BY <3>1, <3>4 DEF Done
  <2>3. CASE r \in Done("loan")
    <3>1. pc[r] = "ok" /\ call[r].op = "loan"
      BY <2>3 DEF Done
    <3>2. call[r] \in LoanBody
      BY <2>1, <3>1, BodyType DEF Control
    <3>3. table[r].type = call[r].type /\ table[r].amount_uzs = Round(call[r].amount_uzs)
      BY <2>1, <3>1 DEF Committed, RecordOf
    <3>4. table[Entry(r)].amount
            = Round(IF call[r].type = "receive" THEN call[r].amount_uzs ELSE -call[r].amount_uzs)
      BY <2>1, <3>1 DEF Committed, EntryOf, Booked
    <3>5. Round(-call[r].amount_uzs) = -Round(call[r].amount_uzs)
      BY <3>2, RoundOdd DEF LoanBody
    <3>6. table[Entry(r)].amount = IF table[r].type = "receive" THEN table[r].amount_uzs
                                                                ELSE -table[r].amount_uzs
      BY <3>3, <3>4, <3>5
    <3> QED
      BY <3>1, <3>6 DEF Done
  <2>4. CASE r \in Done("deposit")
    <3>1. pc[r] = "ok" /\ call[r].op = "deposit"
      BY <2>4 DEF Done
    <3>2. table[r] = NoRow /\ table[Entry(r)] = EntryOf(call[r])
      BY <2>1, <3>1 DEF Committed
    <3>3. -Round(call[r].amount) \in Int
      BY <2>1, <3>1, BodyType, RoundType DEF Control, DepositBody
    <3>4. EntryOf(call[r]) \in EntryRow
      BY <3>1, <3>3 DEF EntryOf, Booked, EntryRow
    <3>5. table[Entry(r)] # NoRow
      BY <3>2, <3>4, NoRowAssumption
    <3> QED
      BY <3>1, <3>2, <3>5 DEF Done
  <2>5. CASE r \notin Done("payment") \cup Done("loan") \cup Done("deposit")
    BY <2>1, <2>5 DEF Done, Committed
  <2> QED
    BY <2>2, <2>3, <2>4, <2>5
<1> QED
  BY <1>1, Invariance, PTL

(* Once a client or a creditor is deleted his row is never written again:  *)
(* not by a transaction that found him before, for it is made to wait for  *)
(* the row and then finds no one to update, and not by a new name.         *)
THEOREM DeletionIsFinal == Spec => DeletedIsFinal
<1> DEFINE final == \A x \in Person : table[x] # NoRow /\ ~table[x].live => table'[x] = table[x]
<1>1. Inv /\ [Next]_vars => [final]_vars
  <2> SUFFICES ASSUME Inv, NEW r \in Req, Act(r), NEW x \in Person,
                      table[x] # NoRow, ~table[x].live
               PROVE  table'[x] = table[x]
    BY DEF Next, Act
  <2>1. x \in Row /\ x \notin Locked(r)
    BY VersionOf DEF Inv, LiveHeld, StillLive
  <2>2. CreatePerson(r) => table[call[r].person] = NoRow
    BY DEF Inv, Unborn, CreatePerson
  <2> QED
    BY <2>1, <2>2, TableStep DEF Inv, Seen, StillLive
<1> QED
  BY <1>1, Invariance, PTL DEF Spec, DeletedIsFinal

-----------------------------------------------------------------------------
(***************************************************************************)
(* The books. Credit says what a transaction has written into its person,  *)
(* Known that nobody is asked to change the debt of a person who is still  *)
(* to be created, Settling that the debts a deposit has settled so far and *)
(* what remains of it come to no more than it brought.                     *)
(***************************************************************************)
\* r has passed the statement that updates the debt.
Credited(r) ==
  \/ call[r].op = "payment" /\ pc[r] \in {"safe", "commit"}
  \/ call[r].op = "loan" /\ pc[r] \in {"insert", "commit"}

Credit(r) ==
  /\ \A x \in Locked(r) \cap Person :
       /\ Credited(r) /\ x = Subject(call[r])
       /\ draft[r][x] = [table[x] EXCEPT !.total_debt = Plus(@, Delta(call[r]))]
  /\ Credited(r) /\ Subject(call[r]) \notin Locked(r) => ~StillLive(table[Subject(call[r])])

Known(r) ==
  call[r].op \in {"payment", "loan"} /\ Subject(call[r]) \in Fresh =>
    table[Subject(call[r])] # NoRow

\* The debts that the draft of r settles.
Held(r) == SumFunction([d \in OwnerDebt |-> IF d \in Locked(r) THEN table[d].amount ELSE 0])

AtDebts(r) == call[r].op = "deposit" /\ pc[r] \in {"settle", "commit"}

Settling(r) ==
  /\ \A d \in Locked(r) \cap OwnerDebt :
       AtDebts(r) /\ draft[r][d] = [table[d] EXCEPT !.is_settled = TRUE]
  /\ AtDebts(r) => Parts * Held(r) + remaining[r] <= call[r].amount

Accounts ==
  /\ SettledIsPaid
  /\ DebtsReconcile
  /\ \A r \in Req : Credit(r) /\ Known(r) /\ Settling(r)

-----------------------------------------------------------------------------
(* What the steps of a request leave alone.                                *)

LEMMA RemainsStay ==
  ASSUME TypeOK, NEW r \in Req, NEW q \in Req \ {r}, Act(r)
  PROVE  remaining'[q] = remaining[q]
<1>1. remaining' = remaining \/ \E n : remaining' = [remaining EXCEPT ![r] = n]
  BY DEF Act, Step, Receive, FindPerson, InsertPayment, InsertLoan, UpdateDebt, BookSafe,
         ListUnsettled, SettleNext, SettledAll, CommitTx, CreatePerson, PutPerson, Fail, Refuse,
         Leave, Proceed, locals
<1> QED
  BY <1>1 DEF TypeOK

(* A row that another transaction has locked.                              *)
LEMMA LockedStay ==
  ASSUME TypeOK, Exclusive, NEW r \in Req, Control(r), Act(r), NEW q \in Req \ {r},
         NEW x \in Locked(q)
  PROVE  table'[x] = table[x]
<1>1. x \in Row
  BY DEF TypeOK, Rows, Locked
<1>2. x \notin Locked(r)
  BY DEF Exclusive
<1>3. ~Free(r, x)
  BY DEF Free
<1> QED
  BY <1>1, <1>2, <1>3, TableStep DEF Seen

LEMMA PersonType ==
  ASSUME TypeOK, NEW x \in Person, table[x] # NoRow
  PROVE  table[x] \in PersonRow /\ table[x].total_debt \in Int
BY VersionOf DEF TypeOK, Rows, PersonRow

(* What a payment or a loan adds to a debt.                                *)
LEMMA DeltaType ==
  ASSUME NEW b \in Body, b.op \in {"payment", "loan"}
  PROVE  /\ Delta(b) \in Int
         /\ Round(Delta(b)) = IF b.op = "payment" THEN -Round(b.amount)
                             ELSE IF b.type = "receive" THEN Round(b.amount_uzs)
                             ELSE -Round(b.amount_uzs)
<1>1. CASE b.op = "payment"
  <2>1. b.amount \in Nat \ {0}
    BY <1>1, BodyType DEF PaymentBody
  <2> QED
    BY <1>1, <2>1, RoundOdd DEF Delta
<1>2. CASE b.op = "loan"
  <2>1. b.amount_uzs \in Nat \ {0} /\ b.type \in {"receive", "repay"}
    BY <1>2, BodyType DEF LoanBody
  <2> QED
    BY <1>2, <2>1, RoundOdd DEF Delta
<1> QED
  BY <1>1, <1>2

LEMMA CreditedOps ==
  ASSUME NEW r \in Req, Control(r), Credited(r)
  PROVE  /\ call[r] \in Body /\ call[r].op \in {"payment", "loan"}
         /\ Subject(call[r]) \in Person
<1>1. call[r] \in Body /\ call[r].op \in {"payment", "loan"}
  BY DEF Control, Credited
<1> QED
  BY <1>1, BodyType

(* A locked person has his debt changed and nothing else.                  *)
LEMMA DraftedPerson ==
  ASSUME TypeOK, NEW r \in Req, Control(r), LiveHeld(r), Credit(r), NEW x \in Locked(r) \cap Person
  PROVE  /\ table[x] \in PersonRow /\ table[x].live
         /\ draft[r][x] \in PersonRow /\ draft[r][x].live
         /\ draft[r][x].total_debt = Plus(table[x].total_debt, Delta(call[r]))
<1>1. table[x] \in PersonRow /\ table[x].live /\ table[x].total_debt \in Int
  BY PersonType DEF LiveHeld, StillLive
<1>2. Delta(call[r]) \in Int
  BY CreditedOps, DeltaType DEF Credit
<1>3. PICK n \in Int : n = Plus(table[x].total_debt, Delta(call[r]))
  BY <1>1, <1>2, PlusIs
<1>4. draft[r][x] = [table[x] EXCEPT !.total_debt = n]
  BY <1>3 DEF Credit
<1> QED
  BY <1>1, <1>3, <1>4 DEF PersonRow

(* A new name leaves the debt, and a deletion, too.                        *)
LEMMA PutEffect ==
  ASSUME TypeOK, NEW r \in Req, Control(r), PutPerson(r)
  PROVE  \/ table' = table
         \/ \E row : /\ row = table[Subject(call[r])]
                     /\ table'[Subject(call[r])] \in {row, [row EXCEPT !.live = FALSE]}
<1>1. Subject(call[r]) \in Person /\ Subject(call[r]) \in DOMAIN table
  BY BodyType, VersionOf DEF PutPerson, Control, Ops, TypeOK
<1>2. CASE Refuse(r)
  BY <1>2 DEF Refuse, Rollback
<1>3. CASE Autocommit(r, Subject(call[r]), Changed(r, Subject(call[r])))
  BY <1>1, <1>3 DEF Autocommit, Changed, Renamed
<1> QED
  BY <1>2, <1>3 DEF PutPerson

(* A person who is there stays there.                                      *)
LEMMA PersonsStay ==
  ASSUME TypeOK, NEW r \in Req, Control(r), LiveHeld(r), Credit(r), Act(r),
         NEW x \in Person, table[x] # NoRow
  PROVE  table'[x] # NoRow
<1>1. table[x] \in PersonRow /\ x \in Row
  BY PersonType, VersionOf
<1>2. CASE table'[x] = table[x]
  BY <1>2
<1>3. CASE CommitTx(r) /\ table'[x] = Seen(r, x)
  <2>1. CASE x \in Locked(r)
    BY <1>3, <2>1, DraftedPerson, NoRowAssumption DEF Seen
  <2> QED
    BY <1>3, <2>1 DEF Seen
<1>4. CASE CreatePerson(r) /\ table'[x] = [total_debt |-> 0, live |-> TRUE]
  <2>1. [total_debt |-> 0, live |-> TRUE] \in PersonRow
    BY DEF PersonRow
  <2> QED
    BY <1>4, <2>1, NoRowAssumption
<1>5. CASE PutPerson(r) /\ x = Subject(call[r])
  <2>1. PICK row \in PersonRow : row = table[x]
    BY <1>1
  <2>2. row \in PersonRow /\ [row EXCEPT !.live = FALSE] \in PersonRow
    BY DEF PersonRow
  <2> QED
    BY <1>2, <1>5, <2>1, <2>2, PutEffect, NoRowAssumption
<1> QED
  BY <1>1, <1>2, <1>3, <1>4, <1>5, TableStep

-----------------------------------------------------------------------------
(* The requests that do not take the step.                                 *)

LEMMA OthersCredit ==
  ASSUME Inv, NEW r \in Req, Known(r), Credit(r), Act(r),
         NEW q \in Req \ {r}, Credit(q), Known(q)
  PROVE  Credit(q)' /\ Known(q)'
<1>1. draft'[q] = draft[q] /\ pc'[q] = pc[q] /\ call'[q] = call[q]
  BY StepIsLocal DEF Inv
<1>2. \A x \in Locked(q) : table'[x] = table[x]
  BY LockedStay DEF Inv
<1>3. Locked(q)' = Locked(q) /\ (Credited(q)' <=> Credited(q))
  BY <1>1 DEF Locked, Credited
<1>4. ASSUME Credited(q), Subject(call[q]) \notin Locked(q)
      PROVE  ~StillLive(table'[Subject(call[q])])
  <2>1. PICK x \in Person : x = Subject(call[q]) /\ x \in Row
    BY <1>4, CreditedOps, VersionOf DEF Inv
  <2>2. ~StillLive(table[x])
    BY <1>4, <2>1 DEF Credit
  <2>3. CASE CommitTx(r) /\ table'[x] = Seen(r, x)
    BY <2>1, <2>2, <2>3 DEF Seen, Inv, LiveHeld
  <2>4. CASE CreatePerson(r) /\ x = call[r].person
    <3>1. table[x] = NoRow /\ call[r] \in Body /\ call[r].op = "create"
      BY <2>4 DEF CreatePerson, Inv, Unborn, Control, Ops
    <3>2. x \in Fresh
      BY <2>4, <3>1 DEF Fresh
    <3> QED
      BY <1>4, <2>1, <3>1, <3>2, CreditedOps DEF Known, Inv
  <2>5. CASE table'[x] = table[x]
    BY <2>1, <2>2, <2>5
  <2> QED
    BY <2>1, <2>2, <2>3, <2>4, <2>5, TableStep DEF Inv
<1>5. Credit(q)'
  <2>1. ASSUME NEW x \in Locked(q) \cap Person
        PROVE  draft'[q][x] = [table'[x] EXCEPT !.total_debt = Plus(@, Delta(call'[q]))]
    BY <1>1, <1>2 DEF Credit
  <2> QED
    BY <1>1, <1>3, <1>4, <2>1 DEF Credit
<1>6. Known(q)'
  <2> SUFFICES ASSUME call[q].op \in {"payment", "loan"}, Subject(call[q]) \in Fresh
               PROVE  table'[Subject(call[q])] # NoRow
    BY <1>1 DEF Known
  <2>1. Subject(call[q]) \in Person /\ table[Subject(call[q])] # NoRow
    <3>1. call[q] \in Body
      BY DEF Inv, Control, NoCall
    <3> QED
      BY <3>1, BodyType DEF Known
  <2> QED
    BY <2>1, PersonsStay DEF Inv
<1> QED
  BY <1>5, <1>6

LEMMA OthersSettling ==
  ASSUME Inv, NEW r \in Req, Act(r), NEW q \in Req \ {r}, Settling(q)
  PROVE  Settling(q)'
<1>1. /\ draft'[q] = draft[q] /\ pc'[q] = pc[q] /\ call'[q] = call[q]
      /\ remaining'[q] = remaining[q]
  BY StepIsLocal, RemainsStay DEF Inv
<1>2. \A x \in Locked(q) : table'[x] = table[x]
  BY LockedStay DEF Inv
<1>3. Locked(q)' = Locked(q) /\ (AtDebts(q)' <=> AtDebts(q))
  BY <1>1 DEF Locked, AtDebts
<1>4. Held(q)' = Held(q)
  <2>1. [d \in OwnerDebt |-> IF d \in Locked(q)' THEN table'[d].amount ELSE 0]
          = [d \in OwnerDebt |-> IF d \in Locked(q) THEN table[d].amount ELSE 0]
    BY <1>2, <1>3
  <2> QED
    BY <2>1 DEF Held
<1>5. ASSUME NEW d \in Locked(q) \cap OwnerDebt
      PROVE  AtDebts(q) /\ draft'[q][d] = [table'[d] EXCEPT !.is_settled = TRUE]
  BY <1>1, <1>2 DEF Settling
<1> QED
  BY <1>1, <1>3, <1>4, <1>5 DEF Settling

-----------------------------------------------------------------------------
(* The request that does.                                                  *)

LEMMA KnownStep ==
  ASSUME Inv, NEW r \in Req, Known(r), Credit(r), Act(r)
  PROVE  Known(r)'
<1>1. CASE Receive(r)
  <2>1. PICK b \in Body : Nameable(b) /\ call' = [call EXCEPT ![r] = b]
    BY <1>1 DEF Receive
  <2>2. call'[r] = b /\ table' = table
    BY <1>1, <2>1 DEF Receive, db, Inv, TypeOK
  <2> QED
    BY <2>1, <2>2, BodyType DEF Known, Nameable
<1>2. CASE ~Receive(r)
  <2>1. call' = call
    BY <1>2 DEF Act, Step, FindPerson, InsertPayment, InsertLoan, UpdateDebt, BookSafe,
         ListUnsettled, SettleNext, SettledAll, CommitTx, CreatePerson, PutPerson, Fail, Refuse,
         Leave, Proceed, locals
  <2> SUFFICES ASSUME call[r].op \in {"payment", "loan"}, Subject(call[r]) \in Fresh
               PROVE  table'[Subject(call[r])] # NoRow
    BY <2>1 DEF Known
  <2>2. Subject(call[r]) \in Person /\ table[Subject(call[r])] # NoRow
    <3>1. call[r] \in Body
      BY DEF Inv, Control, NoCall
    <3> QED
      BY <3>1, BodyType DEF Known
  <2> QED
    BY <2>2, PersonsStay DEF Inv
<1> QED
  BY <1>1, <1>2

\* The person rows that r has locked stay as they are, and it stays (or is not yet)
\* past the statement that updates them.
LEMMA CreditSame ==
  ASSUME Inv, NEW r \in Req, Credit(r), table' = table, call'[r] = call[r],
         Locked(r)' \cap Person = Locked(r) \cap Person,
         \A x \in Locked(r) \cap Person : draft'[r][x] = draft[r][x],
         Credited(r)' <=> Credited(r)
  PROVE  Credit(r)'
<1>1. ASSUME NEW x \in Locked(r)' \cap Person
      PROVE  /\ Credited(r)' /\ x = Subject(call'[r])
             /\ draft'[r][x] = [table'[x] EXCEPT !.total_debt = Plus(@, Delta(call'[r]))]
  BY DEF Credit
<1>2. Credited(r) /\ Subject(call[r]) \notin Locked(r)' => Subject(call[r]) \notin Locked(r)
  BY CreditedOps DEF Inv
<1>3. Credited(r)' /\ Subject(call'[r]) \notin Locked(r)' => ~StillLive(table'[Subject(call'[r])])
  BY <1>2 DEF Credit
<1> QED
  BY <1>1, <1>3 DEF Credit

LEMMA CreditOther ==
  ASSUME Inv, NEW r \in Req, Credit(r), call'[r] = call[r], NEW x \in Row \ Person, NEW new,
         DOMAIN new = {x}, Write(r, new), Credited(r)' <=> Credited(r)
  PROVE  Credit(r)'
<1>1. /\ table' = table
      /\ Locked(r)' = Locked(r) \cup {x}
      /\ \A y \in Locked(r) \ {x} : draft'[r][y] = draft[r][y]
  BY WriteEffect, RowsOfTypes DEF Inv
<1> QED
  BY <1>1, CreditSame

LEMMA CreditStep ==
  ASSUME Inv, NEW r \in Req, Credit(r), Quiet(r)', Act(r)
  PROVE  Credit(r)'
<1> USE OwnNames, VersionOf
<1>0. TypeOK /\ Control(r)
  BY DEF Inv
<1>1. CASE pc'[r] \in Outside
  <2>1. Locked(r)' = {}
    BY <1>1 DEF Quiet, Locked, NoDraft
  <2>2. ~Credited(r)'
    BY <1>1 DEF Credited, Outside
  <2> QED
    BY <2>1, <2>2 DEF Credit
<1>2. ASSUME pc[r] \in {"insert", "debt", "safe"}, Proceed(r)
      PROVE  pc'[r] = After(call[r].op, pc[r]) /\ call'[r] = call[r]
  BY <1>0, <1>2 DEF Proceed, Goto, TypeOK, locals
<1>3. CASE InsertPayment(r)
  <2>1. /\ pc[r] = "insert" /\ call[r].op = "payment" /\ Proceed(r)
        /\ \E new : DOMAIN new = {r} /\ Write(r, new)
    BY <1>3 DEF InsertPayment
  <2>2. pc'[r] = "debt" /\ call'[r] = call[r]
    BY <1>2, <2>1 DEF After
  <2>3. ~Credited(r) /\ ~Credited(r)'
    BY <2>1, <2>2 DEF Credited
  <2> QED
    BY <2>1, <2>2, <2>3, CreditOther
<1>4. CASE InsertLoan(r) /\ pc'[r] \notin Outside
  <2>1. /\ pc[r] = "insert" /\ call[r].op = "loan" /\ Proceed(r)
        /\ \E new : DOMAIN new = {r} /\ Write(r, new)
    BY <1>0, <1>4 DEF InsertLoan, Refuse, Leave, Goto, TypeOK, Outside
  <2>2. pc'[r] = "commit" /\ call'[r] = call[r]
    BY <1>2, <2>1 DEF After
  <2>3. Credited(r) /\ Credited(r)'
    BY <2>1, <2>2 DEF Credited
  <2> QED
    BY <2>1, <2>2, <2>3, CreditOther
<1>5. CASE BookSafe(r)
  <2>1. /\ pc[r] = "safe" /\ call[r].op \in {"payment", "loan", "deposit"} /\ Proceed(r)
        /\ \E new : DOMAIN new = {Entry(r)} /\ Write(r, new)
    BY <1>0, <1>5 DEF BookSafe, CreateEntry, Control, Ops
  <2>2. pc'[r] = After(call[r].op, "safe") /\ call'[r] = call[r]
    BY <1>2, <2>1
  <2>3. Credited(r)' <=> Credited(r)
    BY <2>1, <2>2 DEF Credited, After
  <2>4. Entry(r) \in Row \ Person
    OBVIOUS
  <2> QED
    BY <2>1, <2>2, <2>3, <2>4, CreditOther
<1>6. CASE SettleNext(r)
  <2>1. pc'[r] = pc[r] /\ call'[r] = call[r] /\ pc[r] = "settle"
    BY <1>6 DEF SettleNext
  <2>2. ~Credited(r) /\ ~Credited(r)'
    BY <2>1 DEF Credited
  <2>3. PICK i \in debts[r] :
          \/ UNCHANGED db
          \/ Write(r, [y \in {Newest[i]} |-> [Seen(r, y) EXCEPT !.is_settled = TRUE]])
    BY <1>6 DEF SettleNext, db
  <2>4. Newest[i] \in OwnerDebt
    BY <1>0, <2>3 DEF TypeOK, OwnerDebt
  <2>5. Newest[i] \in Row \ Person
    BY <2>4, NamesAssumption
  <2>6. UNCHANGED db \/ \E new : DOMAIN new = {Newest[i]} /\ Write(r, new)
    BY <2>3
  <2>7. CASE UNCHANGED db
    BY <2>1, <2>2, <2>7, CreditSame DEF db, Locked
  <2> QED
    BY <2>1, <2>2, <2>5, <2>6, <2>7, CreditOther
<1>7. CASE ListUnsettled(r) \/ SettledAll(r)
  <2>1. /\ UNCHANGED db /\ call'[r] = call[r] /\ call[r].op = "deposit"
    BY <1>0, <1>7 DEF ListUnsettled, SettledAll, Goto, TypeOK, locals, Control, Ops
  <2>2. ~Credited(r) /\ ~Credited(r)'
    BY <2>1 DEF Credited
  <2> QED
    BY <2>1, <2>2, CreditSame DEF db, Locked
<1>8. CASE Receive(r) /\ pc'[r] \notin Outside
  <2>1. UNCHANGED db /\ Locked(r) = {}
    BY <1>8 DEF Receive, Inv, Quiet, Outside, Locked, NoDraft
  <2>2. pc'[r] = "safe" /\ call'[r].op \in {"loan", "deposit"}
    <3>1. PICK b \in Body :
            /\ call' = [call EXCEPT ![r] = b]
            /\ Goto(r, CASE b.op \in {"payment", "rename"} -> "find"
                         [] b.op \in {"loan", "deposit"} -> "safe"
                         [] b.op = "create" -> "create"
                         [] b.op = "delete" -> "put")
      BY <1>8 DEF Receive
    <3>2. call'[r] = b
      BY <1>0, <3>1 DEF TypeOK
    <3> QED
      BY <1>0, <1>8, <3>1, <3>2, BodyType DEF Goto, TypeOK, Outside
  <2>3. ~Credited(r)'
    BY <2>2 DEF Credited
  <2> QED
    BY <2>1, <2>3 DEF Credit, Locked, db
<1>9. CASE FindPerson(r) /\ pc'[r] \notin Outside
  <2>1. /\ UNCHANGED db /\ call'[r] = call[r] /\ pc[r] = "find" /\ pc'[r] = "insert"
        /\ call[r].op = "payment"
    BY <1>0, <1>9 DEF FindPerson, Refuse, Leave, Goto, TypeOK, Outside
  <2>2. ~Credited(r) /\ ~Credited(r)'
    BY <2>1 DEF Credited
  <2> QED
    BY <2>1, <2>2, CreditSame DEF db, Locked
<1>10. CASE UpdateDebt(r)
  <2> DEFINE x == Subject(call[r])
  <2>1. pc[r] = "debt" /\ call[r].op \in {"payment", "loan"} /\ Proceed(r)
    BY <1>0, <1>10 DEF UpdateDebt, Control, Ops
  <2>2. pc'[r] = After(call[r].op, "debt") /\ call'[r] = call[r]
    BY <1>2, <2>1
  <2>3. ~Credited(r) /\ Credited(r)'
    BY <2>1, <2>2 DEF Credited, After
  <2>4. Locked(r) \cap Person = {} /\ x \in Person
    BY <1>0, <2>1, <2>3, BodyType DEF Credit, Control
  <2>5. Seen(r, x) = table[x]
    BY <2>4 DEF Seen
  <2>6. CASE /\ StillLive(table[x])
             /\ Write(r, [y \in {x} |-> [Seen(r, y) EXCEPT !.total_debt = Plus(@, Delta(call[r]))]])
    <3>1. PICK new : /\ new = [y \in {x} |-> [Seen(r, y) EXCEPT !.total_debt =
                                                           Plus(@, Delta(call[r]))]]
                     /\ Write(r, new)
      BY <2>6
    <3>2. DOMAIN new = {x} /\ new[x] = [table[x] EXCEPT !.total_debt = Plus(@, Delta(call[r]))]
      BY <2>5, <3>1
    <3>3. /\ table' = table /\ Locked(r)' = Locked(r) \cup {x} /\ draft'[r][x] = new[x]
      BY <1>0, <3>1, <3>2, WriteEffect, RowsOfTypes
    <3> QED
      BY <2>2, <2>3, <2>4, <3>2, <3>3 DEF Credit
  <2>7. CASE ~StillLive(table[x]) /\ UNCHANGED db
    BY <2>2, <2>3, <2>4, <2>7 DEF Credit, Locked, db
  <2> QED
    BY <1>10, <2>5, <2>6, <2>7 DEF UpdateDebt
<1>11. CASE CommitTx(r) \/ CreatePerson(r) \/ PutPerson(r) \/ Fail(r)
  BY <1>0, <1>1, <1>11 DEF CommitTx, CreatePerson, PutPerson, Fail, Refuse, Leave, Goto, TypeOK,
                           Outside
<1> QED
  BY <1>1, <1>3, <1>4, <1>5, <1>6, <1>7, <1>8, <1>9, <1>10, <1>11 DEF Act, Step

(* No debt of the owner is in the draft, and none gets there.              *)
LEMMA SettlingSame ==
  ASSUME Inv, NEW r \in Req, Settling(r), ~AtDebts(r), ~AtDebts(r)',
         Locked(r)' \cap OwnerDebt = Locked(r) \cap OwnerDebt
  PROVE  Settling(r)'
<1>1. Locked(r) \cap OwnerDebt = {}
  BY DEF Settling
<1> QED
  BY <1>1 DEF Settling

LEMMA DebtType ==
  ASSUME TypeOK, NEW d \in OwnerDebt
  PROVE  table[d] \in OwnerDebtRow /\ table[d].amount \in Nat
<1>1. d \in DOMAIN table /\ Version(d) = OwnerDebtRow
  BY VersionOf DEF TypeOK
<1>2. table[d] \in OwnerDebtRow
  BY <1>1 DEF TypeOK, Rows
<1> QED
  BY <1>2 DEF OwnerDebtRow

LEMMA DebtsFinite == IsFiniteSet(OwnerDebt)
<1>1. IsFiniteSet(DOMAIN Newest)
  <2>1. PICK n \in Nat : DOMAIN Newest = 1 .. n
    BY NewestAssumption
  <2> QED
    BY <2>1, FS_Interval
<1>2. \A d \in OwnerDebt : \E i \in DOMAIN Newest : Newest[i] = d
  BY DEF OwnerDebt
<1>3. Newest \in [DOMAIN Newest -> OwnerDebt]
  BY NewestAssumption DEF OwnerDebt
<1> QED
  BY <1>1, <1>2, <1>3, FS_Surjection DEF Surjection

LEMMA HeldType ==
  ASSUME TypeOK, NEW r \in Req
  PROVE  /\ IsFiniteSet(OwnerDebt)
         /\ [d \in OwnerDebt |-> IF d \in Locked(r) THEN table[d].amount ELSE 0]
              \in [OwnerDebt -> Nat]
         /\ Held(r) \in Nat
<1>1. IsFiniteSet(OwnerDebt)
  BY DebtsFinite
<1>2. \A d \in OwnerDebt : table[d].amount \in Nat
  BY DebtType
<1>3. [d \in OwnerDebt |-> IF d \in Locked(r) THEN table[d].amount ELSE 0] \in [OwnerDebt -> Nat]
  BY <1>2
<1> QED
  BY <1>1, <1>3, FunctionSumNat DEF Held

(* One more debt, or one that another deposit has settled, is paid for by  *)
(* what is subtracted.                                                     *)
LEMMA SettleNextStep ==
  ASSUME Inv, NEW r \in Req, Settling(r), SettleNext(r)
  PROVE  Settling(r)'
<1>0. TypeOK /\ RowsOK
  BY RowsOfTypes DEF Inv
<1>1. /\ pc[r] = "settle" /\ pc' = pc /\ call' = call
  BY DEF SettleNext
<1>2. AtDebts(r) /\ AtDebts(r)'
  BY <1>1 DEF AtDebts, Inv, Control, Ops
<1>3. PICK i \in debts[r] :
        \/ /\ Covers(remaining[r], Newest[i])
           /\ IF Seen(r, Newest[i]).is_settled
                THEN UNCHANGED db
                ELSE Write(r, [x \in {Newest[i]} |-> [Seen(r, x) EXCEPT !.is_settled = TRUE]])
           /\ remaining' = [remaining EXCEPT ![r] = Less(@, Newest[i])]
        \/ UNCHANGED <<db, remaining>>
  BY DEF SettleNext
<1>4. PICK d \in OwnerDebt : d = Newest[i]
  BY <1>0, <1>3 DEF TypeOK, OwnerDebt
<1>5. PICK a \in Nat : a = table[d].amount
  BY <1>0, DebtType
<1>6. /\ Parts \in Nat \ {0} /\ Held(r) \in Nat /\ remaining[r] \in Nat
      /\ remaining \in [Req -> Nat]
  BY <1>0, HeldType, PartsAssumption DEF TypeOK
<1>7. Parts * a \in Nat /\ Parts * Held(r) \in Nat
  BY <1>5, <1>6
<1>8. Parts * Held(r) + remaining[r] <= call[r].amount
  BY <1>2 DEF Settling
<1>9. call[r].amount \in Nat
  BY <1>2, BodyType DEF AtDebts, Inv, Control, DepositBody
<1>10. CASE UNCHANGED <<db, remaining>>
  BY <1>1, <1>2, <1>8, <1>10 DEF Settling, Held, Locked, db
<1>11. CASE UNCHANGED db /\ remaining' = [remaining EXCEPT ![r] = Less(@, d)]
  <2>1. remaining'[r] = remaining[r] - Parts * a
    BY <1>5, <1>6, <1>11 DEF Less
  <2>2. Held(r)' = Held(r)
    BY <1>11 DEF Held, Locked, db
  <2>3. Parts * Held(r)' + remaining'[r] <= call'[r].amount
    BY <1>1, <1>6, <1>7, <1>8, <1>9, <2>1, <2>2
  <2>4. \A x \in Locked(r)' \cap OwnerDebt :
          AtDebts(r)' /\ draft'[r][x] = [table'[x] EXCEPT !.is_settled = TRUE]
    BY <1>2, <1>11 DEF Settling, Locked, db
  <2> QED
    BY <2>3, <2>4 DEF Settling
<1>12. CASE /\ ~Seen(r, d).is_settled
            /\ Write(r, [x \in {d} |-> [Seen(r, x) EXCEPT !.is_settled = TRUE]])
            /\ remaining' = [remaining EXCEPT ![r] = Less(@, d)]
  <2>1. d \notin Locked(r)
    <3> SUFFICES ASSUME d \in Locked(r) PROVE FALSE
      OBVIOUS
    <3>1. draft[r][d] = [table[d] EXCEPT !.is_settled = TRUE] /\ table[d] \in OwnerDebtRow
      BY <1>0, VersionOf DEF Settling, TypeOK, Rows
    <3> QED
      BY <1>12, <3>1 DEF Seen, OwnerDebtRow
  <2>2. PICK new : /\ new = [x \in {d} |-> [Seen(r, x) EXCEPT !.is_settled = TRUE]]
                   /\ Write(r, new)
    BY <1>12
  <2>3. DOMAIN new = {d} /\ new[d] = [table[d] EXCEPT !.is_settled = TRUE]
    BY <2>1, <2>2 DEF Seen
  <2>4. /\ table' = table /\ Locked(r)' = Locked(r) \cup {d} /\ draft'[r][d] = new[d]
        /\ \A x \in Locked(r) : draft'[r][x] = draft[r][x]
    <3>1. RowsOK /\ Write(r, new) /\ DOMAIN new = {d}
      BY <1>0, <2>2, <2>3
    <3>2. table' = table
      BY <3>1, WriteEffect
    <3>3. /\ Locked(r)' = Locked(r) \cup {d} /\ draft'[r][d] = new[d]
          /\ \A x \in Locked(r) \ {d} : draft'[r][x] = draft[r][x]
      BY <3>1, WriteOne
    <3> QED
      BY <2>1, <3>2, <3>3
  <2>5. Held(r)' = Held(r) + a
    <3>1. PICK f, h : /\ f = [x \in OwnerDebt |-> IF x \in Locked(r) THEN table[x].amount ELSE 0]
                      /\ h = [x \in OwnerDebt |-> IF x \in Locked(r)' THEN table'[x].amount ELSE 0]
      OBVIOUS
    <3>2. f \in [OwnerDebt -> Int] /\ IsFiniteSet(OwnerDebt)
      BY <1>0, <3>1, HeldType
    <3>3. f[d] = 0 /\ h[d] = a /\ \A x \in OwnerDebt \ {d} : h[x] = f[x]
      BY <1>5, <2>1, <2>4, <3>1
    <3>4. h \in [OwnerDebt -> Int]
      BY <3>1, <3>2, <3>3
    <3>5. SumFunction(h) = SumFunction(f) - f[d] + h[d]
      BY <3>2, <3>3, <3>4, SumChange
    <3>6. SumFunction(h) = SumFunction(f) + a /\ SumFunction(f) = Held(r)
      BY <1>6, <3>1, <3>3, <3>5 DEF Held
    <3>7. Held(r)' = SumFunction(h)
      BY <3>1 DEF Held
    <3> QED
      BY <3>6, <3>7
  <2>6. Parts * (Held(r) + a) = Parts * Held(r) + Parts * a
    BY <1>5, <1>6
  <2>7. remaining'[r] = remaining[r] - Parts * a
    BY <1>5, <1>6, <1>12 DEF Less
  <2>8. Parts * Held(r)' + remaining'[r] <= call'[r].amount
    BY <1>1, <1>6, <1>7, <1>8, <1>9, <2>5, <2>6, <2>7
  <2>9. \A x \in Locked(r)' \cap OwnerDebt :
          AtDebts(r)' /\ draft'[r][x] = [table'[x] EXCEPT !.is_settled = TRUE]
    BY <1>2, <2>3, <2>4 DEF Settling
  <2> QED
    BY <2>8, <2>9 DEF Settling
<1> QED
  BY <1>3, <1>4, <1>10, <1>11, <1>12

LEMMA SettlingStep ==
  ASSUME Inv, NEW r \in Req, Settling(r), Quiet(r)', Act(r)
  PROVE  Settling(r)'
<1> USE OwnNames, VersionOf
<1>0. TypeOK /\ Control(r) /\ RowsOK
  BY RowsOfTypes DEF Inv
<1>1. CASE pc'[r] \in Outside
  <2>1. Locked(r)' = {}
    BY <1>1 DEF Quiet, Locked, NoDraft
  <2>2. ~AtDebts(r)'
    BY <1>1 DEF AtDebts, Outside
  <2> QED
    BY <2>1, <2>2 DEF Settling
<1>2. ASSUME pc[r] \in {"insert", "debt", "safe"}, Proceed(r)
      PROVE  ~AtDebts(r) /\ ~AtDebts(r)'
  <2>1. pc'[r] = After(call[r].op, pc[r]) /\ call'[r] = call[r]
    BY <1>0, <1>2 DEF Proceed, Goto, TypeOK, locals
  <2>2. call[r].op \in Ops(pc[r])
    BY <1>0, <1>2 DEF Control
  <2> QED
    BY <1>2, <2>1, <2>2 DEF AtDebts, After, Ops
<1>3. ASSUME NEW x \in Row \ OwnerDebt, NEW new, DOMAIN new = {x}, Write(r, new)
      PROVE  Locked(r)' \cap OwnerDebt = Locked(r) \cap OwnerDebt
  <2>1. Locked(r)' = Locked(r) \cup {x}
    BY <1>0, <1>3, WriteEffect
  <2> QED
    BY <2>1
<1>4. CASE InsertPayment(r) \/ (InsertLoan(r) /\ pc'[r] \notin Outside)
  <2>1. /\ pc[r] = "insert" /\ Proceed(r)
        /\ \E new : DOMAIN new = {r} /\ Write(r, new)
    BY <1>0, <1>4 DEF InsertPayment, InsertLoan, Refuse, Leave, Goto, TypeOK, Outside
  <2> QED
    BY <1>2, <1>3, <2>1, SettlingSame
<1>5. CASE BookSafe(r)
  <2>1. /\ pc[r] = "safe" /\ Proceed(r)
        /\ \E new : DOMAIN new = {Entry(r)} /\ Write(r, new)
    BY <1>5 DEF BookSafe, CreateEntry
  <2> QED
    BY <1>2, <1>3, <2>1, SettlingSame
<1>6. CASE UpdateDebt(r)
  <2>1. pc[r] = "debt" /\ call[r].op \in {"payment", "loan"} /\ Proceed(r)
    BY <1>0, <1>6 DEF UpdateDebt, Control, Ops
  <2>2. Subject(call[r]) \in Person
    BY <1>0, <2>1, BodyType DEF Control
  <2>3. Subject(call[r]) \in Row \ OwnerDebt
    BY <2>2, NamesAssumption
  <2>4. UNCHANGED db \/ \E new : DOMAIN new = {Subject(call[r])} /\ Write(r, new)
    BY <1>6 DEF UpdateDebt
  <2> QED
    BY <1>2, <1>3, <2>1, <2>3, <2>4, SettlingSame DEF db, Locked
<1>7. CASE SettleNext(r)
  BY <1>7, SettleNextStep
<1>8. CASE ListUnsettled(r)
  <2>1. /\ UNCHANGED db /\ call'[r] = call[r] /\ call[r].op = "deposit"
        /\ pc[r] = "list" /\ pc'[r] = "settle" /\ remaining'[r] = call[r].amount
    BY <1>0, <1>8 DEF ListUnsettled, Goto, TypeOK, Control, Ops
  <2>2. Locked(r)' \cap OwnerDebt = {}
    BY <2>1 DEF Settling, AtDebts, Locked, db
  <2>3. Held(r)' = 0
    <3>1. PICK h : h = [x \in OwnerDebt |-> IF x \in Locked(r)' THEN table'[x].amount ELSE 0]
      OBVIOUS
    <3>2. DOMAIN h = OwnerDebt /\ \A x \in OwnerDebt : h[x] = 0
      BY <2>2, <3>1
    <3>3. SumFunction(h) = 0
      BY <1>0, <3>2, HeldType, FunctionSumZero
    <3> QED
      BY <3>1, <3>3 DEF Held
  <2>4. call[r].amount \in Nat /\ Parts * 0 = 0
    BY <1>0, <2>1, BodyType, PartsAssumption DEF Control, DepositBody
  <2>5. Parts * Held(r)' + remaining'[r] <= call'[r].amount
    BY <2>1, <2>3, <2>4
  <2> QED
    BY <2>2, <2>5 DEF Settling
<1>9. CASE SettledAll(r)
  <2>1. /\ UNCHANGED db /\ UNCHANGED locals /\ pc[r] = "settle" /\ pc'[r] = "commit"
    BY <1>0, <1>9 DEF SettledAll, Goto, TypeOK
  <2>2. AtDebts(r) /\ AtDebts(r)'
    BY <1>0, <2>1 DEF AtDebts, Control, Ops, locals
  <2>3. Held(r)' = Held(r)
    BY <2>1 DEF Held, Locked, db
  <2>4. Parts * Held(r)' + remaining'[r] <= call'[r].amount
    BY <2>1, <2>2, <2>3 DEF Settling, locals
  <2>5. \A x \in Locked(r)' \cap OwnerDebt :
          AtDebts(r)' /\ draft'[r][x] = [table'[x] EXCEPT !.is_settled = TRUE]
    BY <2>1, <2>2 DEF Settling, Locked, db
  <2> QED
    BY <2>4, <2>5 DEF Settling
<1>10. CASE (Receive(r) \/ FindPerson(r)) /\ pc'[r] \notin Outside
  <2>1. UNCHANGED db /\ pc[r] \in {"idle", "find"} /\ pc'[r] \in {"safe", "insert"}
    <3>1. CASE Receive(r)
      <4>1. UNCHANGED db /\ pc[r] = "idle"
        BY <3>1 DEF Receive
      <4>2. PICK b \in Body :
              Goto(r, CASE b.op \in {"payment", "rename"} -> "find"
                        [] b.op \in {"loan", "deposit"} -> "safe"
                        [] b.op = "create" -> "create"
                        [] b.op = "delete" -> "put")
        BY <3>1 DEF Receive
      <4> QED
        BY <1>0, <1>10, <4>1, <4>2, BodyType DEF Goto, TypeOK, Outside
    <3>2. CASE FindPerson(r)
      BY <1>0, <1>10, <3>2 DEF FindPerson, Refuse, Leave, Goto, TypeOK, Outside
    <3> QED
      BY <1>10, <3>1, <3>2
  <2>2. ~AtDebts(r) /\ ~AtDebts(r)'
    BY <2>1 DEF AtDebts
  <2> QED
    BY <2>1, <2>2, SettlingSame DEF Locked, db
<1>11. CASE CommitTx(r) \/ CreatePerson(r) \/ PutPerson(r) \/ Fail(r)
  BY <1>0, <1>1, <1>11 DEF CommitTx, CreatePerson, PutPerson, Fail, Refuse, Leave, Goto, TypeOK,
                           Outside
<1> QED
  BY <1>1, <1>4, <1>5, <1>6, <1>7, <1>8, <1>9, <1>10, <1>11 DEF Act, Step

-----------------------------------------------------------------------------
(* What the books sum up.                                                  *)

\* r has recorded a payment or a loan of x, and what that makes of his debt.
Counts(r, x) == r \in Done("payment") \cup Done("loan") /\ Subject(call[r]) = x

ChangeOf(r, x) == IF Counts(r, x) THEN Round(Delta(call[r])) ELSE 0

\* The same, as the records say it.
RecordedBy(r, x) ==
  IF r \in Done("payment") /\ table[r].client = x THEN -table[r].amount
  ELSE IF r \in Done("loan") /\ table[r].creditor = x
    THEN IF table[r].type = "receive" THEN table[r].amount_uzs ELSE -table[r].amount_uzs
  ELSE 0

DepositOf(r) == IF r \in Done("deposit") THEN Round(call[r].amount) ELSE 0

DepositedBy(r) == IF r \in Done("deposit") THEN -table[Entry(r)].amount ELSE 0

TermsAgree ==
  \A r \in Req :
    /\ DepositedBy(r) = DepositOf(r) /\ DepositOf(r) \in Int
    /\ \A x : RecordedBy(r, x) = ChangeOf(r, x) /\ ChangeOf(r, x) \in Int

LEMMA Terms == Inv => TermsAgree
<1> SUFFICES ASSUME Inv, NEW r \in Req, NEW x
             PROVE  /\ DepositedBy(r) = DepositOf(r) /\ DepositOf(r) \in Int
                    /\ RecordedBy(r, x) = ChangeOf(r, x) /\ ChangeOf(r, x) \in Int
  BY DEF TermsAgree
<1>1. Committed(r) /\ Control(r)
  BY DEF Inv, Books
<1>2. CASE pc[r] = "ok" /\ call[r].op = "payment"
  <2>1. call[r] \in Body /\ call[r] \in PaymentBody
    BY <1>1, <1>2, BodyType DEF Control
  <2>2. PICK n \in Int : n = Round(call[r].amount)
    BY <2>1, RoundType DEF PaymentBody
  <2>3. table[r] = [client |-> call[r].client, amount |-> n]
    BY <1>1, <1>2, <2>2 DEF Committed, RecordOf
  <2>4. Round(Delta(call[r])) = -n /\ Subject(call[r]) = call[r].client
    BY <1>2, <2>1, <2>2, DeltaType DEF Subject
  <2> QED
    BY <1>2, <2>2, <2>3, <2>4 DEF DepositedBy, DepositOf, RecordedBy, ChangeOf, Counts, Done
<1>3. CASE pc[r] = "ok" /\ call[r].op = "loan"
  <2>1. call[r] \in Body /\ call[r] \in LoanBody
    BY <1>1, <1>3, BodyType DEF Control
  <2>2. PICK n \in Int : n = Round(call[r].amount_uzs)
    BY <2>1, RoundType DEF LoanBody
  <2>3. table[r] = [creditor |-> call[r].creditor, type |-> call[r].type, amount_uzs |-> n]
    BY <1>1, <1>3, <2>2 DEF Committed, RecordOf
  <2>4. /\ Round(Delta(call[r])) = IF call[r].type = "receive" THEN n ELSE -n
        /\ Subject(call[r]) = call[r].creditor
    BY <1>3, <2>1, <2>2, DeltaType DEF Subject
  <2> QED
    BY <1>3, <2>2, <2>3, <2>4 DEF DepositedBy, DepositOf, RecordedBy, ChangeOf, Counts, Done
<1>4. CASE pc[r] = "ok" /\ call[r].op = "deposit"
  <2>1. call[r] \in Body /\ call[r] \in DepositBody
    BY <1>1, <1>4, BodyType DEF Control
  <2>2. PICK n \in Int : n = Round(call[r].amount)
    BY <2>1, RoundType DEF DepositBody
  <2>3. table[Entry(r)] = [amount |-> -n]
    BY <1>1, <1>4, <2>2 DEF Committed, EntryOf, Booked
  <2> QED
    BY <1>4, <2>2, <2>3 DEF DepositedBy, DepositOf, RecordedBy, ChangeOf, Counts, Done
<1>5. CASE ~(pc[r] = "ok" /\ call[r].op \in {"payment", "loan", "deposit"})
  BY <1>5 DEF DepositedBy, DepositOf, RecordedBy, ChangeOf, Counts, Done
<1> QED
  BY <1>2, <1>3, <1>4, <1>5

LEMMA NotDone ==
  ASSUME Inv, NEW r \in Req, Act(r)
  PROVE  /\ pc[r] # "ok"
         /\ \A q \in Req \ {r} : pc'[q] = pc[q] /\ call'[q] = call[q]
<1>1. pc[r] # "ok"
  BY DEF Act, Receive, Step, FindPerson, InsertPayment, InsertLoan, UpdateDebt, BookSafe,
         ListUnsettled, SettleNext, SettledAll, CommitTx, CreatePerson, PutPerson, Fail, InFlight
<1> QED
  BY <1>1, StepIsLocal DEF Inv

(* Each request adds to the sums once, when it succeeds.                   *)
LEMMA RecordedStep ==
  ASSUME Inv, Inv', NEW r \in Req, Act(r), NEW x \in Person
  PROVE  /\ Recorded(x) \in Int /\ ChangeOf(r, x)' \in Int
         /\ Recorded(x)' = Recorded(x) + ChangeOf(r, x)'
<1>1. PICK f, h : /\ f = [q \in Req |-> RecordedBy(q, x)]
                  /\ h = [q \in Req |-> RecordedBy(q, x)']
  OBVIOUS
<1>2. \A q \in Req : RecordedBy(q, x) = ChangeOf(q, x) /\ ChangeOf(q, x) \in Int
  BY Terms DEF TermsAgree
<1>3. \A q \in Req : RecordedBy(q, x)' = ChangeOf(q, x)' /\ ChangeOf(q, x)' \in Int
  <2>1. TermsAgree'
    BY Terms, PTL
  <2> QED
    BY <2>1 DEF TermsAgree
<1>4. \A q \in Req \ {r} : ChangeOf(q, x)' = ChangeOf(q, x)
  BY NotDone DEF ChangeOf, Counts, Done
<1>5. ChangeOf(r, x) = 0
  BY NotDone DEF ChangeOf, Counts, Done
<1>6. f \in [Req -> Int] /\ h \in [Req -> Int] /\ f[r] = 0 /\ h[r] = ChangeOf(r, x)'
  BY <1>1, <1>2, <1>3, <1>5
<1>7. \A q \in Req \ {r} : h[q] = f[q]
  BY <1>1, <1>2, <1>3, <1>4
<1>8. SumFunction(f) \in Int /\ SumFunction(h) = SumFunction(f) - f[r] + h[r]
  BY <1>6, <1>7, NamesAssumption, FunctionSumInt, SumChange
<1>9. Recorded(x) = SumFunction(f) /\ Recorded(x)' = SumFunction(h)
  BY <1>1 DEF Recorded, RecordedBy
<1> QED
  BY <1>3, <1>6, <1>8, <1>9

LEMMA DepositedStep ==
  ASSUME Inv, Inv', NEW r \in Req, Act(r)
  PROVE  /\ Deposited \in Int /\ DepositOf(r)' \in Int
         /\ Deposited' = Deposited + DepositOf(r)'
<1>1. PICK f, h : /\ f = [q \in Req |-> DepositedBy(q)]
                  /\ h = [q \in Req |-> DepositedBy(q)']
  OBVIOUS
<1>2. \A q \in Req : DepositedBy(q) = DepositOf(q) /\ DepositOf(q) \in Int
  BY Terms DEF TermsAgree
<1>3. \A q \in Req : DepositedBy(q)' = DepositOf(q)' /\ DepositOf(q)' \in Int
  <2>1. TermsAgree'
    BY Terms, PTL
  <2> QED
    BY <2>1 DEF TermsAgree
<1>4. \A q \in Req \ {r} : DepositOf(q)' = DepositOf(q)
  BY NotDone DEF DepositOf, Done
<1>5. DepositOf(r) = 0
  BY NotDone DEF DepositOf, Done
<1>6. f \in [Req -> Int] /\ h \in [Req -> Int] /\ f[r] = 0 /\ h[r] = DepositOf(r)'
  BY <1>1, <1>2, <1>3, <1>5
<1>7. \A q \in Req \ {r} : h[q] = f[q]
  BY <1>1, <1>2, <1>3, <1>4
<1>8. SumFunction(f) \in Int /\ SumFunction(h) = SumFunction(f) - f[r] + h[r]
  BY <1>6, <1>7, NamesAssumption, FunctionSumInt, SumChange
<1>9. Deposited = SumFunction(f) /\ Deposited' = SumFunction(h)
  BY <1>1 DEF Deposited, DepositedBy
<1> QED
  BY <1>3, <1>6, <1>8, <1>9

LEMMA HalvesStep ==
  ASSUME Inv, NEW r \in Req, Act(r), NEW x \in Person
  PROVE  /\ Cardinality(Halves(x)) \in Nat
         /\ Cardinality(Halves(x)') =
              IF Counts(r, x)' /\ IsHalf(Delta(call'[r])) THEN Cardinality(Halves(x)) + 1
                                                          ELSE Cardinality(Halves(x))
<1>1. IsFiniteSet(Halves(x)) /\ Cardinality(Halves(x)) \in Nat
  <2>1. Halves(x) \in SUBSET Req
    BY DEF Halves, Done
  <2> QED
    BY <2>1, NamesAssumption, FS_Subset, FS_CardinalityType
<1>2. \A q \in Req : q \in Halves(x) <=> Counts(q, x) /\ IsHalf(Delta(call[q]))
  BY DEF Halves, Counts, IsHalf, Done
<1>3. \A q \in Req : q \in Halves(x)' <=> Counts(q, x)' /\ IsHalf(Delta(call'[q]))
  BY DEF Halves, Counts, IsHalf, Done
<1>4. ~Counts(r, x) /\ \A q \in Req \ {r} : Counts(q, x)' <=> Counts(q, x)
  BY NotDone DEF Counts, Done
<1>5. Halves(x) \subseteq Req /\ Halves(x)' \subseteq Req
  BY DEF Halves, Done
<1>6. \A q \in Req \ {r} : q \in Halves(x)' <=> q \in Halves(x)
  BY <1>2, <1>3, <1>4, NotDone
<1>7. r \notin Halves(x)
  BY <1>2, <1>4
<1>8. CASE Counts(r, x)' /\ IsHalf(Delta(call'[r]))
  <2>1. Halves(x)' = Halves(x) \cup {r}
    BY <1>3, <1>5, <1>6, <1>7, <1>8
  <2> QED
    BY <1>1, <1>7, <1>8, <2>1, FS_AddElement
<1>9. CASE ~(Counts(r, x)' /\ IsHalf(Delta(call'[r])))
  <2>1. Halves(x)' = Halves(x)
    BY <1>3, <1>5, <1>6, <1>7, <1>9
  <2> QED
    BY <1>1, <1>9, <2>1
<1> QED
  BY <1>1, <1>8, <1>9

-----------------------------------------------------------------------------
(* The debts reconcile.                                                    *)

First(x) == IF InitRow[x] = NoRow THEN 0 ELSE InitRow[x].total_debt

\* DebtsReconcile for one person.
Near(x) ==
  table[x] # NoRow /\ table[x].live =>
    LET drift == table[x].total_debt - (First(x) + Recorded(x))
    IN -Cardinality(Halves(x)) <= drift /\ drift <= Cardinality(Halves(x))

LEMMA FirstType ==
  ASSUME NEW x \in Person
  PROVE  First(x) \in Int
<1>1. InitRow[x] \in PersonRow \cup {NoRow}
  BY InitRowAssumption, VersionOf DEF Rows
<1> QED
  BY <1>1 DEF First, PersonRow

(* The rounding of one more amount moves the drift by one at most.         *)
LEMMA NearCommit ==
  ASSUME Inv, Inv', NEW r \in Req, Credit(r), CommitTx(r), NEW x \in Person, Near(x),
         Counts(r, x)'
  PROVE  Near(x)'
<1>0. TypeOK /\ Control(r) /\ LiveHeld(r) /\ RowsOK /\ Act(r)
  BY RowsOfTypes DEF Inv, Act, Step
<1>1. pc[r] = "commit" /\ call'[r] = call[r]
  BY <1>0 DEF CommitTx, Leave
<1>2. call[r] \in Body /\ call[r].op \in {"payment", "loan"} /\ x = Subject(call[r])
  BY <1>0, <1>1 DEF Counts, Done, Control
<1>3. Credited(r)
  BY <1>1, <1>2 DEF Credited
<1>4. table'[x] = Seen(r, x)
  BY <1>0, CommitEffect, VersionOf DEF CommitTx
<1>5. CASE x \notin Locked(r)
  BY <1>2, <1>3, <1>4, <1>5 DEF Credit, Seen, StillLive, Near
<1>6. CASE x \in Locked(r)
  <2>1. /\ table[x] \in PersonRow /\ table[x].live
        /\ table'[x].total_debt = Plus(table[x].total_debt, Delta(call[r]))
    BY <1>0, <1>4, <1>6, DraftedPerson DEF Seen
  <2>2. PICK n \in Int, t \in Int : n = Delta(call[r]) /\ t = table[x].total_debt
    BY <1>2, <2>1, DeltaType DEF PersonRow
  <2>3. PICK p \in Int, d \in Int : p = Plus(t, n) /\ d = Round(n)
    BY <2>2, PlusIs
  <2>4. p - t - d \in -1 .. 1 /\ (~IsHalf(n) => p = t + d)
    BY <2>2, <2>3, PlusIs
  <2>5. table[x] # NoRow
    BY <2>1, NoRowAssumption
  <2>6. PICK s \in Int, i \in Int : s = Recorded(x) /\ i = First(x) /\ Recorded(x)' = s + d
    <3>1. ChangeOf(r, x)' = d
      BY <1>1, <2>2, <2>3 DEF ChangeOf, Counts
    <3> QED
      BY <1>0, <3>1, RecordedStep, FirstType
  <2>7. PICK k \in Nat : /\ k = Cardinality(Halves(x))
                         /\ Cardinality(Halves(x)') = IF IsHalf(n) THEN k + 1 ELSE k
    BY <1>0, <1>1, <2>2, HalvesStep
  <2>8. -k <= t - (i + s) /\ t - (i + s) <= k
    BY <2>1, <2>2, <2>5, <2>6, <2>7 DEF Near
  <2>9. /\ IsHalf(n) => -(k + 1) <= p - (i + (s + d)) /\ p - (i + (s + d)) <= k + 1
        /\ ~IsHalf(n) => -k <= p - (i + (s + d)) /\ p - (i + (s + d)) <= k
    BY <2>4, <2>8
  <2>10. table'[x].total_debt = p /\ First(x)' = i
    BY <2>1, <2>2, <2>3, <2>6 DEF First
  <2> QED
    BY <2>6, <2>7, <2>9, <2>10 DEF Near
<1> QED
  BY <1>5, <1>6

LEMMA NearCreate ==
  ASSUME Inv, Inv', NEW r \in Req, CreatePerson(r), \A q \in Req : Known(q),
         table'[call[r].person] = [total_debt |-> 0, live |-> TRUE]
  PROVE  Near(call[r].person)'
<1>0. TypeOK /\ Control(r) /\ Act(r)
  BY DEF Inv, Act, Step
<1>1. PICK x \in Person : x = call[r].person
  BY <1>0, BodyType DEF CreatePerson, Control, Ops
<1>2. x \in Fresh /\ table[x] = NoRow
  BY <1>0, <1>1 DEF CreatePerson, Control, Ops, Fresh, Inv, Unborn
<1>3. First(x) = 0
  BY <1>2, InitRowAssumption DEF First
<1>4. ASSUME NEW q \in Req PROVE ~Counts(q, x)
  <2>1. q \in Done("payment") \cup Done("loan") => call[q].op \in {"payment", "loan"}
    BY DEF Done
  <2> QED
    BY <1>2, <2>1 DEF Known, Counts
<1>5. ~Counts(r, x)'
  <2>1. call' = call /\ call[r].op = "create"
    BY <1>0 DEF CreatePerson, Leave, Control, Ops
  <2> QED
    BY <2>1 DEF Counts, Done
<1>6. Recorded(x) = 0
  <2>1. PICK f : f = [q \in Req |-> RecordedBy(q, x)]
    OBVIOUS
  <2>2. \A q \in Req : f[q] = 0
    BY <1>4, <2>1, Terms DEF TermsAgree, ChangeOf
  <2>3. SumFunction(f) = 0
    BY <2>1, <2>2, NamesAssumption, FunctionSumZero
  <2> QED
    BY <2>1, <2>3 DEF Recorded, RecordedBy
<1>7. Recorded(x)' = 0
  BY <1>0, <1>5, <1>6, RecordedStep DEF ChangeOf
<1>8. Cardinality(Halves(x)') \in Nat
  BY <1>0, <1>5, HalvesStep
<1>9. table'[x].total_debt = 0 /\ First(x)' = 0
  BY <1>1, <1>3 DEF First
<1>10. Near(x)'
  <2>1. PICK k \in Nat : k = Cardinality(Halves(x)')
    BY <1>8
  <2>2. -k <= 0 - (0 + 0) /\ 0 - (0 + 0) <= k
    OBVIOUS
  <2> QED
    BY <1>7, <1>9, <2>1, <2>2 DEF Near
<1>11. call' = call
  BY DEF CreatePerson, Leave
<1> QED
  BY <1>1, <1>10, <1>11

LEMMA NearStep ==
  ASSUME Inv, Inv', NEW r \in Req, Act(r), Credit(r), \A q \in Req : Known(q),
         NEW x \in Person, Near(x)
  PROVE  Near(x)'
<1>0. TypeOK /\ Control(r) /\ LiveHeld(r) /\ x \in Row
  BY VersionOf DEF Inv
<1>1. CASE Counts(r, x)'
  <2>1. CommitTx(r)
    <3>1. pc'[r] = "ok" /\ call'[r].op \in {"payment", "loan"}
      BY <1>1 DEF Counts, Done
    <3>2. pc[r] \in {"insert", "debt", "safe"} => After(call[r].op, pc[r]) # "ok"
      BY <1>0 DEF After, Control, Ops
    <3>3. CASE CreatePerson(r) \/ PutPerson(r)
      BY <1>0, <3>1, <3>3 DEF CreatePerson, PutPerson, Refuse, Leave, Goto, TypeOK, Control, Ops
    <3>4. CASE Receive(r)
      BY <1>0, <3>1, <3>4, BodyType DEF Receive, Goto, TypeOK
    <3> QED
      BY <1>0, <3>1, <3>2, <3>3, <3>4 DEF Act, Step, FindPerson, InsertPayment, InsertLoan,
         UpdateDebt, BookSafe, ListUnsettled, SettleNext, SettledAll, Fail, Refuse, Leave, Proceed,
         Goto, TypeOK
  <2> QED
    BY <1>1, <2>1, NearCommit
<1>2. CASE ~Counts(r, x)'
  <2>1. Recorded(x)' = Recorded(x) /\ Cardinality(Halves(x)') = Cardinality(Halves(x))
    <3>1. ChangeOf(r, x)' = 0
      BY <1>2 DEF ChangeOf
    <3> QED
      BY <1>2, <3>1, RecordedStep, HalvesStep
  <2>2. First(x)' = First(x)
    BY DEF First
  <2>3. ASSUME table'[x] = table[x] PROVE Near(x)'
    BY <2>1, <2>2, <2>3 DEF Near
  <2>4. CASE CommitTx(r) /\ table'[x] = Seen(r, x)
    <3>1. x \notin Locked(r)
      <4> SUFFICES ASSUME x \in Locked(r) PROVE FALSE
        OBVIOUS
      <4>1. Credited(r) /\ x = Subject(call[r])
        BY DEF Credit
      <4>2. pc'[r] = "ok" /\ call'[r] = call[r]
        BY <1>0, <2>4 DEF CommitTx, Leave, Goto, TypeOK
      <4> QED
        BY <1>2, <4>1, <4>2 DEF Credited, Counts, Done
    <3> QED
      BY <2>3, <2>4, <3>1 DEF Seen
  <2>5. CASE CreatePerson(r) /\ x = call[r].person
    <3>1. table'[call[r].person] = [total_debt |-> 0, live |-> TRUE]
      <4>1. call[r].person \in Person
        BY <1>0, <2>5, BodyType DEF CreatePerson, Control, Ops
      <4>2. call[r].person \in DOMAIN table
        BY <1>0, <4>1, VersionOf DEF TypeOK
      <4> QED
        BY <2>5, <4>2 DEF CreatePerson, Autocommit
    <3>2. call' = call
      BY <2>5 DEF CreatePerson, Leave
    <3> QED
      BY <2>5, <3>1, <3>2, NearCreate
  <2>6. CASE PutPerson(r) /\ x = Subject(call[r])
    <3>1. table'[x] = table[x] \/ table'[x] = [table[x] EXCEPT !.live = FALSE]
      BY <1>0, <2>6, PutEffect
    <3>2. CASE table'[x] = [table[x] EXCEPT !.live = FALSE] /\ table[x] # NoRow
      <4>1. table[x] \in PersonRow
        BY <1>0, <3>2, PersonType
      <4>2. ~table'[x].live
        BY <3>2, <4>1 DEF PersonRow
      <4> QED
        BY <4>2 DEF Near
    <3>3. CASE table[x] = NoRow
      <4>1. table'[x] = table[x]
        BY <1>0, <2>6, <3>3, TableStep DEF StillLive, PutPerson, Refuse, Rollback
      <4> QED
        BY <2>3, <4>1
    <3> QED
      BY <2>3, <3>1, <3>2, <3>3
  <2> QED
    BY <1>0, <2>3, <2>4, <2>5, <2>6, TableStep
<1> QED
  BY <1>1, <1>2

-----------------------------------------------------------------------------
(* What is settled is paid.                                                *)

SettledBy(d) == IF table[d].is_settled /\ ~InitRow[d].is_settled THEN table[d].amount ELSE 0

LEMMA SettledType ==
  TypeOK => [d \in OwnerDebt |-> SettledBy(d)] \in [OwnerDebt -> Nat]
BY DebtType DEF SettledBy

(* A deposit's commit settles what it held, at most, and all of it is paid.*)
LEMMA PaidCommit ==
  ASSUME Inv, Inv', NEW r \in Req, CommitTx(r), Settling(r), AtDebts(r), SettledIsPaid
  PROVE  SettledIsPaid'
<1>0. TypeOK /\ RowsOK /\ Control(r) /\ Act(r) /\ TypeOK'
  BY RowsOfTypes DEF Inv, Act, Step
<1>1. PICK f, g, h, k :
        /\ f = [d \in OwnerDebt |-> SettledBy(d)]
        /\ g = [d \in OwnerDebt |-> IF d \in Locked(r) THEN table[d].amount ELSE 0]
        /\ h = [d \in OwnerDebt |-> SettledBy(d)']
        /\ k = [d \in OwnerDebt |-> f[d] + g[d]]
  OBVIOUS
<1>2. /\ IsFiniteSet(OwnerDebt) /\ f \in [OwnerDebt -> Int] /\ g \in [OwnerDebt -> Int]
      /\ \A d \in OwnerDebt : f[d] \in Nat /\ g[d] \in Nat
  BY <1>0, <1>1, HeldType, SettledType
<1>3. h \in [OwnerDebt -> Int]
  <2>1. ([d \in OwnerDebt |-> SettledBy(d)] \in [OwnerDebt -> Nat])'
    BY <1>0, SettledType, PTL
  <2> QED
    BY <1>1, <2>1
<1>4. ASSUME NEW d \in OwnerDebt PROVE h[d] <= k[d]
  <2>1. table'[d] = Seen(r, d)
    BY <1>0, CommitEffect, VersionOf DEF CommitTx
  <2>2. PICK a \in Nat : a = table[d].amount /\ table[d] \in OwnerDebtRow
    BY <1>0, DebtType
  <2>3. CASE d \in Locked(r)
    <3>1. table'[d] = [table[d] EXCEPT !.is_settled = TRUE]
      BY <2>1, <2>3 DEF Settling, Seen
    <3>2. table'[d].amount = a
      BY <2>2, <3>1 DEF OwnerDebtRow
    <3>3. h[d] \in {0, a}
      BY <1>1, <3>2 DEF SettledBy
    <3>4. k[d] = f[d] + a
      BY <1>1, <2>2, <2>3
    <3> QED
      BY <1>2, <3>3, <3>4
  <2>4. CASE d \notin Locked(r)
    <3>1. table'[d] = table[d]
      BY <2>1, <2>4 DEF Seen
    <3>2. h[d] = f[d] /\ k[d] = f[d] + 0
      BY <1>1, <2>4, <3>1 DEF SettledBy
    <3> QED
      BY <1>2, <3>2
  <2> QED
    BY <2>3, <2>4
<1>5. k \in [OwnerDebt -> Int]
  BY <1>1, <1>2
<1>6. SumFunction(h) <= SumFunction(k) /\ SumFunction(k) = SumFunction(f) + SumFunction(g)
  <2>1. DOMAIN k = OwnerDebt /\ \A d \in OwnerDebt : k[d] = f[d] + g[d]
    BY <1>1
  <2> QED
    BY <1>2, <1>3, <1>4, <1>5, <2>1, SumMonotone, SumPlus
<1>7. SumFunction(f) = Settled /\ SumFunction(h) = Settled' /\ SumFunction(g) = Held(r)
  BY <1>1 DEF Settled, SettledBy, Held
<1>8. Settled \in Int /\ Settled' \in Int /\ Held(r) \in Nat
  BY <1>0, <1>2, <1>3, <1>7, FunctionSumInt, HeldType
<1>9. Held(r) <= DepositOf(r)'
  <2>1. call[r] \in Body /\ call[r].op = "deposit" /\ pc[r] = "commit"
    BY <1>0 DEF AtDebts, Control, Ops, CommitTx
  <2>2. PICK n \in Nat : n = call[r].amount
    BY <2>1, BodyType DEF DepositBody
  <2>3. Parts * Held(r) + remaining[r] <= n /\ remaining[r] \in Nat
    BY <1>0, <2>2 DEF Settling, TypeOK
  <2>4. Parts * Held(r) \in Nat
    BY <1>8, PartsAssumption
  <2>5. Parts * Held(r) <= n
    BY <2>2, <2>3, <2>4
  <2>6. Held(r) <= Round(n)
    BY <1>8, <2>2, <2>5, RoundCovers
  <2>7. pc'[r] = "ok" /\ call'[r] = call[r]
    BY <1>0 DEF CommitTx, Leave, Goto, TypeOK
  <2> QED
    BY <2>1, <2>2, <2>6, <2>7 DEF DepositOf, Done
<1>10. Deposited \in Int /\ DepositOf(r)' \in Int /\ Deposited' = Deposited + DepositOf(r)'
  BY <1>0, DepositedStep
<1>11. Settled <= Deposited
  BY DEF SettledIsPaid
<1>12. Settled' <= Deposited'
  BY <1>6, <1>7, <1>8, <1>9, <1>10, <1>11
<1> QED
  BY <1>12 DEF SettledIsPaid

(* No other step settles a debt or takes a deposit back.                   *)
LEMMA PaidStep ==
  ASSUME Inv, Inv', NEW r \in Req, Act(r), Settling(r), SettledIsPaid
  PROVE  SettledIsPaid'
<1>0. TypeOK /\ Control(r)
  BY DEF Inv
<1>1. CASE CommitTx(r) /\ AtDebts(r)
  BY <1>1, PaidCommit
<1>2. CASE ~(CommitTx(r) /\ AtDebts(r))
  <2>1. ASSUME NEW d \in OwnerDebt PROVE table'[d] = table[d]
    <3>1. d \in Row /\ d \notin Person
      BY VersionOf, NamesAssumption
    <3>2. CommitTx(r) => d \notin Locked(r)
      BY <1>2 DEF Settling
    <3> QED
      BY <1>0, <3>1, <3>2, TableStep DEF Seen
  <2>2. \A d \in OwnerDebt : SettledBy(d)' = SettledBy(d)
    BY <2>1 DEF SettledBy
  <2>3. PICK f, h : /\ f = [d \in OwnerDebt |-> SettledBy(d)]
                    /\ h = [d \in OwnerDebt |-> SettledBy(d)']
    OBVIOUS
  <2>4. f = h
    BY <2>2, <2>3
  <2>5. Settled = SumFunction(f) /\ Settled' = SumFunction(h)
    BY <2>3 DEF Settled, SettledBy
  <2>6. Settled' = Settled /\ Settled \in Int
    <3>1. f \in [OwnerDebt -> Nat] /\ IsFiniteSet(OwnerDebt)
      BY <1>0, <2>3, SettledType, HeldType
    <3> QED
      BY <2>4, <2>5, <3>1, FunctionSumNat
  <2>7. DepositOf(r)' \in Nat
    <3>1. Control(r)'
      BY DEF Inv
    <3>2. pc'[r] = "ok" /\ call'[r].op = "deposit" => call'[r].amount \in Nat
      BY <3>1, BodyType DEF Control, DepositBody
    <3> QED
      BY <3>2, RoundType DEF DepositOf, Done
  <2>8. Deposited \in Int /\ Deposited' = Deposited + DepositOf(r)'
    BY DepositedStep
  <2>9. Settled <= Deposited
    BY DEF SettledIsPaid
  <2>10. Settled' <= Deposited'
    BY <2>6, <2>7, <2>8, <2>9
  <2> QED
    BY <2>10 DEF SettledIsPaid
<1> QED
  BY <1>1, <1>2

-----------------------------------------------------------------------------
(* The accounts are kept.                                                  *)

AllNear == \A x \in Person : Near(x)

LEMMA DebtsNear == DebtsReconcile <=> AllNear
BY DEF DebtsReconcile, AllNear, Near, First

LEMMA AccountsInit == Init => Accounts
<1> SUFFICES ASSUME Init PROVE Accounts
  OBVIOUS
<1>0. Inv
  BY InvInit
<1>1. TypeOK /\ \A r \in Req : pc[r] = "idle" /\ call[r] = NoCall /\ Locked(r) = {}
  BY <1>0 DEF Init, Inv, Locked, NoDraft
<1>2. \A r \in Req : Credit(r) /\ Known(r) /\ Settling(r)
  BY <1>1 DEF Credit, Credited, Known, Settling, AtDebts, NoCall
<1>3. SettledIsPaid
  <2>1. PICK f, h : f = [d \in OwnerDebt |-> SettledBy(d)] /\ h = [r \in Req |-> DepositedBy(r)]
    OBVIOUS
  <2>2. DOMAIN f = OwnerDebt /\ \A d \in OwnerDebt : f[d] = 0
    BY <2>1 DEF SettledBy, Init
  <2>3. DOMAIN h = Req /\ \A r \in Req : h[r] = 0
    BY <1>1, <2>1 DEF DepositedBy, Done
  <2>4. IsFiniteSet(OwnerDebt) /\ IsFiniteSet(Req)
    BY DebtsFinite, NamesAssumption
  <2>5. SumFunction(f) = 0 /\ SumFunction(h) = 0
    BY <2>2, <2>3, <2>4, FunctionSumZero
  <2>6. Settled = SumFunction(f) /\ Deposited = SumFunction(h)
    BY <2>1 DEF Settled, SettledBy, Deposited, DepositedBy
  <2>7. Settled = 0 /\ Deposited = 0
    BY <2>5, <2>6
  <2> QED
    BY <2>7 DEF SettledIsPaid
<1>4. ASSUME NEW x \in Person PROVE Near(x)
  <2>1. \A r \in Req : RecordedBy(r, x) = 0
    BY <1>1 DEF RecordedBy, Done
  <2>2. Recorded(x) = 0
    <3>1. PICK f : f = [r \in Req |-> RecordedBy(r, x)]
      OBVIOUS
    <3>2. SumFunction(f) = 0
      BY <2>1, <3>1, NamesAssumption, FunctionSumZero
    <3> QED
      BY <3>1, <3>2 DEF Recorded, RecordedBy
  <2>3. Halves(x) = {}
    BY <1>1 DEF Halves, Done
  <2>4. Cardinality(Halves(x)) = 0
    BY <2>3, FS_EmptySet
  <2>5. table[x] # NoRow => table[x].total_debt = First(x) /\ First(x) \in Int
    BY FirstType DEF First, Init
  <2> QED
    BY <2>2, <2>4, <2>5 DEF Near
<1> QED
  BY <1>2, <1>3, <1>4, DebtsNear DEF Accounts, AllNear

LEMMA AccountsStep == Inv /\ Inv' /\ Accounts /\ [Next]_vars => Accounts'
<1> SUFFICES ASSUME Inv, Inv', Accounts, [Next]_vars PROVE Accounts'
  OBVIOUS
<1>1. CASE UNCHANGED vars
  <2>1. SettledIsPaid' <=> SettledIsPaid
    BY <1>1 DEF vars, locals, SettledIsPaid, Settled, Deposited, Done
  <2>2. DebtsReconcile' <=> DebtsReconcile
    BY <1>1 DEF vars, locals, DebtsReconcile, Recorded, Halves, Done
  <2>3. ASSUME NEW r \in Req
        PROVE  (Credit(r)' <=> Credit(r)) /\ (Known(r)' <=> Known(r))
    BY <1>1 DEF vars, locals, Credit, Credited, Known, Locked, StillLive
  <2>4. ASSUME NEW r \in Req PROVE Settling(r)' <=> Settling(r)
    BY <1>1 DEF vars, locals, Settling, AtDebts, Held, Locked
  <2> QED
    BY <2>1, <2>2, <2>3, <2>4 DEF Accounts
<1>2. ASSUME NEW r \in Req, Act(r) PROVE Accounts'
  <2>1. Credit(r) /\ Known(r) /\ Settling(r) /\ SettledIsPaid /\ Quiet(r)'
    BY DEF Accounts, Inv
  <2>2. \A x \in Person : Near(x)
    BY DebtsNear DEF Accounts, AllNear
  <2>3. \A q \in Req : Known(q)
    BY DEF Accounts
  <2>4. ASSUME NEW q \in Req PROVE Credit(q)' /\ Known(q)' /\ Settling(q)'
    <3>1. CASE q = r
      BY <1>2, <2>1, <3>1, CreditStep, KnownStep, SettlingStep
    <3>2. CASE q # r
      BY <1>2, <2>1, <3>2, OthersCredit, OthersSettling DEF Accounts
    <3> QED
      BY <3>1, <3>2
  <2>5. SettledIsPaid'
    BY <1>2, <2>1, PaidStep
  <2>6. DebtsReconcile'
    <3>1. AllNear'
      BY <1>2, <2>1, <2>2, <2>3, NearStep DEF AllNear
    <3>2. DebtsReconcile' <=> AllNear'
      BY DebtsNear, PTL
    <3> QED
      BY <3>1, <3>2
  <2> QED
    BY <2>4, <2>5, <2>6 DEF Accounts
<1> QED
  BY <1>1, <1>2 DEF Next, Act

LEMMA BooksAreKept == Spec => [](Inv /\ Accounts)
BY Invariance, AccountsInit, AccountsStep, PTL DEF Spec

(* The running total of a client or a creditor who is not deleted is what  *)
(* his payments and loans make of what it was at first, but for a unit at  *)
(* most for each amount that ends in half a unit, whatever the number of   *)
(* requests that change it side by side, and no update is lost.            *)
THEOREM DebtsAlwaysReconcile == Spec => []DebtsReconcile
<1>1. Accounts => DebtsReconcile
  BY DEF Accounts
<1> QED
  BY <1>1, BooksAreKept, PTL

(* Whatever deposits run side by side, the debts they have settled come to *)
(* no more than the cash they took from the safe.                          *)
THEOREM SettledAlwaysPaid == Spec => []SettledIsPaid
<1>1. Accounts => SettledIsPaid
  BY DEF Accounts
<1> QED
  BY <1>1, BooksAreKept, PTL
=============================================================================
