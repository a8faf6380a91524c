---------------------------- MODULE Sales_proofs ----------------------------
(***************************************************************************)
(* Safety of Sales for every set of requests, products and bodies: types,  *)
(* row locks, no oversell and the implementation of Stock, from the        *)
(* invariant Inv; then, from the invariant Books on top of it, that stock  *)
(* and debts always reconcile with the sales, that a shift is booked once  *)
(* and that a closed shift never changes.                                  *)
(***************************************************************************)
EXTENDS Sales, Sums_proofs

(***************************************************************************)
(* The inductive invariant. Control says what a request knows at each of   *)
(* its statements, Exclusive that a row is locked by one transaction at a  *)
(* time, Quiet that a request outside its transaction holds nothing, and   *)
(* Ledger that a locked product differs from its committed version by      *)
(* exactly what the transaction has moved.                                 *)
(***************************************************************************)
Control(r) ==
  /\ pc[r] # "idle" => call[r] \in Body
  /\ pc[r] \in {"lock", "write"} => call[r].op \in {"create", "delete"} /\ todo[r] # <<>>
  /\ pc[r] = "write" => /\ Head(todo[r]).product \in Locked(r)
                        /\ product[r] = draft[r][Head(todo[r]).product]
  /\ pc[r] = "insert" => call[r].op = "create"
  /\ pc[r] \in {"get", "status", "returns", "items", "remove"} => call[r].op = "delete"
  /\ pc[r] = "debt" => call[r].op \in {"create", "delete"}
  /\ pc[r] \in {"lock", "write", "insert"} /\ call[r].op = "create" => shift[r] \in Id
  /\ pc[r] \in {"aggregate", "close"} => shift[r] \in Id
  /\ pc[r] \in {"status", "returns", "items", "debt", "remove"} => sale[r] \in SaleRow
  /\ pc[r] \in {"lock", "write"} /\ call[r].op = "delete" => sale[r] \in SaleRow

\* What of it the items rest on: the product r writes is locked, and as r has read it.
Holding(r) ==
  /\ pc[r] \in {"lock", "write"} => todo[r] # <<>>
  /\ pc[r] = "write" => /\ Head(todo[r]).product \in Locked(r)
                        /\ product[r] = draft[r][Head(todo[r]).product]

Exclusive == \A q, r \in Req : q # r => Locked(q) \cap Locked(r) = {}

Outside == {"idle", "current", "open", "get", "status", "returns", "items", "aggregate",
            "close", "ok", "failed"}

Quiet(r) == pc[r] \in Outside => draft[r] = NoDraft

\* Version w of a product is version v plus movement m.
IsMoved(v, m, w) ==
  /\ w.shop = v.shop + m.shop
  /\ w.warehouse = v.warehouse + m.warehouse

NoMove == [shop |-> 0, warehouse |-> 0]

Ledger(r) ==
  \A p \in Product :
    IF p \in Locked(r)
      THEN IsMoved(table[p], moved[r][p], draft[r][p])
      ELSE pc[r] # "ok" => moved[r][p] = NoMove

\* TypeOK, whatever the statements and the bodies are: SaleReturns adds its own.
Typed ==
  /\ RowsOK
  /\ product \in [Req -> ProductRow \cup {NoRow}]
  /\ moved \in [Req -> [Product -> Movement]]
  /\ pc = [r \in Req |-> pc[r]]
  /\ call = [r \in Req |-> call[r]]
  /\ shift \in [Req -> Id \cup {NoRow}]
  /\ sale \in [Req -> SaleRow \cup {NoRow}]
  /\ todo \in [Req -> Seq(Item)]
  /\ totals \in [Req -> Totals]

Inv ==
  /\ TypeOK
  /\ Exclusive
  /\ NoOversell
  /\ \A r \in Req : Control(r) /\ Quiet(r) /\ Ledger(r)

LEMMA TypedOK == TypeOK => Typed
BY DEF TypeOK, Typed

LEMMA HoldingOf ==
  ASSUME NEW r, Control(r)
  PROVE  Holding(r)
BY DEF Control, Holding

-----------------------------------------------------------------------------
(* The database operations.                                                *)

LEMMA SeenType ==
  ASSUME RowsOK, NEW r \in Req, NEW x \in Row
  PROVE  Seen(r, x) \in Version(x)
BY DEF RowsOK, Rows, Seen, Locked

(* Only the draft of r changes when r writes, and it gets the new versions. *)
LEMMA WriteEffect ==
  ASSUME RowsOK, NEW r \in Req, NEW new, Write(r, new)
  PROVE  /\ table' = table
         /\ draft' = [q \in Req |-> draft'[q]]
         /\ \A q \in Req \ {r} : draft'[q] = draft[q]
         /\ Locked(r)' = Locked(r) \cup DOMAIN new
         /\ \A x \in Locked(r)' :
              draft'[r][x] = IF x \in DOMAIN new THEN new[x] ELSE draft[r][x]
         /\ draft'[r] = [x \in Locked(r)' |-> draft'[r][x]]
BY DEF RowsOK, Write, Locked

LEMMA WriteTypes ==
  ASSUME RowsOK, NEW r \in Req, NEW new, Rows(new), Write(r, new)
  PROVE  RowsOK'
<1>1. Rows(draft'[r])
  BY WriteEffect DEF RowsOK, Rows, Locked
<1>2. QED
  BY <1>1, WriteEffect DEF RowsOK

(* SELECT ... FOR UPDATE adds the row to what r holds, at the version seen. *)
LEMMA LockRowEffect ==
  ASSUME RowsOK, NEW r \in Req, NEW p, LockRow(r, p)
  PROVE  /\ table' = table
         /\ Locked(r)' = Locked(r) \cup {p}
         /\ draft'[r][p] = Seen(r, p)
         /\ \A x \in Locked(r) : draft'[r][x] = draft[r][x]
<1>1. Write(r, [y \in {p} |-> Seen(r, y)])
  BY DEF LockRow
<1>2. /\ table' = table
      /\ Locked(r)' = Locked(r) \cup {p}
      /\ \A x \in Locked(r)' : draft'[r][x] = IF x \in {p} THEN Seen(r, x) ELSE draft[r][x]
  BY <1>1 DEF Write, RowsOK, Locked
<1>3. QED
  BY <1>2 DEF Seen

(* A row that another transaction holds cannot be written.                 *)
LEMMA WriteExclusive ==
  ASSUME RowsOK, Exclusive, NEW r \in Req, NEW new, Write(r, new)
  PROVE  Exclusive'
<1>1. \A x \in DOMAIN new : \A q \in Req \ {r} : x \notin Locked(q)
  BY DEF Write, Free
<1>2. \A q \in Req \ {r} : Locked(q)' = Locked(q)
  BY WriteEffect DEF Locked
<1>3. Locked(r)' = Locked(r) \cup DOMAIN new
  BY WriteEffect
<1>4. ASSUME NEW q \in Req \ {r} PROVE Locked(q)' \cap Locked(r)' = {}
  BY <1>1, <1>2, <1>3 DEF Exclusive
<1>5. ASSUME NEW q \in Req \ {r}, NEW w \in Req \ {r}, q # w
      PROVE  Locked(q)' \cap Locked(w)' = {}
  BY <1>2, <1>5 DEF Exclusive
<1>6. QED
  BY <1>4, <1>5 DEF Exclusive

LEMMA RollbackEffect ==
  ASSUME RowsOK, NEW r \in Req, Rollback(r)
  PROVE  /\ table' = table
         /\ draft' = [q \in Req |-> draft'[q]]
         /\ \A q \in Req \ {r} : draft'[q] = draft[q]
         /\ draft'[r] = NoDraft
         /\ Locked(r)' = {}
BY DEF RowsOK, Rollback, Locked, NoDraft

LEMMA CommitEffect ==
  ASSUME RowsOK, NEW r \in Req, Commit(r)
  PROVE  /\ table' = [x \in Row |-> Seen(r, x)]
         /\ draft' = [q \in Req |-> draft'[q]]
         /\ \A q \in Req \ {r} : draft'[q] = draft[q]
         /\ draft'[r] = NoDraft
         /\ Locked(r)' = {}
BY DEF RowsOK, Commit, Locked, NoDraft

LEMMA NoDraftRows == Rows(NoDraft)
BY DEF Rows, NoDraft

LEMMA RollbackTypes ==
  ASSUME RowsOK, NEW r \in Req, Rollback(r)
  PROVE  RowsOK'
BY RollbackEffect, NoDraftRows DEF RowsOK

LEMMA CommitTypes ==
  ASSUME RowsOK, NEW r \in Req, Commit(r)
  PROVE  RowsOK'
<1>1. Rows(table') /\ DOMAIN table' = Row
  BY CommitEffect, SeenType DEF RowsOK, Rows
<1>2. QED
  BY <1>1, CommitEffect, NoDraftRows DEF RowsOK

LEMMA AutocommitTypes ==
  ASSUME RowsOK, NEW r \in Req, NEW x \in Row, NEW new \in Version(x), Autocommit(r, x, new)
  PROVE  RowsOK'
BY DEF Autocommit, RowsOK, Rows

-----------------------------------------------------------------------------
(* The versions a row may have, by the kind of its name.                   *)

LEMMA VersionOf ==
  /\ \A p \in Product : p \in Row /\ Version(p) = ProductRow
  /\ \A c \in Client : c \in Row /\ Version(c) = ClientRow
  /\ \A x \in Id : x \in Row /\ Version(x) = IdRow
BY NamesAssumption DEF Version, Row

LEMMA KindType ==
  ASSUME RowsOK, NEW x \in Id
  PROVE  /\ table[x] \in IdRow
         /\ Kind(x, "sale") => table[x] \in SaleRow
         /\ Kind(x, "shift") => table[x] \in ShiftRow
<1>1. table[x] \in IdRow
  BY VersionOf DEF RowsOK, Rows
<1>2. QED
  BY <1>1 DEF Kind, KindIn, IdRow, PaperRow, SaleRow, ShiftRow, BookingRow, ReturnRow

LEMMA BodyType ==
  ASSUME NEW b \in Body
  PROVE  /\ b.op \in {"create", "delete", "open", "close"}
         /\ b.op = "create" => b \in CreateBody
         /\ b.op = "delete" => b \in DeleteBody
BY BodyAssumption DEF CreateBody, DeleteBody, ShiftBody

(* A handler that returns leaves its variables at the values they start    *)
(* with.                                                                   *)
LEMMA LeaveTypes ==
  ASSUME Typed, NEW r \in Req, NEW outcome \in {"ok", "failed"}, Leave(r, outcome)
  PROVE  /\ product' \in [Req -> ProductRow \cup {NoRow}]
         /\ pc' = [q \in Req |-> pc'[q]]
         /\ call' = [q \in Req |-> call'[q]]
         /\ shift' \in [Req -> Id \cup {NoRow}]
         /\ sale' \in [Req -> SaleRow \cup {NoRow}]
         /\ todo' \in [Req -> Seq(Item)]
         /\ totals' \in [Req -> Totals]
<1>1. NoTotals \in Totals /\ <<>> \in Seq(Item)
  BY DEF NoTotals, Totals
<1>2. QED
  BY <1>1 DEF Typed, Leave, Goto, Statement

LEMMA RefuseTypes ==
  ASSUME Typed, NEW r \in Req, Refuse(r)
  PROVE  Typed'
<1>1. RowsOK'
  BY RollbackTypes DEF Typed, Refuse
<1>2. Still \in [Product -> Movement]
  BY DEF Still, Movement
<1>3. QED
  BY <1>1, <1>2, LeaveTypes DEF Typed, Refuse

-----------------------------------------------------------------------------
(* Types.                                                                  *)

LEMMA CurrentOpenType ==
  CurrentOpen \subseteq OpenShifts /\ OpenShifts \subseteq Id /\ Shifts \subseteq Id
BY DEF CurrentOpen, OpenShifts, Shifts

\* The parts of an update: the row written and the movement recorded.
LEMMA UpdateStockTypes ==
  ASSUME Typed, NEW r \in Req, NEW p \in Product, NEW n \in Int, NEW m \in Int,
         product[r] \in ProductRow, UpdateStock(r, p, n, m)
  PROVE  RowsOK' /\ moved' \in [Req -> [Product -> Movement]]
<1>1. Rows([x \in {p} |-> [Seen(r, p) EXCEPT !.shop = n, !.warehouse = m]])
  <2>1. Seen(r, p) \in ProductRow
    BY SeenType, VersionOf DEF Typed
  <2>2. [Seen(r, p) EXCEPT !.shop = n, !.warehouse = m] \in ProductRow
    BY <2>1 DEF ProductRow
  <2>3. QED
    BY <2>2, VersionOf DEF Rows
<1>2. RowsOK'
  BY <1>1, WriteTypes DEF UpdateStock, Typed
<1>3. moved[r][p] \in Movement
  BY DEF Typed
<1>4. [shop |-> moved[r][p].shop + n - product[r].shop,
       warehouse |-> moved[r][p].warehouse + m - product[r].warehouse] \in Movement
  BY <1>3 DEF Movement, ProductRow
<1>5. moved' \in [Req -> [Product -> Movement]]
  <2> DEFINE d == [shop |-> moved[r][p].shop + n - product[r].shop,
                   warehouse |-> moved[r][p].warehouse + m - product[r].warehouse]
  <2>1. moved' = [moved EXCEPT ![r][p] = d]
    BY DEF UpdateStock
  <2>2. d \in Movement
    BY <1>4
  <2> HIDE DEF d
  <2>3. [moved[r] EXCEPT ![p] = d] \in [Product -> Movement]
    BY <2>2 DEF Typed
  <2>4. QED
    BY <2>1, <2>3 DEF Typed
<1>6. QED
  BY <1>2, <1>5

LEMMA TodoType ==
  ASSUME Typed, NEW r \in Req, todo[r] # <<>>
  PROVE  /\ Head(todo[r]) \in Item /\ Head(todo[r]).product \in Product
         /\ Head(todo[r]).quantity \in Nat
         /\ Tail(todo[r]) \in Seq(Item)
<1>1. todo[r] \in Seq(Item)
  BY DEF Typed
<1>2. Head(todo[r]) \in Item /\ Tail(todo[r]) \in Seq(Item)
  BY <1>1
<1>3. QED
  BY <1>2 DEF Item

(* While a request is writing a product, the row it has read is a product. *)
LEMMA ProductType ==
  ASSUME Typed, NEW r \in Req, Holding(r), pc[r] = "write"
  PROVE  product[r] \in ProductRow /\ todo[r] # <<>>
<1>1. todo[r] # <<>> /\ Head(todo[r]).product \in Locked(r)
  BY DEF Holding
<1>2. Head(todo[r]).product \in Product
  BY <1>1, TodoType
<1>3. draft[r][Head(todo[r]).product] \in ProductRow
  BY <1>1, <1>2, VersionOf DEF Typed, RowsOK, Rows, Locked
<1>4. QED
  BY <1>1, <1>3 DEF Holding

LEMMA AfterItemsType ==
  ASSUME NEW r, NEW rest
  PROVE  AfterItems(r, rest) \in {"lock", "insert", "debt", "remove"}
BY DEF AfterItems

(* FOR UPDATE locks a row as it is.                                        *)
LEMMA LockItemTypes ==
  ASSUME Typed, NEW r \in Req, Holding(r), LockItem(r)
  PROVE  Typed'
<1> USE DEF Goto, locals
<1> DEFINE p == Head(todo[r]).product
<1>1. p \in Product
  BY TodoType DEF LockItem, Holding
<1>2. Seen(r, p) \in ProductRow
  BY <1>1, SeenType, VersionOf DEF Typed
<1>3. Rows([y \in {p} |-> Seen(r, y)])
  BY <1>1, <1>2, VersionOf DEF Rows
<1>4. CASE GetByIDForUpdate(r, p) /\ Goto(r, "write") /\ UNCHANGED <<moved, locals>>
  <2>1. RowsOK'
    BY <1>3, <1>4, WriteTypes DEF GetByIDForUpdate, LockRow, Typed
  <2>2. QED
    BY <1>2, <1>4, <2>1 DEF GetByIDForUpdate, Typed, Statement
<1>5. CASE Refuse(r)
  BY <1>5, RefuseTypes
<1>6. QED
  BY <1>4, <1>5 DEF LockItem

LEMMA TypeStep ==
  ASSUME Typed, NEW r \in Req, Control(r), Receive(r) \/ Step(r) \/ Fail(r)
  PROVE  Typed'
<1> USE DEF Goto, locals, goods, db
<1>1. CASE Receive(r)
  BY <1>1 DEF Receive, Typed, RowsOK, Locked, Statement
<1>2. CASE GetCurrentOpen(r)
  <2>1. CASE \E s \in CurrentOpen :
               /\ call[r].op \in {"create", "close"}
               /\ shift' = [shift EXCEPT ![r] = s]
               /\ IF call[r].op = "create"
                    THEN todo' = [todo EXCEPT ![r] = call[r].items] /\ Goto(r, "lock")
                    ELSE Goto(r, "aggregate") /\ UNCHANGED todo
               /\ UNCHANGED <<db, goods, call, sale, totals>>
    <3>1. call[r] \in Body
      BY <1>2 DEF GetCurrentOpen, Control
    <3>2. call[r].op = "create" => call[r].items \in Seq(Item)
      BY <3>1, BodyType DEF CreateBody
    <3>3. QED
      BY <2>1, <3>2, CurrentOpenType DEF Typed, RowsOK, Locked, Statement
  <2>2. CASE /\ OpenShifts = {}
             /\ call[r].op = "open"
             /\ Goto(r, "open")
             /\ UNCHANGED <<db, goods, locals>>
    BY <2>2 DEF Typed, RowsOK, Locked, Statement
  <2>3. CASE Refuse(r)
    BY <2>3, RefuseTypes
  <2>4. QED
    BY <1>2, <2>1, <2>2, <2>3 DEF GetCurrentOpen
<1>3. CASE OpenShift(r)
  <2> DEFINE new == [kind |-> "shift", status |-> "open",
                     rank |-> Cardinality(Shifts), totals |-> NoTotals]
  <2>1. Cardinality(Shifts) \in Nat
    BY CurrentOpenType, NamesAssumption, FS_Subset, FS_CardinalityType
  <2>2. new \in ShiftRow
    BY <2>1 DEF ShiftRow, Totals, NoTotals
  <2>3. r \in Row /\ new \in Version(r)
    BY <2>2, VersionOf DEF Id, IdRow, PaperRow
  <2>4. Autocommit(r, r, new)
    BY <1>3 DEF OpenShift
  <2> HIDE DEF new
  <2>5. RowsOK'
    BY <2>3, <2>4, AutocommitTypes DEF Typed
  <2>6. QED
    BY <1>3, <2>5, LeaveTypes DEF OpenShift, Typed
<1>4. CASE LockItem(r)
  BY <1>4, LockItemTypes, HoldingOf
<1>5. CASE DeductItem(r)
  <2> DEFINE item == Head(todo[r])
  <2>1. product[r] \in ProductRow /\ todo[r] # <<>>
    BY <1>5, ProductType, HoldingOf DEF DeductItem
  <2>2. item.product \in Product /\ item.quantity \in Nat /\ Tail(todo[r]) \in Seq(Item)
    BY <2>1, TodoType
  <2>3. CASE /\ UpdateStock(r, item.product, product[r].shop - item.quantity,
                            product[r].warehouse)
             /\ todo' = [todo EXCEPT ![r] = Tail(@)]
             /\ Goto(r, AfterItems(r, Tail(todo[r])))
             /\ UNCHANGED <<product, call, shift, sale, totals>>
    <3>1. product[r].shop - item.quantity \in Int /\ product[r].warehouse \in Int
      BY <2>1, <2>2 DEF ProductRow
    <3>2. RowsOK' /\ moved' \in [Req -> [Product -> Movement]]
      BY <2>1, <2>2, <2>3, <3>1, UpdateStockTypes
    <3>3. QED
      BY <2>2, <2>3, <3>2, AfterItemsType DEF Typed, Statement
  <2>4. CASE Refuse(r)
    BY <2>4, RefuseTypes
  <2>5. QED
    BY <1>5, <2>3, <2>4 DEF DeductItem
<1>6. CASE RestoreItem(r)
  <2> DEFINE item == Head(todo[r])
  <2>1. product[r] \in ProductRow /\ todo[r] # <<>>
    BY <1>6, ProductType, HoldingOf DEF RestoreItem
  <2>2. item.product \in Product /\ item.quantity \in Nat /\ Tail(todo[r]) \in Seq(Item)
    BY <2>1, TodoType
  <2>3. product[r].shop + item.quantity \in Int /\ product[r].warehouse \in Int
    BY <2>1, <2>2 DEF ProductRow
  <2>4. RowsOK' /\ moved' \in [Req -> [Product -> Movement]]
    BY <1>6, <2>1, <2>2, <2>3, UpdateStockTypes DEF RestoreItem
  <2>5. QED
    BY <1>6, <2>2, <2>4, AfterItemsType DEF RestoreItem, Typed, Statement
<1>7. CASE InsertSale(r)
  <2> DEFINE new == [kind |-> "sale", shift |-> shift[r], items |-> call[r].items,
                     paid |-> call[r].paid, owed |-> call[r].owed, client |-> call[r].client]
  <2>1. call[r] \in CreateBody /\ shift[r] \in Id
    BY <1>7, BodyType DEF InsertSale, Control
  <2>2. new \in SaleRow
    BY <2>1 DEF SaleRow, CreateBody
  <2> HIDE DEF new
  <2>3. Rows([x \in {r} |-> new])
    BY <2>2, VersionOf DEF Rows, Id, IdRow, PaperRow
  <2>4. CASE /\ Write(r, [x \in {r} |-> new])
             /\ sale' = [sale EXCEPT ![r] = new]
             /\ Goto(r, IF call[r].owed > 0 THEN "debt" ELSE "commit")
             /\ UNCHANGED <<goods, call, shift, todo, totals>>
    <3>1. RowsOK'
      BY <2>3, <2>4, WriteTypes DEF Typed
    <3>2. QED
      BY <2>2, <2>4, <3>1 DEF Typed, Statement
  <2>5. CASE Refuse(r)
    BY <2>5, RefuseTypes
  <2>6. QED
    BY <1>7, <2>4, <2>5 DEF InsertSale, new
<1>8. CASE UpdateDebt(r)
  <2> DEFINE c == sale[r].client
             new == [Seen(r, c) EXCEPT !.debt = @ + DebtDelta(r)]
  <2>1. sale[r] \in SaleRow
    BY <1>8 DEF UpdateDebt, Control
  <2>2. c \in Client /\ DebtDelta(r) \in Int
    BY <2>1 DEF SaleRow, DebtDelta
  <2>3. Seen(r, c) \in ClientRow
    BY <2>2, SeenType, VersionOf DEF Typed
  <2>4. new \in ClientRow
    BY <2>2, <2>3 DEF ClientRow
  <2>5. Write(r, [x \in {c} |-> new]) \/ UNCHANGED db
    BY <1>8 DEF UpdateDebt
  <2> HIDE DEF new
  <2>6. Rows([x \in {c} |-> new])
    BY <2>2, <2>4, VersionOf DEF Rows
  <2>7. RowsOK'
    <3>1. CASE Write(r, [x \in {c} |-> new])
      BY <3>1, <2>6, WriteTypes DEF Typed
    <3>2. CASE UNCHANGED db
      BY <3>2 DEF Typed, RowsOK, Locked
    <3>3. QED
      BY <2>5, <3>1, <3>2
  <2>8. QED
    BY <1>8, <2>7 DEF UpdateDebt, Typed, Statement
<1>9. CASE CommitTx(r)
  <2>1. RowsOK'
    BY <1>9, CommitTypes DEF CommitTx, Typed
  <2>2. QED
    BY <1>9, <2>1, LeaveTypes DEF CommitTx, Typed
<1>10. CASE GetSale(r)
  <2>1. CASE /\ Kind(call[r].sale, "sale")
             /\ sale' = [sale EXCEPT ![r] = table[call[r].sale]]
             /\ Goto(r, "status")
             /\ UNCHANGED <<db, goods, call, shift, todo, totals>>
    <3>1. call[r].sale \in Id
      BY <1>10, BodyType DEF GetSale, Control, DeleteBody
    <3>2. table[call[r].sale] \in SaleRow
      BY <2>1, <3>1, KindType DEF Typed
    <3>3. QED
      BY <2>1, <3>2 DEF Typed, RowsOK, Locked, Statement
  <2>2. CASE Refuse(r)
    BY <2>2, RefuseTypes
  <2>3. QED
    BY <1>10, <2>1, <2>2 DEF GetSale
<1>11. CASE CheckStatus(r)
  <2>1. CASE /\ StatusOpen(sale[r].shift)
             /\ shift' = [shift EXCEPT ![r] = sale[r].shift]
             /\ Goto(r, "returns")
             /\ UNCHANGED <<db, goods, call, sale, todo, totals>>
    BY <2>1, CurrentOpenType DEF StatusOpen, Typed, RowsOK, Locked, Statement
  <2>2. CASE Refuse(r)
    BY <2>2, RefuseTypes
  <2>3. QED
    BY <1>11, <2>1, <2>2 DEF CheckStatus
<1>12. CASE CheckReturns(r)
  <2>1. CASE Goto(r, "items") /\ UNCHANGED <<db, goods, locals>>
    BY <2>1 DEF Typed, RowsOK, Locked, Statement
  <2>2. CASE Refuse(r)
    BY <2>2, RefuseTypes
  <2>3. QED
    BY <1>12, <2>1, <2>2 DEF CheckReturns
<1>13. CASE ReadItems(r)
  <2> DEFINE items == IF Kind(call[r].sale, "sale") THEN table[call[r].sale].items ELSE <<>>
  <2>1. call[r].sale \in Id
    BY <1>13, BodyType DEF ReadItems, Control, DeleteBody
  <2>2. items \in Seq(Item)
    BY <2>1, KindType DEF Typed, SaleRow
  <2>3. /\ todo' = [todo EXCEPT ![r] = items]
        /\ Goto(r, AfterItems(r, items))
        /\ UNCHANGED <<db, goods, call, shift, sale, totals>>
    BY <1>13 DEF ReadItems
  <2> HIDE DEF items
  <2>4. QED
    BY <2>2, <2>3, AfterItemsType DEF Typed, RowsOK, Locked, Statement
<1>14. CASE RemoveSale(r)
  <2> DEFINE x == call[r].sale
  <2>1. x \in Id
    BY <1>14, BodyType DEF RemoveSale, Control, DeleteBody
  <2>2. Rows([y \in {x} |-> NoRow])
    BY <2>1, VersionOf DEF Rows, IdRow
  <2>3. CASE /\ Write(r, [y \in {x} |-> NoRow]) \/ UNCHANGED db
             /\ Goto(r, "commit")
             /\ UNCHANGED <<goods, locals>>
    <3>1. RowsOK'
      <4>1. CASE Write(r, [y \in {x} |-> NoRow])
        BY <4>1, <2>2, WriteTypes DEF Typed
      <4>2. CASE UNCHANGED db
        BY <4>2 DEF Typed, RowsOK, Locked
      <4>3. QED
        BY <2>3, <4>1, <4>2
    <3>2. QED
      BY <2>3, <3>1 DEF Typed, Statement
  <2>4. CASE Refuse(r)
    BY <2>4, RefuseTypes
  <2>5. QED
    BY <1>14, <2>3, <2>4 DEF RemoveSale
<1>15. CASE AggregateSales(r)
  <2> DEFINE S == SalesOf(shift[r])
             t == [sales |-> S, paid |-> UNION {table[x].paid : x \in S}]
  <2>1. S \subseteq Id
    BY DEF SalesOf
  <2>2. \A x \in S : table[x].paid \subseteq Channel
    BY <2>1, KindType DEF SalesOf, Typed, SaleRow
  <2>3. t \in Totals
    BY <2>1, <2>2 DEF Totals
  <2>4. totals' = [totals EXCEPT ![r] = t]
    BY <1>15 DEF AggregateSales
  <2> HIDE DEF t
  <2>5. QED
    BY <1>15, <2>3, <2>4 DEF AggregateSales, Typed, RowsOK, Locked, Statement
<1>16. CASE CloseShift(r)
  <2> DEFINE s == shift[r]
             closed == [table[s] EXCEPT !.status = "closed", !.totals = totals[r]]
             booking == [kind |-> "booking", shift |-> s, sales |-> totals[r].sales,
                         entries |-> {e \in Entry : e.of \in totals[r].paid}]
             new == [x \in {s, r} |-> IF x = s THEN closed ELSE booking]
  <2>1. CASE StillOpen(s) /\ Write(r, new) /\ Goto(r, "commit") /\ UNCHANGED <<goods, locals>>
    <3>1. s \in Id /\ totals[r] \in Totals /\ r \in Id
      BY <1>16 DEF CloseShift, Control, Typed, Id
    <3>2. table[s] \in ShiftRow
      BY <2>1, <3>1, KindType DEF StillOpen, OpenShifts, Shifts, Typed
    <3>3. closed \in ShiftRow
      BY <3>1, <3>2 DEF ShiftRow
    <3>4. booking \in BookingRow
      BY <3>1 DEF BookingRow, Totals
    <3>5. Rows(new)
      <4> HIDE DEF closed, booking
      <4>1. closed \in IdRow /\ booking \in IdRow
        BY <3>3, <3>4 DEF IdRow, PaperRow
      <4>2. QED
        BY <4>1, <3>1, VersionOf DEF Rows
    <3> HIDE DEF new
    <3>6. RowsOK'
      BY <2>1, <3>5, WriteTypes DEF Typed
    <3>7. QED
      BY <2>1, <3>6 DEF Typed, Statement
  <2>2. CASE Refuse(r)
    BY <2>2, RefuseTypes
  <2>3. QED
    BY <1>16, <2>1, <2>2 DEF CloseShift
<1>17. CASE Fail(r)
  BY <1>17, RefuseTypes DEF Fail
<1>18. QED
  BY <1>1, <1>2, <1>3, <1>4, <1>5, <1>6, <1>7, <1>8, <1>9, <1>10, <1>11, <1>12, <1>13,
     <1>14, <1>15, <1>16, <1>17 DEF Step

LEMMA StatementStep ==
  ASSUME Typed, NEW r \in Req, Control(r), Receive(r) \/ Step(r) \/ Fail(r)
  PROVE  pc'[r] \in Statement /\ call'[r] \in Body \cup {NoCall}
<1> USE DEF Typed, Goto, locals, Statement
<1>1. ASSUME Refuse(r), pc[r] # "idle"
      PROVE  pc'[r] \in Statement /\ call'[r] \in Body
  BY <1>1 DEF Refuse, Leave, Control
<1>2. CASE Receive(r)
  BY <1>2 DEF Receive
<1>3. CASE GetCurrentOpen(r) \/ GetSale(r) \/ CheckStatus(r) \/ CheckReturns(r) \/ RemoveSale(r)
  BY <1>1, <1>3 DEF GetCurrentOpen, GetSale, CheckStatus, CheckReturns, RemoveSale, Control
<1>4. CASE OpenShift(r) \/ CommitTx(r)
  BY <1>4 DEF OpenShift, CommitTx, Leave, Control
<1>5. CASE LockItem(r) \/ InsertSale(r) \/ UpdateDebt(r) \/ AggregateSales(r) \/ CloseShift(r)
  BY <1>1, <1>5 DEF LockItem, InsertSale, UpdateDebt, AggregateSales, CloseShift, Control
<1>6. CASE DeductItem(r) \/ RestoreItem(r) \/ ReadItems(r)
  BY <1>1, <1>6, AfterItemsType DEF DeductItem, RestoreItem, ReadItems, Control
<1>7. CASE Fail(r)
  BY <1>1, <1>7 DEF Fail, InFlight
<1>8. QED
  BY <1>2, <1>3, <1>4, <1>5, <1>6, <1>7 DEF Step

-----------------------------------------------------------------------------
(* A step of one request changes nothing that belongs to another.          *)

Own(q) == <<draft[q], product[q], moved[q], pc[q], call[q], shift[q], sale[q], todo[q],
            totals[q]>>

LEMMA StepIsLocal ==
  ASSUME Typed, NEW r \in Req, NEW q \in Req \ {r}, Receive(r) \/ Step(r) \/ Fail(r)
  PROVE  Own(q)' = Own(q)
<1> USE DEF Typed, Own, Goto, locals, goods, db
<1>1. ASSUME NEW new, Write(r, new) PROVE draft'[q] = draft[q]
  BY <1>1, WriteEffect
<1>2. ASSUME Refuse(r) PROVE Own(q)' = Own(q)
  BY <1>2, RollbackEffect DEF Refuse, Leave
<1>3. CASE Receive(r)
  BY <1>3 DEF Receive
<1>4. CASE GetCurrentOpen(r)
  BY <1>4, <1>2 DEF GetCurrentOpen
<1>5. CASE OpenShift(r)
  BY <1>5 DEF OpenShift, Autocommit, Leave
<1>6. CASE LockItem(r)
  BY <1>6, <1>1, <1>2 DEF LockItem, GetByIDForUpdate, LockRow
<1>7. CASE DeductItem(r)
  BY <1>7, <1>1, <1>2 DEF DeductItem, UpdateStock
<1>8. CASE RestoreItem(r)
  BY <1>8, <1>1 DEF RestoreItem, UpdateStock
<1>9. CASE InsertSale(r)
  BY <1>9, <1>1, <1>2 DEF InsertSale
<1>10. CASE UpdateDebt(r)
  BY <1>10, <1>1 DEF UpdateDebt
<1>11. CASE CommitTx(r)
  BY <1>11, CommitEffect DEF CommitTx, Leave
<1>12. CASE GetSale(r) \/ CheckStatus(r) \/ CheckReturns(r) \/ ReadItems(r)
  BY <1>12, <1>2 DEF GetSale, CheckStatus, CheckReturns, ReadItems
<1>13. CASE RemoveSale(r)
  BY <1>13, <1>1, <1>2 DEF RemoveSale
<1>14. CASE AggregateSales(r)
  BY <1>14 DEF AggregateSales
<1>15. CASE CloseShift(r)
  BY <1>15, <1>1, <1>2 DEF CloseShift
<1>16. CASE Fail(r)
  BY <1>16, <1>2 DEF Fail
<1>17. QED
  BY <1>3, <1>4, <1>5, <1>6, <1>7, <1>8, <1>9, <1>10, <1>11, <1>12, <1>13, <1>14, <1>15,
     <1>16 DEF Step

-----------------------------------------------------------------------------
(* What a request knows at each statement.                                 *)

LEMMA ControlStep ==
  ASSUME Typed, NEW r \in Req, Control(r), Receive(r) \/ Step(r) \/ Fail(r)
  PROVE  Control(r)'
<1> USE DEF Typed, Goto, locals, goods, db
<1>0. Control(r)
  OBVIOUS
<1>1. ASSUME Refuse(r), pc[r] # "idle" PROVE Control(r)'
  BY <1>0, <1>1 DEF Refuse, Leave, Control
<1>2. CASE Receive(r)
  BY <1>2, BodyType DEF Receive, Control
<1>3. CASE GetCurrentOpen(r)
  <2>1. call[r] \in Body /\ pc[r] = "current"
    BY <1>3 DEF GetCurrentOpen, Control
  <2>2. call[r].op = "create" => call[r].items # <<>>
    BY <2>1, BodyType DEF CreateBody
  <2>3. QED
    BY <1>1, <1>3, <2>1, <2>2, CurrentOpenType DEF GetCurrentOpen, Control
<1>4. CASE OpenShift(r)
  BY <1>0, <1>4 DEF OpenShift, Leave, Control
<1>5. CASE LockItem(r)
  <2> DEFINE p == Head(todo[r]).product
  <2>1. CASE GetByIDForUpdate(r, p) /\ Goto(r, "write") /\ UNCHANGED <<moved, locals>>
    <3>5. p \in Locked(r)' /\ draft'[r][p] = Seen(r, p)
      BY <2>1, LockRowEffect DEF GetByIDForUpdate
    <3>7. product'[r] = Seen(r, p)
      BY <2>1 DEF GetByIDForUpdate
    <3>1. /\ p \in Locked(r)' /\ draft'[r][p] = Seen(r, p)
          /\ product'[r] = Seen(r, p)
      BY <3>5, <3>7
    <3>2. call'[r] = call[r] /\ shift'[r] = shift[r] /\ sale'[r] = sale[r]
           /\ todo'[r] = todo[r] /\ pc'[r] = "write" /\ pc[r] = "lock"
      BY <1>5, <2>1 DEF LockItem
    <3>3. Head(todo[r])' = Head(todo[r])
      BY <3>2
    <3>4. QED
      BY <1>0, <3>1, <3>2, <3>3 DEF Control
  <2>2. QED
    BY <1>1, <1>5, <2>1 DEF LockItem
<1>6. ASSUME NEW op \in {"create", "delete"}, pc[r] = "write", call[r].op = op,
             todo' = [todo EXCEPT ![r] = Tail(@)],
             Goto(r, AfterItems(r, Tail(todo[r]))),
             UNCHANGED <<call, shift, sale>>
      PROVE  Control(r)'
  BY <1>0, <1>6 DEF AfterItems, Control
<1>7. CASE DeductItem(r)
  BY <1>1, <1>6, <1>7 DEF DeductItem
<1>8. CASE RestoreItem(r)
  BY <1>6, <1>8 DEF RestoreItem
<1>9. CASE InsertSale(r)
  <2>1. call[r] \in CreateBody /\ shift[r] \in Id
    BY <1>0, <1>9, BodyType DEF InsertSale, Control
  <2>2. [kind |-> "sale", shift |-> shift[r], items |-> call[r].items, paid |-> call[r].paid,
         owed |-> call[r].owed, client |-> call[r].client] \in SaleRow
    BY <2>1 DEF SaleRow, CreateBody
  <2>3. QED
    BY <1>0, <1>1, <1>9, <2>2 DEF InsertSale, Control
<1>10. CASE UpdateDebt(r)
  BY <1>0, <1>10 DEF UpdateDebt, Control
<1>11. CASE CommitTx(r)
  BY <1>0, <1>11 DEF CommitTx, Leave, Control
<1>12. CASE GetSale(r)
  <2>1. call[r].sale \in Id
    BY <1>0, <1>12, BodyType DEF GetSale, Control, DeleteBody
  <2>2. Kind(call[r].sale, "sale") => table[call[r].sale] \in SaleRow
    BY <2>1, KindType
  <2>3. QED
    BY <1>0, <1>1, <1>12, <2>2 DEF GetSale, Control
<1>13. CASE CheckStatus(r)
  BY <1>0, <1>1, <1>13 DEF CheckStatus, Control
<1>14. CASE CheckReturns(r)
  BY <1>0, <1>1, <1>14 DEF CheckReturns, Control
<1>15. CASE ReadItems(r)
  BY <1>0, <1>15 DEF AfterItems, ReadItems, Control
<1>16. CASE RemoveSale(r)
  BY <1>0, <1>1, <1>16 DEF RemoveSale, Control
<1>17. CASE AggregateSales(r)
  BY <1>0, <1>17 DEF AggregateSales, Control
<1>18. CASE CloseShift(r)
  BY <1>0, <1>1, <1>18 DEF CloseShift, Control
<1>19. CASE Fail(r)
  BY <1>1, <1>19 DEF Fail, InFlight
<1>20. QED
  BY <1>2, <1>3, <1>4, <1>5, <1>7, <1>8, <1>9, <1>10, <1>11, <1>12, <1>13, <1>14, <1>15,
     <1>16, <1>17, <1>18, <1>19 DEF Step

-----------------------------------------------------------------------------
(* Row locks.                                                              *)

LEMMA ExclusiveStep ==
  ASSUME Typed, Exclusive, NEW r \in Req, Receive(r) \/ Step(r) \/ Fail(r)
  PROVE  Exclusive'
<1> USE DEF Typed
<1>1. ASSUME NEW new, Write(r, new) PROVE Exclusive'
  BY <1>1, WriteExclusive
<1>2. ASSUME draft' = draft PROVE Exclusive'
  BY <1>2 DEF Exclusive, Locked
<1>3. ASSUME \A q \in Req \ {r} : draft'[q] = draft[q], Locked(r)' = {} PROVE Exclusive'
  BY <1>3 DEF Exclusive, Locked
<1>4. ASSUME Refuse(r) PROVE Exclusive'
  BY <1>3, <1>4, RollbackEffect DEF Refuse
<1>5. CASE Receive(r)
  BY <1>2, <1>5 DEF Receive, db
<1>6. CASE GetCurrentOpen(r)
  BY <1>2, <1>4, <1>6 DEF GetCurrentOpen, db
<1>7. CASE OpenShift(r)
  BY <1>2, <1>7 DEF OpenShift, Autocommit
<1>8. CASE LockItem(r)
  BY <1>1, <1>4, <1>8 DEF LockItem, GetByIDForUpdate, LockRow
<1>9. CASE DeductItem(r) \/ RestoreItem(r)
  BY <1>1, <1>4, <1>9 DEF DeductItem, RestoreItem, UpdateStock
<1>10. CASE InsertSale(r) \/ UpdateDebt(r)
  BY <1>1, <1>2, <1>4, <1>10 DEF InsertSale, UpdateDebt, db
<1>11. CASE CommitTx(r)
  BY <1>3, <1>11, CommitEffect DEF CommitTx
<1>12. CASE GetSale(r) \/ CheckStatus(r) \/ CheckReturns(r) \/ ReadItems(r)
            \/ AggregateSales(r)
  BY <1>2, <1>4, <1>12 DEF GetSale, CheckStatus, CheckReturns, ReadItems, AggregateSales, db
<1>13. CASE RemoveSale(r) \/ CloseShift(r)
  BY <1>1, <1>2, <1>4, <1>13 DEF RemoveSale, CloseShift, db
<1>14. CASE Fail(r)
  BY <1>4, <1>14 DEF Fail
<1>15. QED
  BY <1>5, <1>6, <1>7, <1>8, <1>9, <1>10, <1>11, <1>12, <1>13, <1>14 DEF Step

(* Outside its transaction a request has no draft.                         *)
LEMMA QuietStep ==
  ASSUME Typed, NEW r \in Req, Quiet(r), Receive(r) \/ Step(r) \/ Fail(r)
  PROVE  Quiet(r)'
<1> USE DEF Typed, Goto, Outside
<1>0. Quiet(r)
  OBVIOUS
<1>1. ASSUME Refuse(r) PROVE Quiet(r)'
  BY <1>1, RollbackEffect DEF Refuse, Quiet
<1>2. CASE Receive(r)
  BY <1>0, <1>2 DEF Receive, Quiet, db
<1>3. CASE GetCurrentOpen(r)
  BY <1>0, <1>1, <1>3 DEF GetCurrentOpen, Quiet, db
<1>4. CASE OpenShift(r)
  BY <1>0, <1>4 DEF OpenShift, Autocommit, Quiet
<1>5. CASE LockItem(r)
  BY <1>1, <1>5 DEF LockItem, Quiet
<1>6. CASE DeductItem(r) \/ RestoreItem(r)
  <2>1. CASE ~Refuse(r)
    <3>1. pc'[r] \in {"lock", "insert", "debt", "remove"}
      BY <1>6, <2>1, AfterItemsType DEF DeductItem, RestoreItem
    <3>2. QED
      BY <3>1 DEF Quiet
  <2>2. QED
    BY <1>1, <2>1
<1>7. CASE InsertSale(r) \/ UpdateDebt(r) \/ RemoveSale(r) \/ CloseShift(r)
  <2>1. CASE ~Refuse(r)
    <3>1. pc'[r] \in {"debt", "commit", "remove"}
      BY <1>7, <2>1 DEF InsertSale, UpdateDebt, RemoveSale, CloseShift
    <3>2. QED
      BY <3>1 DEF Quiet
  <2>2. QED
    BY <1>1, <2>1
<1>8. CASE CommitTx(r)
  BY <1>8, CommitEffect DEF CommitTx, Quiet
<1>9. CASE GetSale(r) \/ CheckStatus(r) \/ CheckReturns(r) \/ AggregateSales(r)
  BY <1>0, <1>1, <1>9 DEF GetSale, CheckStatus, CheckReturns, AggregateSales, Quiet, db
<1>10. CASE ReadItems(r)
  BY <1>10, AfterItemsType DEF ReadItems, Quiet
<1>11. CASE Fail(r)
  BY <1>1, <1>11 DEF Fail
<1>12. QED
  BY <1>2, <1>3, <1>4, <1>5, <1>6, <1>7, <1>8, <1>9, <1>10, <1>11 DEF Step

-----------------------------------------------------------------------------
(* Goods.                                                                  *)

(* r's step leaves every committed product row, and the product rows that  *)
(* r has locked, as they are.                                              *)
GoodsKept(r) ==
  /\ \A p \in Product : table'[p] = table[p]
  /\ \A p \in Product : p \in Locked(r)' <=> p \in Locked(r)
  /\ \A p \in Product \cap Locked(r) : draft'[r][p] = draft[r][p]
  /\ moved'[r] = moved[r]

LEMMA OtherRowsWritten ==
  ASSUME RowsOK, NEW r \in Req, NEW new, Write(r, new), DOMAIN new \cap Product = {},
         moved' = moved
  PROVE  GoodsKept(r)
<1>1. /\ table' = table
      /\ Locked(r)' = Locked(r) \cup DOMAIN new
      /\ \A x \in Locked(r)' :
           draft'[r][x] = IF x \in DOMAIN new THEN new[x] ELSE draft[r][x]
  BY WriteEffect
<1>2. \A p \in Product : p \notin DOMAIN new
  OBVIOUS
<1>3. QED
  BY <1>1, <1>2 DEF GoodsKept

LEMMA GoodsKeptStep ==
  ASSUME Typed, NEW r \in Req, Control(r),
         \/ Receive(r) \/ OpenShift(r) \/ InsertSale(r) \/ UpdateDebt(r)
         \/ GetCurrentOpen(r) \/ GetSale(r) \/ CheckStatus(r) \/ CheckReturns(r)
         \/ ReadItems(r) \/ RemoveSale(r) \/ AggregateSales(r) \/ CloseShift(r)
  PROVE  GoodsKept(r) \/ Refuse(r)
<1> USE DEF Typed, goods
<1>1. ASSUME UNCHANGED <<table, draft, moved>> PROVE GoodsKept(r)
  BY <1>1 DEF GoodsKept, Locked
<1>2. CASE Receive(r) \/ GetCurrentOpen(r) \/ GetSale(r) \/ CheckStatus(r) \/ CheckReturns(r)
           \/ ReadItems(r) \/ AggregateSales(r)
  BY <1>1, <1>2 DEF Receive, GetCurrentOpen, GetSale, CheckStatus, CheckReturns, ReadItems,
                    AggregateSales, db
<1>3. CASE OpenShift(r)
  <2>1. r \notin Product
    BY NamesAssumption DEF Id
  <2>2. QED
    BY <1>3, <2>1 DEF OpenShift, Autocommit, GoodsKept, Locked, RowsOK, Rows
<1>4. CASE InsertSale(r)
  <2>1. {r} \cap Product = {}
    BY NamesAssumption DEF Id
  <2>2. CASE ~Refuse(r)
    <3>1. PICK new : DOMAIN new = {r} /\ Write(r, new) /\ moved' = moved
      BY <1>4, <2>2 DEF InsertSale
    <3>2. QED
      BY <2>1, <3>1, OtherRowsWritten
  <2>3. QED
    BY <2>2
<1>5. CASE UpdateDebt(r)
  <2> DEFINE c == sale[r].client
  <2>1. {c} \cap Product = {}
    BY <1>5, NamesAssumption DEF UpdateDebt, Control, SaleRow
  <2>2. CASE UNCHANGED db
    BY <1>1, <1>5, <2>2 DEF UpdateDebt, db
  <2>3. CASE ~UNCHANGED db
    <3>1. PICK new : DOMAIN new = {c} /\ Write(r, new) /\ moved' = moved
      BY <1>5, <2>3 DEF UpdateDebt
    <3>2. QED
      BY <2>1, <3>1, OtherRowsWritten
  <2>4. QED
    BY <2>2, <2>3
<1>6. CASE RemoveSale(r)
  <2> DEFINE x == call[r].sale
  <2>1. {x} \cap Product = {}
    BY <1>6, BodyType, NamesAssumption DEF RemoveSale, Control, DeleteBody
  <2>2. CASE UNCHANGED db
    BY <1>1, <1>6, <2>2 DEF RemoveSale, db
  <2>3. CASE ~UNCHANGED db /\ ~Refuse(r)
    <3>1. PICK new : DOMAIN new = {x} /\ Write(r, new) /\ moved' = moved
      BY <1>6, <2>3 DEF RemoveSale
    <3>2. QED
      BY <2>1, <3>1, OtherRowsWritten
  <2>4. QED
    BY <2>2, <2>3
<1>7. CASE CloseShift(r)
  <2>1. {shift[r], r} \cap Product = {}
    BY <1>7, NamesAssumption DEF CloseShift, Control, Id
  <2>2. CASE ~Refuse(r)
    <3>1. PICK new : DOMAIN new = {shift[r], r} /\ Write(r, new) /\ moved' = moved
      BY <1>7, <2>2 DEF CloseShift
    <3>2. QED
      BY <2>1, <3>1, OtherRowsWritten
  <2>3. QED
    BY <2>2
<1>8. QED
  BY <1>2, <1>3, <1>4, <1>5, <1>6, <1>7

(* No step of r changes a committed product that another request has       *)
(* locked.                                                                 *)
LEMMA LockedRowsStay ==
  ASSUME Typed, Exclusive, NEW r \in Req, Control(r), NEW q \in Req \ {r},
         Receive(r) \/ Step(r) \/ Fail(r)
  PROVE  \A p \in Product \cap Locked(q) : table'[p] = table[p]
<1>1. CASE Refuse(r) \/ Fail(r)
  BY <1>1 DEF Fail, Refuse, Rollback
<1>2. CASE LockItem(r) \/ DeductItem(r) \/ RestoreItem(r)
  BY <1>1, <1>2 DEF LockItem, GetByIDForUpdate, LockRow, DeductItem, RestoreItem, UpdateStock,
                    Write
<1>3. CASE CommitTx(r)
  <2>1. ASSUME NEW p \in Product \cap Locked(q) PROVE table'[p] = table[p]
    <3>1. p \notin Locked(r)
      BY DEF Exclusive
    <3>2. p \in Row
      BY VersionOf
    <3>3. table'[p] = Seen(r, p)
      BY <1>3, <3>2, CommitEffect DEF CommitTx, Typed
    <3>4. QED
      BY <3>1, <3>3 DEF Seen
  <2>2. QED
    BY <2>1
<1>4. CASE GoodsKept(r)
  BY <1>4 DEF GoodsKept
<1>5. QED
  BY <1>1, <1>2, <1>3, <1>4, GoodsKeptStep DEF Step

(* What an update of the product that r has locked and read does.          *)
LEMMA UpdateStockEffect ==
  ASSUME Typed, NEW r \in Req, Holding(r), Ledger(r), pc[r] = "write",
         NEW n \in Int, UpdateStock(r, Head(todo[r]).product, n, product[r].warehouse)
  PROVE  LET p == Head(todo[r]).product
         IN /\ p \in Product
            /\ table' = table
            /\ Locked(r)' = Locked(r)
            /\ \A x \in Locked(r) \ {p} : draft'[r][x] = draft[r][x]
            /\ \A x \in Product \ {p} : moved'[r][x] = moved[r][x]
            /\ draft'[r][p].shop = n
            /\ draft'[r][p].warehouse = draft[r][p].warehouse
            /\ IsMoved(table[p], moved'[r][p], draft'[r][p])
<1> DEFINE p == Head(todo[r]).product
           new == [Seen(r, p) EXCEPT !.shop = n, !.warehouse = product[r].warehouse]
           m == [shop |-> moved[r][p].shop + n - product[r].shop,
                 warehouse |-> moved[r][p].warehouse + product[r].warehouse
                               - product[r].warehouse]
<1>1. /\ todo[r] # <<>> /\ p \in Locked(r) /\ product[r] = draft[r][p]
      /\ product[r] \in ProductRow
  BY ProductType DEF Holding
<1>2. p \in Product
  BY <1>1, TodoType
<1>3. Seen(r, p) = product[r]
  BY <1>1 DEF Seen
<1>4. new \in ProductRow /\ new.shop = n /\ new.warehouse = product[r].warehouse
  BY <1>1, <1>3 DEF ProductRow
<1>5. /\ Write(r, [x \in {p} |-> new])
      /\ moved' = [moved EXCEPT ![r][p] = m]
  BY DEF UpdateStock
<1> HIDE DEF new
<1>6. /\ table' = table
      /\ Locked(r)' = Locked(r) \cup {p}
      /\ \A x \in Locked(r)' : draft'[r][x] = IF x \in {p} THEN new ELSE draft[r][x]
  BY <1>5 DEF Write, Typed, RowsOK, Locked
<1>7. Locked(r)' = Locked(r) /\ draft'[r][p] = new
  BY <1>1, <1>6
<1>8. moved[r][p] \in Movement /\ table[p] \in ProductRow
  BY <1>2, VersionOf DEF Typed, RowsOK, Rows
<1>9. IsMoved(table[p], moved[r][p], draft[r][p])
  BY <1>1, <1>2 DEF Ledger
<1>10. moved[r] \in [Product -> Movement] /\ moved \in [Req -> [Product -> Movement]]
  BY DEF Typed
<1>11. moved'[r][p] = m /\ \A x \in Product \ {p} : moved'[r][x] = moved[r][x]
  <2> HIDE DEF m, p
  <2>1. moved' = [moved EXCEPT ![r] = [moved[r] EXCEPT ![p] = m]]
    BY <1>5
  <2>2. moved'[r] = [moved[r] EXCEPT ![p] = m]
    BY <1>10, <2>1
  <2>3. QED
    BY <1>2, <1>10, <2>2
<1>12. IsMoved(table[p], m, new)
  <2>1. /\ moved[r][p].shop \in Int /\ moved[r][p].warehouse \in Int
        /\ table[p].shop \in Int /\ table[p].warehouse \in Int
        /\ product[r].shop \in Int /\ product[r].warehouse \in Int
    BY <1>1, <1>8 DEF Movement, ProductRow
  <2>2. /\ product[r].shop = table[p].shop + moved[r][p].shop
        /\ product[r].warehouse = table[p].warehouse + moved[r][p].warehouse
    BY <1>1, <1>9 DEF IsMoved
  <2>3. /\ m.shop = moved[r][p].shop + n - product[r].shop
        /\ m.warehouse = moved[r][p].warehouse + product[r].warehouse - product[r].warehouse
    OBVIOUS
  <2> HIDE DEF m, p
  <2>4. QED
    BY <1>4, <2>1, <2>2, <2>3 DEF IsMoved
<1>13. IsMoved(table[p], moved'[r][p], draft'[r][p])
  BY <1>7, <1>11, <1>12
<1>14. QED
  BY <1>1, <1>2, <1>4, <1>6, <1>7, <1>11, <1>13

(* A locked product differs from its committed version by what the         *)
(* transaction has moved: after each statement that touches a product, and *)
(* so after every step.                                                    *)
LEMMA RefuseLedger ==
  ASSUME Typed, NEW r \in Req, Refuse(r)
  PROVE  Ledger(r)'
<1>1. Locked(r)' = {}
  BY RollbackEffect DEF Refuse, Typed
<1>2. \A p \in Product : moved'[r][p] = NoMove
  BY DEF Refuse, Still, NoMove, Typed
<1>3. QED
  BY <1>1, <1>2 DEF Ledger

LEMMA LockItemLedger ==
  ASSUME Typed, NEW r \in Req, Holding(r), Ledger(r), LockItem(r)
  PROVE  Ledger(r)'
<1> SUFFICES ASSUME ~Refuse(r) PROVE Ledger(r)'
  BY RefuseLedger
<1> DEFINE x == Head(todo[r]).product
<1>1. LockRow(r, x) /\ moved' = moved /\ pc[r] = "lock" /\ x \in Product
  BY TodoType DEF LockItem, GetByIDForUpdate, Holding
<1>2. /\ table' = table /\ Locked(r)' = Locked(r) \cup {x}
      /\ draft'[r][x] = Seen(r, x)
      /\ \A p \in Locked(r) : draft'[r][p] = draft[r][p]
  BY <1>1, LockRowEffect DEF Typed
<1> HIDE DEF x
<1>3. \A p \in Product :
        /\ p \in Locked(r) => IsMoved(table[p], moved[r][p], draft[r][p])
        /\ p \notin Locked(r) => moved[r][p] = NoMove
  BY <1>1 DEF Ledger
<1>4. ASSUME NEW p \in Product, p \in Locked(r)'
      PROVE  IsMoved(table[p], moved[r][p], draft'[r][p])
  <2>1. CASE p \in Locked(r)
    BY <1>2, <1>3, <2>1
  <2>2. CASE p \notin Locked(r)
    <3>1. p = x /\ draft'[r][p] = table[p]
      BY <1>2, <1>4, <2>2 DEF Seen
    <3>2. moved[r][p] = NoMove
      BY <1>3, <2>2
    <3>3. table[p] \in ProductRow
      BY VersionOf DEF Typed, RowsOK, Rows
    <3>4. QED
      BY <3>1, <3>2, <3>3 DEF IsMoved, NoMove, ProductRow
  <2>3. QED
    BY <2>1, <2>2
<1>5. ASSUME NEW p \in Product, p \notin Locked(r)'
      PROVE  moved[r][p] = NoMove
  BY <1>2, <1>3, <1>5
<1>6. QED
  BY <1>1, <1>2, <1>4, <1>5 DEF Ledger

LEMMA UpdateLedger ==
  ASSUME Typed, NEW r \in Req, Holding(r), Ledger(r), NEW n \in Int,
         pc[r] = "write", pc'[r] # "ok",
         UpdateStock(r, Head(todo[r]).product, n, product[r].warehouse)
  PROVE  Ledger(r)'
<1> DEFINE x == Head(todo[r]).product
<1>1. /\ x \in Product /\ table' = table /\ Locked(r)' = Locked(r)
      /\ \A p \in Locked(r) \ {x} : draft'[r][p] = draft[r][p]
      /\ \A p \in Product \ {x} : moved'[r][p] = moved[r][p]
      /\ IsMoved(table[x], moved'[r][x], draft'[r][x])
  BY UpdateStockEffect
<1>2. x \in Locked(r)
  BY DEF Holding
<1> HIDE DEF x
<1>3. \A p \in Product :
        /\ p \in Locked(r) => IsMoved(table[p], moved[r][p], draft[r][p])
        /\ p \notin Locked(r) => moved[r][p] = NoMove
  BY DEF Ledger
<1>4. ASSUME NEW p \in Product
      PROVE  /\ p \in Locked(r)' => IsMoved(table'[p], moved'[r][p], draft'[r][p])
             /\ p \notin Locked(r)' => moved'[r][p] = NoMove
  BY <1>1, <1>2, <1>3
<1>5. QED
  BY <1>4 DEF Ledger

LEMMA LedgerStep ==
  ASSUME Typed, NEW r \in Req, Control(r), Ledger(r), Receive(r) \/ Step(r) \/ Fail(r)
  PROVE  Ledger(r)'
<1>0. Holding(r)
  BY HoldingOf
<1>1. CASE Refuse(r)
  BY <1>1, RefuseLedger
<1>2. CASE LockItem(r)
  BY <1>0, <1>2, LockItemLedger
<1>3. CASE (DeductItem(r) \/ RestoreItem(r)) /\ ~Refuse(r)
  <2>1. pc[r] = "write" /\ pc' = [pc EXCEPT ![r] = AfterItems(r, Tail(todo[r]))]
    BY <1>3 DEF DeductItem, RestoreItem, Goto
  <2>2. pc'[r] # "ok"
    BY <2>1 DEF Typed, AfterItems
  <2>3. product[r] \in ProductRow /\ Head(todo[r]).quantity \in Nat
    BY <1>0, <2>1, ProductType, TodoType
  <2>4. PICK n \in Int : UpdateStock(r, Head(todo[r]).product, n, product[r].warehouse)
    BY <1>3, <2>3 DEF DeductItem, RestoreItem, ProductRow
  <2>5. QED
    BY <1>0, <2>1, <2>2, <2>4, UpdateLedger
<1>4. CASE CommitTx(r)
  <2>1. Locked(r)' = {} /\ pc'[r] = "ok"
    BY <1>4, CommitEffect DEF CommitTx, Leave, Goto, Typed
  <2>2. QED
    BY <2>1 DEF Ledger
<1>5. CASE GoodsKept(r) /\ pc[r] # "ok"
  BY <1>5 DEF GoodsKept, Ledger
<1>6. pc[r] # "ok"
  BY DEF Step, Receive, Fail, InFlight, GetCurrentOpen, OpenShift, LockItem, DeductItem,
         RestoreItem, InsertSale, UpdateDebt, CommitTx, GetSale, CheckStatus, CheckReturns,
         ReadItems, RemoveSale, AggregateSales, CloseShift
<1>7. QED
  BY <1>1, <1>2, <1>3, <1>4, <1>5, <1>6, GoodsKeptStep DEF Step, Fail

(* No quantity below zero: of the product rows, a step of r changes only   *)
(* the committed ones and its own drafts.                                  *)
Filled(row) == row.shop >= 0 /\ row.warehouse >= 0

LEMMA FilledRows ==
  ASSUME NoOversell, NEW r \in Req
  PROVE  \A p \in Product : /\ Filled(table[p]) /\ Filled(Seen(r, p))
                            /\ p \in Locked(r) => Filled(draft[r][p])
BY DEF NoOversell, Filled, Seen

LEMMA StaysFilled ==
  ASSUME NoOversell, NEW r \in Req, \A q \in Req \ {r} : draft'[q] = draft[q],
         \A p \in Product : Filled(table'[p]),
         \A p \in Product : p \in Locked(r)' => Filled(draft'[r][p])
  PROVE  NoOversell'
<1>1. ASSUME NEW q \in Req \ {r} PROVE \A p \in Product : p \in Locked(q)' => Filled(draft'[q][p])
  BY DEF Locked, NoOversell, Filled
<1>2. QED
  BY <1>1 DEF NoOversell, Filled

LEMMA RefuseFilled ==
  ASSUME Typed, NoOversell, NEW r \in Req, Refuse(r)
  PROVE  NoOversell'
BY RollbackEffect, FilledRows, StaysFilled DEF Refuse, Typed

LEMMA CommitFilled ==
  ASSUME Typed, NoOversell, NEW r \in Req, Commit(r)
  PROVE  NoOversell'
<1>1. \A p \in Product : table'[p] = Seen(r, p)
  BY CommitEffect, VersionOf DEF Typed
<1>2. Locked(r)' = {} /\ \A q \in Req \ {r} : draft'[q] = draft[q]
  BY CommitEffect DEF Typed
<1>3. \A p \in Product : Filled(table'[p])
  BY <1>1, FilledRows
<1>4. QED
  BY <1>2, <1>3, StaysFilled

LEMMA LockItemFilled ==
  ASSUME Typed, NoOversell, NEW r \in Req, Holding(r), LockItem(r)
  PROVE  NoOversell'
<1> SUFFICES ASSUME ~Refuse(r) PROVE NoOversell'
  BY RefuseFilled
<1> DEFINE x == Head(todo[r]).product
<1>1. LockRow(r, x) /\ x \in Product
  BY TodoType DEF LockItem, GetByIDForUpdate, Holding
<1>2. /\ table' = table /\ Locked(r)' = Locked(r) \cup {x}
      /\ draft'[r][x] = Seen(r, x)
      /\ \A p \in Locked(r) : draft'[r][p] = draft[r][p]
  BY <1>1, LockRowEffect DEF Typed
<1>3. \A q \in Req \ {r} : draft'[q] = draft[q]
  BY <1>1, WriteEffect DEF LockRow, Typed
<1> HIDE DEF x
<1>4. \A p \in Product : p \in Locked(r)' => Filled(draft'[r][p])
  BY <1>1, <1>2, FilledRows
<1>5. QED
  BY <1>2, <1>3, <1>4, FilledRows, StaysFilled

LEMMA UpdateFilled ==
  ASSUME Typed, NoOversell, NEW r \in Req, Holding(r), Ledger(r), NEW n \in Nat,
         pc[r] = "write", UpdateStock(r, Head(todo[r]).product, n, product[r].warehouse)
  PROVE  NoOversell'
<1> DEFINE p == Head(todo[r]).product
<1>0. n \in Int
  OBVIOUS
<1>1. /\ p \in Product /\ table' = table /\ Locked(r)' = Locked(r)
      /\ \A x \in Locked(r) \ {p} : draft'[r][x] = draft[r][x]
      /\ draft'[r][p].shop = n
      /\ draft'[r][p].warehouse = draft[r][p].warehouse
  BY <1>0, UpdateStockEffect
<1>2. p \in Locked(r)
  BY DEF Holding
<1>3. \A q \in Req \ {r} : draft'[q] = draft[q]
  BY WriteEffect DEF UpdateStock, Typed
<1> HIDE DEF p
<1>4. Filled(draft'[r][p])
  BY <1>1, <1>2, FilledRows DEF Filled
<1>5. \A x \in Product : x \in Locked(r)' => Filled(draft'[r][x])
  BY <1>1, <1>4, FilledRows
<1>6. QED
  BY <1>1, <1>3, <1>5, FilledRows, StaysFilled

LEMMA ReadFilled ==
  ASSUME Typed, NoOversell, NEW r \in Req, Holding(r), pc[r] = "write"
  PROVE  /\ Head(todo[r]).product \in Product /\ Head(todo[r]).quantity \in Nat
         /\ product[r].shop \in Nat /\ product[r].warehouse \in Nat
<1>1. /\ product[r] \in ProductRow /\ Head(todo[r]).quantity \in Nat
      /\ Head(todo[r]).product \in Product
      /\ product[r] = Seen(r, Head(todo[r]).product)
  BY ProductType, TodoType DEF Holding, Seen
<1>2. Filled(product[r])
  BY <1>1, FilledRows
<1>3. QED
  BY <1>1, <1>2 DEF Filled, ProductRow

LEMMA NoOversellStep ==
  ASSUME Typed, NoOversell, NEW r \in Req, Control(r), Ledger(r),
         Receive(r) \/ Step(r) \/ Fail(r)
  PROVE  NoOversell'
<1>0. Holding(r)
  BY HoldingOf
<1>1. CASE Refuse(r)
  BY <1>1, RefuseFilled
<1>2. CASE LockItem(r)
  BY <1>0, <1>2, LockItemFilled
<1>3. CASE (DeductItem(r) \/ RestoreItem(r)) /\ ~Refuse(r)
  <2>1. pc[r] = "write"
    BY <1>3 DEF DeductItem, RestoreItem
  <2>2. Head(todo[r]).quantity \in Nat /\ product[r].shop \in Nat
    BY <1>0, <2>1, ReadFilled
  <2>3. PICK n \in Nat : UpdateStock(r, Head(todo[r]).product, n, product[r].warehouse)
    <3>1. CASE DeductItem(r)
      BY <1>3, <2>2, <3>1 DEF DeductItem, Enough
    <3>2. CASE RestoreItem(r)
      BY <2>2, <3>2 DEF RestoreItem
    <3>3. QED
      BY <1>3, <3>1, <3>2
  <2>4. QED
    BY <1>0, <2>1, <2>3, UpdateFilled
<1>4. CASE CommitTx(r)
  BY <1>4, CommitFilled DEF CommitTx
<1>5. CASE GoodsKept(r)
  <2>1. \A p \in Product : /\ Filled(table'[p])
                           /\ p \in Locked(r)' => Filled(draft'[r][p])
    BY <1>5, FilledRows DEF GoodsKept
  <2>2. \A q \in Req \ {r} : draft'[q] = draft[q]
    BY StepIsLocal DEF Own
  <2>3. QED
    BY <2>1, <2>2, StaysFilled
<1>6. QED
  BY <1>1, <1>2, <1>3, <1>4, <1>5, GoodsKeptStep DEF Step, Fail

-----------------------------------------------------------------------------
(* The theorems.                                                           *)

LEMMA InvInit == Init => Inv
<1> SUFFICES ASSUME Init PROVE Inv
  OBVIOUS
<1>1. TypeOK
  <2>1. RowsOK
    BY InitRowAssumption, NoDraftRows DEF Init, RowsOK
  <2>2. Still \in [Product -> Movement]
    BY DEF Still, Movement
  <2>3. NoTotals \in Totals
    BY DEF NoTotals, Totals
  <2>4. QED
    BY <2>1, <2>2, <2>3 DEF Init, TypeOK, Statement
<1>2. \A r \in Req : Locked(r) = {}
  BY DEF Init, Locked, NoDraft
<1>3. Exclusive
  BY <1>2 DEF Exclusive
<1>4. NoOversell
  BY <1>2, InitRowAssumption DEF Init, NoOversell
<1>5. ASSUME NEW r \in Req PROVE Control(r) /\ Quiet(r)
  BY DEF Init, Control, Quiet
<1>6. ASSUME NEW r \in Req PROVE Ledger(r)
  BY <1>2 DEF Init, Ledger, Still, NoMove
<1>7. QED
  BY <1>1, <1>3, <1>4, <1>5, <1>6 DEF Inv

LEMMA InvStep == Inv /\ [Next]_vars => Inv'
<1> SUFFICES ASSUME Inv, [Next]_vars PROVE Inv'
  OBVIOUS
<1>1. CASE UNCHANGED vars
  BY <1>1 DEF Inv, vars, locals, TypeOK, RowsOK, Exclusive, NoOversell, Control, Quiet, Ledger,
              Locked
<1>2. ASSUME NEW r \in Req, Receive(r) \/ Step(r) \/ Fail(r) PROVE Inv'
  <2> USE TypedOK DEF Inv
  <2>0. ASSUME NEW q \in Req \ {r} PROVE Own(q)' = Own(q)
    BY <1>2, StepIsLocal
  <2>1. TypeOK'
    <3>1. Typed'
      BY <1>2, TypeStep
    <3>2. \A q \in Req : pc'[q] \in Statement /\ call'[q] \in Body \cup {NoCall}
      BY <1>2, <2>0, StatementStep DEF Own, TypeOK
    <3> QED
      BY <3>1, <3>2 DEF Typed, TypeOK
  <2>2. Exclusive'
    BY <1>2, ExclusiveStep
  <2>3. NoOversell'
    BY <1>2, NoOversellStep
  <2>4. \A q \in Req : Control(q)'
    BY <1>2, <2>0, ControlStep DEF Own, Control, Locked
  <2>5. \A q \in Req : Quiet(q)'
    BY <1>2, <2>0, QuietStep DEF Own, Quiet
  <2>6. \A q \in Req : Ledger(q)'
    BY <1>2, <2>0, LedgerStep, LockedRowsStay DEF Own, Ledger, Locked
  <2>7. QED
    BY <2>1, <2>2, <2>3, <2>4, <2>5, <2>6 DEF Inv
<1>3. QED
  BY <1>1, <1>2 DEF Next

LEMMA Invariance == Spec => []Inv
BY InvInit, InvStep, PTL DEF Spec

(* Whatever the bodies and the interleaving, every row the handlers write  *)
(* has the type of its table, and every local the type of its variable.    *)
THEOREM TypeCorrect == Spec => []TypeOK
<1>1. Inv => TypeOK
  BY DEF Inv
<1>2. QED
  BY <1>1, Invariance, PTL

(* No row is ever written or locked by two open transactions: the order of *)
(* statements in the services never breaks READ COMMITTED's row locks.     *)
THEOREM LocksExclusive == Spec => []Exclusive
<1>1. Inv => Exclusive
  BY DEF Inv
<1>2. QED
  BY <1>1, Invariance, PTL

(* For any number of requests, products and items: comparing the quantity  *)
(* with the row read FOR UPDATE keeps every stock column from going below  *)
(* zero, committed or not, although every guard before it is read outside  *)
(* the transaction.                                                        *)
THEOREM NeverOversold == Spec => []NoOversell
<1>1. Inv => NoOversell
  BY DEF Inv
<1>2. QED
  BY <1>1, Invariance, PTL
-----------------------------------------------------------------------------
(* Sales implements Stock.                                                 *)

\* What Stock sees of a Sales state: the stock columns, and what the requests
\* that have committed have moved.
Shown == [p \in Product |-> [shop |-> table[p].shop, warehouse |-> table[p].warehouse]]
Done == [r \in Req |-> IF pc[r] = "ok" THEN moved[r] ELSE Still]

(* A request commits exactly what its own statements have moved.           *)
LEMMA CommitMoves ==
  ASSUME Typed, NoOversell, NEW r \in Req, Ledger(r), pc[r] # "ok",
         Commit(r), Leave(r, "ok"), UNCHANGED moved
  PROVE  Goods!Move(r)
<1>2. /\ Done[r] = Still
      /\ Done'[r] = moved[r]
  BY DEF Done, Leave, Goto, Typed
<1>3. \A q \in Req \ {r} : Done'[q] = Done[q]
  BY DEF Done, Leave, Goto, Typed
<1>4. ASSUME NEW p \in Product
      PROVE  /\ Shown'[p].shop = Shown[p].shop + moved[r][p].shop
             /\ Shown'[p].warehouse = Shown[p].warehouse + moved[r][p].warehouse
             /\ Shown'[p] \in Goods!Quantity
  <2>1. table'[p] = Seen(r, p)
    BY CommitEffect, VersionOf DEF Typed
  <2>2. table[p] \in ProductRow /\ Seen(r, p) \in ProductRow
    BY SeenType, VersionOf DEF Typed, RowsOK, Rows
  <2>3. Seen(r, p).shop >= 0 /\ Seen(r, p).warehouse >= 0
    BY DEF NoOversell, Seen
  <2>4. IsMoved(table[p], moved[r][p], Seen(r, p))
    <3>1. CASE p \in Locked(r)
      BY <3>1 DEF Ledger, Seen
    <3>2. CASE p \notin Locked(r)
      <4>1. moved[r][p] = NoMove
        BY <3>2 DEF Ledger
      <4>2. QED
        BY <2>2, <3>2, <4>1 DEF IsMoved, NoMove, Seen, ProductRow
    <3>3. QED
      BY <3>1, <3>2
  <2>5. /\ Shown[p] = [shop |-> table[p].shop, warehouse |-> table[p].warehouse]
        /\ Shown'[p] = [shop |-> Seen(r, p).shop, warehouse |-> Seen(r, p).warehouse]
    BY <2>1 DEF Shown
  <2>6. Shown'[p] \in Goods!Quantity
    BY <2>2, <2>3, <2>5 DEF Goods!Quantity, ProductRow
  <2>7. QED
    BY <2>4, <2>5, <2>6 DEF IsMoved
<1>5. QED
  BY <1>2, <1>3, <1>4 DEF Goods!Move, Goods!Still, Still, Shown, Done

(* Every other step leaves the committed stock and the committed movements *)
(* alone.                                                                  *)
LEMMA OthersStutter ==
  ASSUME Typed, NEW r \in Req, Control(r), Quiet(r), Ledger(r),
         Receive(r) \/ Step(r) \/ Fail(r), ~CommitTx(r)
  PROVE  Shown' = Shown /\ Done' = Done
<1>1. Typed /\ Control(r) /\ Quiet(r) /\ Ledger(r)
  OBVIOUS
<1>2. \A p \in Product : table'[p] = table[p]
  <2>1. CASE Refuse(r) \/ Fail(r)
    BY <2>1, RollbackEffect, <1>1 DEF Fail, Refuse, Typed
  <2>2. CASE LockItem(r) \/ DeductItem(r) \/ RestoreItem(r)
    BY <2>2, <2>1 DEF LockItem, GetByIDForUpdate, LockRow, DeductItem, RestoreItem,
                      UpdateStock, Write
  <2>3. CASE GoodsKept(r)
    BY <2>3 DEF GoodsKept
  <2>4. QED
    BY <1>1, <2>1, <2>2, <2>3, GoodsKeptStep DEF Step
<1>3. Shown' = Shown
  BY <1>2 DEF Shown
<1>4. \A q \in Req \ {r} : Done'[q] = Done[q]
  BY <1>1, StepIsLocal DEF Done, Own
<1>5. pc[r] # "ok"
  BY DEF Step, Receive, Fail, InFlight, GetCurrentOpen, OpenShift, LockItem, DeductItem,
         RestoreItem, InsertSale, UpdateDebt, CommitTx, GetSale, CheckStatus, CheckReturns,
         ReadItems, RemoveSale, AggregateSales, CloseShift
<1>6. Done[r] = Still
  BY <1>5 DEF Done
<1>7. Done'[r] = Still
  <2>1. CASE OpenShift(r)
    <3>1. draft[r] = NoDraft
      BY <1>1, <2>1 DEF OpenShift, Quiet, Outside
    <3>2. \A p \in Product : moved[r][p] = NoMove
      BY <1>1, <1>5, <3>1 DEF Ledger, Locked, NoDraft
    <3>3. moved[r] = Still
      BY <1>1, <3>2 DEF Typed, Still, NoMove
    <3>4. moved' = moved
      BY <2>1 DEF OpenShift, goods
    <3>5. QED
      BY <3>3, <3>4 DEF Done
  <2>2. CASE Refuse(r) \/ Fail(r)
    BY <1>1, <2>2 DEF Refuse, Leave, Fail, Goto, Typed, Done
  <2>3. CASE DeductItem(r) \/ RestoreItem(r)
    <3>1. Refuse(r) \/ pc' = [pc EXCEPT ![r] = AfterItems(r, Tail(todo[r]))]
      BY <2>3 DEF DeductItem, RestoreItem, Goto
    <3>2. QED
      BY <1>1, <2>2, <3>1 DEF Typed, AfterItems, Done
  <2>4. CASE ReadItems(r)
    <3>1. PICK rest : pc' = [pc EXCEPT ![r] = AfterItems(r, rest)]
      BY <2>4 DEF ReadItems, Goto
    <3>2. QED
      BY <1>1, <3>1 DEF Typed, AfterItems, Done
  <2>5. CASE Receive(r) \/ GetCurrentOpen(r) \/ LockItem(r) \/ InsertSale(r) \/ UpdateDebt(r)
             \/ GetSale(r) \/ CheckStatus(r) \/ CheckReturns(r) \/ RemoveSale(r)
             \/ AggregateSales(r) \/ CloseShift(r)
    <3>1. pc'[r] # "ok"
      BY <1>1, <2>5 DEF Receive, GetCurrentOpen, LockItem, InsertSale, UpdateDebt, GetSale,
           CheckStatus, CheckReturns, RemoveSale, AggregateSales, CloseShift, Refuse, Leave, Goto,
           Typed
    <3>2. QED
      BY <3>1 DEF Done
  <2>6. QED
    BY <2>1, <2>2, <2>3, <2>4, <2>5 DEF Step
<1>8. Done' = Done
  BY <1>4, <1>6, <1>7 DEF Done
<1>9. QED
  BY <1>3, <1>8

LEMMA GoodsInit == Init => Goods!Init
<1> SUFFICES ASSUME Init PROVE Goods!Init
  OBVIOUS
<1>1. ASSUME NEW p \in Product
      PROVE  [shop |-> table[p].shop, warehouse |-> table[p].warehouse] \in Goods!Quantity
  <2>1. table[p] \in ProductRow /\ table[p].shop >= 0 /\ table[p].warehouse >= 0
    BY InitRowAssumption, VersionOf DEF Init, Rows
  <2>2. table[p].shop \in Nat /\ table[p].warehouse \in Nat
    BY <2>1 DEF ProductRow
  <2>3. QED
    BY <2>2 DEF Goods!Quantity
<1>2. Shown \in [Product -> Goods!Quantity]
  BY <1>1 DEF Shown
<1>3. Done = [r \in Req |-> Goods!Still]
  BY DEF Done, Init, Still, Goods!Still
<1>4. QED
  BY <1>2, <1>3 DEF Goods!Init, Shown, Done

(* Sales implements Stock, for every number of requests: the goods of a    *)
(* sale or of its deletion move at one instant, its commit, or not at all, *)
(* and by exactly what its own statements computed; no concurrent request  *)
(* overwrites them, although the new quantities are written as absolutes.  *)
THEOREM MovesAreAtomic == Spec => MovesAtomically
<1>1. Init => Goods!Init
  BY GoodsInit
<1>2. Inv /\ [Next]_vars => [Goods!Next]_<<Shown, Done>>
  <2> SUFFICES ASSUME Inv, [Next]_vars PROVE [Goods!Next]_<<Shown, Done>>
    OBVIOUS
  <2>1. CASE UNCHANGED vars
    BY <2>1 DEF vars, Shown, Done
  <2>2. ASSUME NEW r \in Req, CommitTx(r) PROVE [Goods!Next]_<<Shown, Done>>
    BY <2>2, CommitMoves, TypedOK DEF Inv, CommitTx, Goods!Next
  <2>3. ASSUME NEW r \in Req, Receive(r) \/ Step(r) \/ Fail(r), ~CommitTx(r)
        PROVE  [Goods!Next]_<<Shown, Done>>
    BY <2>3, OthersStutter, TypedOK DEF Inv
  <2>4. QED
    BY <2>1, <2>2, <2>3 DEF Next
<1>3. QED
  BY <1>1, <1>2, Invariance, PTL DEF Spec, MovesAtomically, Goods!Spec, Shown, Done
-----------------------------------------------------------------------------
(***************************************************************************)
(* The books. To reconcile stock, debts and bookings with the sales, the   *)
(* invariant also follows what each request is about to commit. Course     *)
(* says what it knows and what papers (sales, shifts, bookings) and        *)
(* clients it has locked, Carried that the goods it has moved and those it *)
(* has still to move are those of its sale, Credit that the debt it has    *)
(* written is that of its sale. Existed and Gone tell the names of rows    *)
(* that were deleted from those not inserted yet, and Claimed that two     *)
(* shifts never claim one sale, be it in a booking or in the totals that a *)
(* closing request has read.                                               *)
(***************************************************************************)
Existed(x) == x \in Past \/ pc[x] = "ok"

Unborn == \A r \in Req : ~Existed(r) => table[r] = NoRow

\* Another request has deleted the sale that r is deleting.
Gone(r) == \E q \in Req \ {r} : pc[q] = "ok" /\ call[q] = call[r]

Creating(r) == call[r].op = "create" /\ pc[r] \in {"debt", "commit"}
Deleting(r) ==
  /\ call[r].op = "delete"
  /\ pc[r] \in {"status", "returns", "items", "lock", "write", "debt", "remove", "commit"}
Closing(r) == call[r].op = "close" /\ pc[r] \in {"aggregate", "close", "commit"}

Course(r) ==
  /\ todo[r] # <<>> => pc[r] \in {"lock", "write"}
  /\ pc[r] = "current" => call[r].op \in {"create", "open", "close"}
  /\ pc[r] = "open" => call[r].op = "open"
  /\ pc[r] \in {"aggregate", "close"} => call[r].op = "close"
  /\ pc[r] = "commit" => call[r].op \in {"create", "delete", "close"}
  /\ shift[r] \in Id => Kind(shift[r], "shift")
  /\ pc[r] \in {"get", "status", "current", "idle"} => shift[r] = NoRow

\* The papers r has locked.
Papers(r) ==
  Locked(r) \cap Id =
    IF Creating(r) THEN {r}
    ELSE IF pc[r] = "commit" /\ call[r].op = "close" THEN {shift[r], r}
    ELSE IF pc[r] = "commit" /\ call[r].op = "delete" /\ Kind(call[r].sale, "sale")
      THEN {call[r].sale}
    ELSE {}

Created(r) ==
  Creating(r) =>
    /\ sale[r] \in SaleRow
    /\ sale[r].shift = shift[r] /\ shift[r] \in Id
    /\ sale[r].items = call[r].items
    /\ draft[r][r] = sale[r]

Deleted(r) ==
  Deleting(r) =>
    /\ sale[r] \in SaleRow
    /\ Existed(call[r].sale)
    /\ table[call[r].sale] = sale[r] \/ (table[call[r].sale] = NoRow /\ Gone(r))
    /\ pc[r] # "status" => shift[r] = sale[r].shift
    /\ (pc[r] = "commit" /\ call[r].sale \in Locked(r)) => draft[r][call[r].sale] = NoRow

Closed(r) ==
  Closing(r) =>
    /\ shift[r] \in Id
    /\ pc[r] = "commit" =>
         /\ table[shift[r]].status = "open"
         /\ draft[r][shift[r]] =
              [table[shift[r]] EXCEPT !.status = "closed", !.totals = totals[r]]
         /\ draft[r][r] = [kind |-> "booking", shift |-> shift[r], sales |-> totals[r].sales,
                           entries |-> {e \in Entry : e.of \in totals[r].paid}]

Carried(r) ==
  \A p \in Product :
    /\ (call[r].op = "create" /\ pc[r] \in {"lock", "write", "insert", "debt", "commit"}) =>
         moved[r][p].shop = QtyOf(todo[r], p) - QtyOf(call[r].items, p)
    /\ (Deleting(r) /\ pc[r] \notin {"status", "returns", "items"} /\ ~Gone(r)) =>
         moved[r][p].shop = QtyOf(sale[r].items, p) - QtyOf(todo[r], p)
    /\ call[r].op \in {"close", "open"} => moved[r][p].shop = 0

\* r has passed the statement that updates the client's debt.
PastDebt(r) ==
  \/ call[r].op = "create" /\ pc[r] = "commit"
  \/ call[r].op = "delete" /\ pc[r] \in {"remove", "commit"}

Credit(r) ==
  \A c \in Client :
    IF c \in Locked(r)
      THEN /\ PastDebt(r) /\ c = sale[r].client
           /\ draft[r][c] = [table[c] EXCEPT !.debt = @ + DebtDelta(r)]
      ELSE (PastDebt(r) /\ c = sale[r].client /\ table[c].live) => sale[r].owed = 0

\* What r claims for the shift it is closing, and what the booking b claims.
Claims(r) == [shift |-> shift[r], sales |-> totals[r].sales]
ClaimOf(b) == [shift |-> table[b].shift, sales |-> table[b].sales]
Claim == {Claims(r) : r \in {q \in Req : pc[q] \in {"close", "commit"} /\ call[q].op = "close"}}
         \cup {ClaimOf(b) : b \in {x \in Id : Kind(x, "booking")}}

Claimed ==
  /\ \A k \in Claim : \A x \in k.sales : Existed(x) /\ (Kind(x, "sale") => table[x].shift = k.shift)
  /\ \A k, l \in Claim : k.shift # l.shift => k.sales \cap l.sales = {}
  /\ \A k \in Claim : k.shift \in Id /\ Kind(k.shift, "shift")

LiveKept == \A c \in Client : table[c].live = InitRow[c].live

Books ==
  /\ Unborn /\ LiveKept
  /\ \A r \in Req : Course(r) /\ Papers(r) /\ Created(r) /\ Deleted(r) /\ Closed(r)
                    /\ Carried(r) /\ Credit(r)
  /\ Claimed
  /\ BookedOnce
  /\ StockReconciles
  /\ DebtReconciles
-----------------------------------------------------------------------------
(* Sums over the items of a sale and over the sales.                       *)

(* The pieces of p on a list of items: a number, none of an empty list,    *)
(* and the first item's and the others'.                                   *)
LEMMA QtyType ==
  ASSUME NEW items \in Seq(Item), NEW p
  PROVE  QtyOf(items, p) \in Nat
<1> DEFINE f == [i \in DOMAIN items |-> IF items[i].product = p THEN items[i].quantity ELSE 0]
<1>1. DOMAIN items = 1 .. Len(items) /\ Len(items) \in Nat
  OBVIOUS
<1>2. IsFiniteSet(DOMAIN items)
  BY <1>1, FS_Interval
<1>3. f \in [DOMAIN items -> Nat]
  <2>1. \A i \in DOMAIN items : items[i] \in Item
    OBVIOUS
  <2> QED
    BY <2>1 DEF Item
<1> HIDE DEF f
<1>4. SumFunction(f) \in Nat
  BY <1>2, <1>3, FunctionSumNat
<1> QED
  BY <1>4 DEF QtyOf, f

LEMMA QtyNone ==
  ASSUME NEW p
  PROVE  QtyOf(<<>>, p) = 0
BY FunctionSumEmpty DEF QtyOf

LEMMA QtyTail ==
  ASSUME NEW items \in Seq(Item), NEW p, items # <<>>
  PROVE  QtyOf(items, p) = (IF Head(items).product = p THEN Head(items).quantity ELSE 0)
                             + QtyOf(Tail(items), p)
<1> DEFINE n == Len(items) - 1
           rest == Tail(items)
           f == [i \in DOMAIN items |-> IF items[i].product = p THEN items[i].quantity ELSE 0]
           g == [i \in DOMAIN rest |-> IF rest[i].product = p THEN rest[i].quantity ELSE 0]
<1>1. n \in Nat /\ DOMAIN items = 1 .. n + 1 /\ DOMAIN rest = 1 .. n
  OBVIOUS
<1>2. \A i \in 1 .. n : rest[i] = items[i + 1] /\ i + 1 \in DOMAIN items
  OBVIOUS
<1>3. \A i \in DOMAIN items : items[i] \in Item
  OBVIOUS
<1>4. f \in [1 .. n + 1 -> Int]
  BY <1>1, <1>3 DEF Item
<1>5. g \in [1 .. n -> Int]
  <2>1. \A i \in 1 .. n : rest[i].quantity \in Int
    BY <1>2, <1>3 DEF Item
  <2> QED
    BY <1>1, <2>1
<1>6. \A i \in 1 .. n : g[i] = f[i + 1]
  BY <1>1, <1>2
<1>7. f[1] = IF Head(items).product = p THEN Head(items).quantity ELSE 0
  BY <1>1
<1> HIDE DEF f, g, n, rest
<1>8. SumFunction(f) = f[1] + SumFunction(g)
  BY <1>1, <1>4, <1>5, <1>6, SumTail
<1>9. QtyOf(items, p) = SumFunction(f) /\ QtyOf(Tail(items), p) = SumFunction(g)
  BY DEF QtyOf, f, g, rest
<1> QED
  BY <1>7, <1>8, <1>9

\* What the row of x adds to the pieces of p that are sold, and to what c owes.
SoldBy(t, x, p) == IF x \in SaleIds(t) THEN QtyOf(t[x].items, p) ELSE 0
OwedBy(t, x, c) == IF x \in SaleIds(t) /\ t[x].client = c THEN t[x].owed ELSE 0

SalesTyped(t) == \A x \in Id : KindIn(t, x, "sale") => t[x] \in SaleRow

(* When one row changes, the sums change by what it adds.                  *)
LEMMA SoldChanges ==
  ASSUME NEW t, NEW u, SalesTyped(t), SalesTyped(u), NEW x \in Id, NEW p,
         \A y \in Id \ {x} : u[y] = t[y]
  PROVE  /\ SoldIn(t, p) \in Int
         /\ SoldIn(u, p) = SoldIn(t, p) - SoldBy(t, x, p) + SoldBy(u, x, p)
<1> DEFINE f == [y \in Id |-> SoldBy(t, y, p)]
           h == [y \in Id |-> SoldBy(u, y, p)]
<1>1. f \in [Id -> Int] /\ h \in [Id -> Int]
  <2>1. ASSUME NEW v, SalesTyped(v), NEW y \in Id PROVE SoldBy(v, y, p) \in Int
    <3>1. CASE y \in SaleIds(v)
      <4>1. v[y].items \in Seq(Item)
        BY <2>1, <3>1 DEF SalesTyped, SaleIds, SaleRow
      <4>2. QtyOf(v[y].items, p) \in Nat
        BY <4>1, QtyType
      <4> QED
        BY <3>1, <4>2 DEF SoldBy
    <3>2. CASE y \notin SaleIds(v)
      BY <3>2 DEF SoldBy
    <3> QED
      BY <3>1, <3>2
  <2> QED
    BY <2>1
<1>2. \A y \in Id \ {x} : h[y] = f[y]
  <2>1. \A y \in Id \ {x} : SoldBy(u, y, p) = SoldBy(t, y, p)
    BY DEF SoldBy, SaleIds, KindIn
  <2> QED
    BY <2>1
<1>3. IsFiniteSet(Id)
  BY NamesAssumption
<1>4. SoldIn(t, p) = SumFunction(f) /\ SoldIn(u, p) = SumFunction(h)
  BY DEF SoldIn, SoldBy
<1>5. f[x] = SoldBy(t, x, p) /\ h[x] = SoldBy(u, x, p)
  OBVIOUS
<1> HIDE DEF f, h
<1>6. SumFunction(f) \in Int
  BY <1>1, <1>3, FunctionSumInt
<1>7. SumFunction(h) = SumFunction(f) - f[x] + h[x]
  BY <1>1, <1>2, <1>3, SumChange
<1> QED
  BY <1>4, <1>5, <1>6, <1>7

LEMMA OwedChanges ==
  ASSUME NEW t, NEW u, SalesTyped(t), SalesTyped(u), NEW x \in Id, NEW c,
         \A y \in Id \ {x} : u[y] = t[y]
  PROVE  /\ OwedIn(t, c) \in Int
         /\ OwedIn(u, c) = OwedIn(t, c) - OwedBy(t, x, c) + OwedBy(u, x, c)
<1> DEFINE f == [y \in Id |-> OwedBy(t, y, c)]
           h == [y \in Id |-> OwedBy(u, y, c)]
<1>1. f \in [Id -> Int] /\ h \in [Id -> Int]
  <2>1. ASSUME NEW v, SalesTyped(v), NEW y \in Id PROVE OwedBy(v, y, c) \in Int
    BY <2>1 DEF SalesTyped, OwedBy, SaleIds, SaleRow
  <2> QED
    BY <2>1
<1>2. \A y \in Id \ {x} : h[y] = f[y]
  <2>1. \A y \in Id \ {x} : OwedBy(u, y, c) = OwedBy(t, y, c)
    BY DEF OwedBy, SaleIds, KindIn
  <2> QED
    BY <2>1
<1>3. IsFiniteSet(Id)
  BY NamesAssumption
<1>4. OwedIn(t, c) = SumFunction(f) /\ OwedIn(u, c) = SumFunction(h)
  BY DEF OwedIn, OwedBy
<1>5. f[x] = OwedBy(t, x, c) /\ h[x] = OwedBy(u, x, c)
  OBVIOUS
<1> HIDE DEF f, h
<1>6. SumFunction(f) \in Int
  BY <1>1, <1>3, FunctionSumInt
<1>7. SumFunction(h) = SumFunction(f) - f[x] + h[x]
  BY <1>1, <1>2, <1>3, SumChange
<1> QED
  BY <1>4, <1>5, <1>6, <1>7

(* Rows that are no sales, before and after, change no sum.                *)
LEMMA SumsUnchanged ==
  ASSUME NEW t, NEW u, SaleIds(u) = SaleIds(t), \A y \in SaleIds(t) : u[y] = t[y], NEW a
  PROVE  SoldIn(u, a) = SoldIn(t, a) /\ OwedIn(u, a) = OwedIn(t, a)
BY DEF SoldIn, OwedIn

-----------------------------------------------------------------------------
(* What a step does to the committed rows.                                 *)

\* What the invariant says of request r alone.
Sound(r) == Typed /\ Exclusive /\ NoOversell /\ Control(r) /\ Quiet(r) /\ Ledger(r)

LEMMA InvSound ==
  ASSUME Inv, NEW r \in Req
  PROVE  Sound(r)
BY TypedOK DEF Inv, Sound

Mine(r) ==
  Course(r) /\ Papers(r) /\ Created(r) /\ Deleted(r) /\ Closed(r) /\ Carried(r) /\ Credit(r)

(* Only the opening of a shift and a commit change committed rows.         *)
LEMMA TableKept ==
  ASSUME NEW r \in Req, Receive(r) \/ Step(r) \/ Fail(r), ~OpenShift(r), ~CommitTx(r)
  PROVE  table' = table
<1> USE DEF db, goods, Refuse, Rollback, Write
<1>1. CASE Receive(r) \/ GetCurrentOpen(r) \/ GetSale(r) \/ CheckStatus(r) \/ CheckReturns(r)
           \/ ReadItems(r) \/ AggregateSales(r) \/ Fail(r)
  BY <1>1 DEF Receive, GetCurrentOpen, GetSale, CheckStatus, CheckReturns, ReadItems,
              AggregateSales, Fail
<1>2. CASE LockItem(r) \/ DeductItem(r) \/ RestoreItem(r)
  BY <1>2 DEF LockItem, GetByIDForUpdate, LockRow, DeductItem, RestoreItem, UpdateStock
<1>3. CASE InsertSale(r) \/ UpdateDebt(r) \/ RemoveSale(r) \/ CloseShift(r)
  BY <1>3 DEF InsertSale, UpdateDebt, RemoveSale, CloseShift
<1> QED
  BY <1>1, <1>2, <1>3 DEF Step

(* What may happen to the row of the name x at a step of r.                *)
Born(r, x) == x = r /\ table[x] = NoRow /\ pc[r] # "ok" /\ pc'[r] = "ok"

Died(r, x) ==
  /\ pc[r] = "commit" /\ pc'[r] = "ok" /\ call'[r] = call[r]
  /\ call[r].op = "delete" /\ x = call[r].sale /\ x \in Locked(r)
  /\ table[x] = sale[r] /\ table'[x] = NoRow

Shut(r, x) ==
  /\ pc[r] = "commit" /\ call[r].op = "close" /\ x = shift[r] /\ x \in Locked(r)
  /\ table[x] \in ShiftRow /\ table[x].status = "open"
  /\ table'[x] = [table[x] EXCEPT !.status = "closed", !.totals = totals[r]]

LEMMA NamesChange ==
  ASSUME Unborn, NEW r \in Req, Sound(r), Mine(r), Receive(r) \/ Step(r) \/ Fail(r), NEW x \in Id
  PROVE  table'[x] = table[x] \/ Born(r, x) \/ Died(r, x) \/ Shut(r, x)
<1> USE DEF Sound, Typed
<1>1. CASE OpenShift(r)
  <2>1. pc[r] = "open" /\ pc'[r] = "ok" /\ \A y \in Id \ {r} : table'[y] = table[y]
    BY <1>1 DEF OpenShift, Autocommit, Leave, Goto, RowsOK, Rows
  <2>2. r \notin Past
    BY NamesAssumption
  <2> QED
    BY <2>1, <2>2 DEF Born, Unborn, Existed
<1>2. CASE CommitTx(r)
  <2>1. /\ pc[r] = "commit" /\ pc'[r] = "ok" /\ call'[r] = call[r]
        /\ table'[x] = Seen(r, x)
    BY <1>2, CommitEffect, VersionOf DEF CommitTx, Leave, Goto
  <2>2. CASE x \notin Locked(r)
    BY <2>1, <2>2 DEF Seen
  <2>3. CASE x \in Locked(r) /\ x = r
    <3>1. r \notin Past
      BY NamesAssumption
    <3> QED
      BY <2>1, <2>3, <3>1 DEF Born, Unborn, Existed
  <2>4. CASE x \in Locked(r) /\ x # r /\ call[r].op = "delete"
    <3>1. x = call[r].sale /\ Kind(call[r].sale, "sale")
      BY <2>1, <2>4 DEF Mine, Papers, Creating
    <3>2. table[x] = sale[r] /\ draft[r][x] = NoRow
      BY <2>1, <2>4, <3>1 DEF Mine, Deleted, Deleting, Kind, KindIn
    <3> QED
      BY <2>1, <2>4, <3>1, <3>2 DEF Died, Seen
  <2>5. CASE x \in Locked(r) /\ x # r /\ call[r].op # "delete"
    <3>1. call[r].op = "close" /\ x = shift[r]
      BY <2>1, <2>5 DEF Mine, Papers, Creating
    <3>2. /\ table[x].status = "open"
          /\ draft[r][x] = [table[x] EXCEPT !.status = "closed", !.totals = totals[r]]
      BY <2>1, <3>1 DEF Mine, Closed, Closing
    <3>3. table[x] \in ShiftRow
      BY <3>1, KindType DEF Mine, Course
    <3> QED
      BY <2>1, <2>5, <3>1, <3>2, <3>3 DEF Shut, Seen
  <2> QED
    BY <2>2, <2>3, <2>4, <2>5
<1> QED
  BY <1>1, <1>2, TableKept

(* A shift remains a shift.                                                *)
LEMMA ShiftsStay ==
  ASSUME Unborn, NEW r \in Req, Sound(r), Mine(r), Receive(r) \/ Step(r) \/ Fail(r),
         NEW s \in Id, Kind(s, "shift")
  PROVE  Kind(s, "shift")'
<1>1. table[s] # NoRow /\ table[s].kind = "shift"
  BY DEF Kind, KindIn
<1>2. CASE table'[s] = table[s]
  BY <1>1, <1>2 DEF Kind, KindIn
<1>3. CASE Born(r, s)
  BY <1>1, <1>3 DEF Born
<1>4. CASE Died(r, s)
  <2>1. table[s] \in SaleRow
    BY <1>4 DEF Died, Mine, Deleted, Deleting
  <2> QED
    BY <1>1, <2>1 DEF SaleRow
<1>5. CASE Shut(r, s)
  <2>1. totals[r] \in Totals
    BY DEF Sound, Typed
  <2>2. table'[s] \in ShiftRow
    BY <1>5, <2>1 DEF Shut, ShiftRow
  <2>3. table'[s].kind = "shift" /\ table'[s] # NoRow
    BY <2>2, NamesAssumption DEF ShiftRow, PaperRow
  <2> QED
    BY <2>3 DEF Kind, KindIn
<1> QED
  BY <1>2, <1>3, <1>4, <1>5, NamesChange

(* A request that has ended takes no step.                                 *)
LEMMA Running ==
  ASSUME NEW r \in Req, Receive(r) \/ Step(r) \/ Fail(r)
  PROVE  pc[r] \notin {"ok", "failed"}
BY DEF Step, Receive, Fail, InFlight, GetCurrentOpen, OpenShift, LockItem, DeductItem,
       RestoreItem, InsertSale, UpdateDebt, CommitTx, GetSale, CheckStatus, CheckReturns,
       ReadItems, RemoveSale, AggregateSales, CloseShift

LEMMA ExistedStays ==
  ASSUME NEW r \in Req, Sound(r), Receive(r) \/ Step(r) \/ Fail(r), NEW x \in Id, Existed(x)
  PROVE  Existed(x)'
<1>1. CASE x \in Past
  BY <1>1 DEF Existed
<1>2. CASE x \in Req \ {r}
  BY <1>2, StepIsLocal DEF Sound, Existed, Own
<1>3. x # r \/ x \in Past
  BY Running DEF Existed
<1> QED
  BY <1>1, <1>2, <1>3 DEF Id

(* A row that was deleted never comes back.                                *)
LEMMA NoRebirth ==
  ASSUME Unborn, NEW r \in Req, Sound(r), Mine(r), Receive(r) \/ Step(r) \/ Fail(r),
         NEW x \in Id, Existed(x), table[x] = NoRow
  PROVE  table'[x] = NoRow
<1>1. CASE Born(r, x)
  BY <1>1, NamesAssumption DEF Born, Existed
<1>2. CASE Died(r, x)
  BY <1>2 DEF Died
<1>3. ~Shut(r, x)
  BY NamesAssumption DEF Shut, PaperRow
<1> QED
  BY <1>1, <1>2, <1>3, NamesChange

(* Nobody else changes a row that a request has locked, or a client's      *)
(* liveness.                                                               *)
LEMMA LockedNamesStay ==
  ASSUME Unborn, NEW r \in Req, Sound(r), Mine(r), NEW q \in Req \ {r},
         Receive(r) \/ Step(r) \/ Fail(r), NEW x \in Locked(q), x \in Id, table[x] # NoRow
  PROVE  table'[x] = table[x]
<1>1. x \notin Locked(r)
  BY DEF Sound, Exclusive
<1> QED
  BY <1>1, NamesChange DEF Born, Died, Shut

LEMMA ClientsChange ==
  ASSUME NEW r \in Req, Sound(r), Mine(r), Receive(r) \/ Step(r) \/ Fail(r), NEW c \in Client
  PROVE  \/ table'[c] = table[c]
         \/ /\ CommitTx(r) /\ c \in Locked(r)
            /\ PastDebt(r) /\ c = sale[r].client
            /\ table'[c] = [table[c] EXCEPT !.debt = @ + DebtDelta(r)]
<1> USE DEF Sound, Typed
<1>1. CASE OpenShift(r)
  <2>1. c # r
    BY NamesAssumption DEF Id
  <2> QED
    BY <1>1, <2>1, VersionOf DEF OpenShift, Autocommit, RowsOK, Rows
<1>2. CASE CommitTx(r)
  <2>1. table'[c] = Seen(r, c)
    BY <1>2, CommitEffect, VersionOf DEF CommitTx
  <2> QED
    BY <1>2, <2>1 DEF Seen, Mine, Credit
<1> QED
  BY <1>1, <1>2, TableKept

LEMMA ClientsKept ==
  ASSUME NEW r \in Req, Sound(r), Mine(r), Receive(r) \/ Step(r) \/ Fail(r), NEW c \in Client
  PROVE  /\ table'[c].live = table[c].live
         /\ c \notin Locked(r) => table'[c] = table[c]
<1>1. table[c] \in ClientRow
  BY VersionOf DEF Sound, Typed, RowsOK, Rows
<1> QED
  BY <1>1, ClientsChange DEF ClientRow

LEMMA GoneStays ==
  ASSUME NEW r \in Req, Sound(r), NEW q \in Req \ {r}, Receive(r) \/ Step(r) \/ Fail(r), Gone(q)
  PROVE  Gone(q)'
<1>1. PICK w \in Req \ {q} : pc[w] = "ok" /\ call[w] = call[q]
  BY DEF Gone
<1>2. w # r
  BY <1>1, Running
<1>3. pc'[w] = "ok" /\ call'[w] = call[w] /\ call'[q] = call[q]
  BY <1>1, <1>2, StepIsLocal DEF Sound, Own
<1> QED
  BY <1>1, <1>3 DEF Gone

-----------------------------------------------------------------------------
(* A step of r and the books of another request.                           *)

\* What a step of another request does to the rows that matter to q.
Spares(q) ==
  /\ Own(q)' = Own(q)
  /\ Gone(q) => Gone(q)'
  /\ \A x \in Id : /\ Existed(x) => Existed(x)'
                   /\ Existed(x) /\ table[x] = NoRow => table'[x] = NoRow
                   /\ Kind(x, "shift") => Kind(x, "shift")'
                   /\ x \in Locked(q) /\ table[x] # NoRow => table'[x] = table[x]
  /\ \A x \in Id :
       Deleting(q) /\ x = call[q].sale /\ table[x] = sale[q] =>
         table'[x] = sale[q] \/ (table'[x] = NoRow /\ Gone(q)')
  /\ \A c \in Client : /\ table'[c].live = table[c].live
                       /\ c \in Locked(q) => table'[c] = table[c]

LEMMA BooksKept ==
  ASSUME NEW q \in Req, Sound(q), Mine(q), Spares(q)
  PROVE  Mine(q)'
<1>0. PICK x : x = call[q].sale
  OBVIOUS
<1>1. Own(q)' = Own(q) /\ Locked(q)' = Locked(q) /\ (Gone(q) => Gone(q)')
  BY DEF Spares, Own, Locked
<1>2. /\ draft'[q] = draft[q] /\ moved'[q] = moved[q] /\ pc'[q] = pc[q] /\ call'[q] = call[q]
      /\ shift'[q] = shift[q] /\ sale'[q] = sale[q] /\ todo'[q] = todo[q]
      /\ totals'[q] = totals[q]
  BY <1>1 DEF Own
<1>3. /\ Creating(q)' = Creating(q) /\ Deleting(q)' = Deleting(q)
      /\ Closing(q)' = Closing(q) /\ PastDebt(q)' = PastDebt(q)
      /\ DebtDelta(q)' = DebtDelta(q)
  BY <1>2 DEF Creating, Deleting, Closing, PastDebt, DebtDelta
<1>4. Course(q)'
  <2>0. PICK s : s = shift[q]
    OBVIOUS
  <2>1. s \in Id => Kind(s, "shift")'
    BY <2>0 DEF Mine, Course, Spares
  <2> QED
    BY <1>2, <2>0, <2>1 DEF Mine, Course
<1>5. Created(q)'
  BY <1>2, <1>3 DEF Mine, Created
<1>6. ASSUME Deleting(q)
      PROVE  /\ Existed(x)'
             /\ table'[x] = sale[q] \/ (table'[x] = NoRow /\ Gone(q)')
  <2>1. x \in Id
    BY <1>0, <1>6, BodyType DEF Deleting, Sound, Control, DeleteBody
  <2>2. Existed(x) /\ (table[x] = sale[q] \/ (table[x] = NoRow /\ Gone(q)))
    BY <1>0, <1>6 DEF Mine, Deleted
  <2> QED
    BY <1>0, <1>6, <2>1, <2>2 DEF Spares
<1>7. Deleted(q)'
  BY <1>0, <1>1, <1>2, <1>3, <1>6 DEF Mine, Deleted
<1>8. Papers(q)'
  <2>1. CASE pc[q] = "commit" /\ call[q].op = "delete"
    <3>1. Deleting(q) /\ ~Creating(q) /\ sale[q] \in SaleRow /\ x \in Id
      BY <1>0, <2>1, BodyType DEF Deleting, Creating, Mine, Deleted, Sound, Control, DeleteBody
    <3>2. ASSUME Kind(x, "sale") PROVE Kind(x, "sale")'
      <4>1. Locked(q) \cap Id = {x}
        BY <1>0, <2>1, <3>1, <3>2 DEF Mine, Papers
      <4>2. table'[x] = table[x]
        BY <3>1, <3>2, <4>1 DEF Spares, Kind, KindIn
      <4> QED
        BY <3>2, <4>2 DEF Kind, KindIn
    <3>3. ASSUME ~Kind(x, "sale") PROVE ~Kind(x, "sale")'
      <4>1. table[x] = NoRow
        BY <1>0, <3>1, <3>3, NamesAssumption DEF Mine, Deleted, Kind, KindIn, SaleRow, PaperRow
      <4>2. table'[x] = NoRow
        BY <1>0, <3>1, <4>1 DEF Mine, Deleted, Spares
      <4> QED
        BY <4>2 DEF Kind, KindIn
    <3> QED
      BY <1>0, <1>1, <1>2, <1>3, <2>1, <3>1, <3>2, <3>3 DEF Mine, Papers
  <2>2. CASE ~(pc[q] = "commit" /\ call[q].op = "delete")
    BY <1>1, <1>2, <1>3, <2>2 DEF Mine, Papers
  <2> QED
    BY <2>1, <2>2
<1>9. Closed(q)'
  <2>1. ASSUME Closing(q), pc[q] = "commit" PROVE table'[shift[q]] = table[shift[q]]
    <3>1. shift[q] \in Locked(q) /\ shift[q] \in Id /\ Kind(shift[q], "shift")
      BY <2>1 DEF Mine, Closed, Closing, Papers, Creating, Course
    <3> QED
      BY <3>1 DEF Spares, Kind, KindIn
  <2> QED
    BY <1>2, <1>3, <2>1 DEF Mine, Closed
<1>10. Carried(q)'
  BY <1>1, <1>2, <1>3 DEF Mine, Carried
<1>11. Credit(q)'
  <2>1. ASSUME NEW c \in Client
        PROVE  /\ table'[c].live = table[c].live
               /\ c \in Locked(q) => table'[c] = table[c]
    BY DEF Spares
  <2> QED
    BY <1>1, <1>2, <1>3, <2>1 DEF Mine, Credit
<1> QED
  BY <1>4, <1>5, <1>7, <1>8, <1>9, <1>10, <1>11 DEF Mine

\* The deletion of a sale by r, and another request that is deleting it.
LEMMA DeletedRow ==
  ASSUME Unborn, NEW r \in Req, Sound(r), Mine(r), NEW q \in Req \ {r},
         Receive(r) \/ Step(r) \/ Fail(r), call'[q] = call[q],
         Deleting(q), call[q] \in DeleteBody, sale[q] \in SaleRow,
         NEW x \in Id, x = call[q].sale, table[x] = sale[q]
  PROVE  table'[x] = sale[q] \/ (table'[x] = NoRow /\ Gone(q)')
<1>1. ~Born(r, x) /\ ~Shut(r, x)
  BY NamesAssumption DEF Born, Shut, SaleRow, ShiftRow, PaperRow
<1>2. ASSUME Died(r, x) PROVE table'[x] = NoRow /\ Gone(q)'
  <2>1. call[r] \in DeleteBody /\ call[r].sale = x
    BY <1>2, BodyType DEF Died, Sound, Control
  <2>2. \A b \in DeleteBody : b = [op |-> "delete", sale |-> b.sale]
    BY DEF DeleteBody
  <2>3. call[r] = call[q]
    BY <2>1, <2>2
  <2> QED
    BY <1>2, <2>3 DEF Died, Gone
<1> QED
  BY <1>1, <1>2, NamesChange

LEMMA OthersBooks ==
  ASSUME Unborn, NEW r \in Req, Sound(r), Mine(r), NEW q \in Req \ {r}, Sound(q), Mine(q),
         Receive(r) \/ Step(r) \/ Fail(r)
  PROVE  Mine(q)'
<1>1. Own(q)' = Own(q) /\ (Gone(q) => Gone(q)')
  BY StepIsLocal, GoneStays DEF Sound
<1>2. \A x \in Id : /\ Existed(x) => Existed(x)'
                    /\ Existed(x) /\ table[x] = NoRow => table'[x] = NoRow
                    /\ Kind(x, "shift") => Kind(x, "shift")'
                    /\ x \in Locked(q) /\ table[x] # NoRow => table'[x] = table[x]
  BY ExistedStays, NoRebirth, ShiftsStay, LockedNamesStay
<1>3. ASSUME NEW x \in Id, Deleting(q), x = call[q].sale, table[x] = sale[q]
      PROVE  table'[x] = sale[q] \/ (table'[x] = NoRow /\ Gone(q)')
  <2>1. call'[q] = call[q] /\ call[q] \in DeleteBody /\ sale[q] \in SaleRow
    BY <1>1, <1>3, BodyType DEF Own, Deleting, Sound, Control, Mine, Deleted
  <2> QED
    BY <1>3, <2>1, DeletedRow
<1>4. \A c \in Client : /\ table'[c].live = table[c].live
                        /\ c \in Locked(q) => table'[c] = table[c]
  BY ClientsKept DEF Sound, Exclusive
<1> QED
  BY <1>1, <1>2, <1>3, <1>4, BooksKept DEF Spares

-----------------------------------------------------------------------------
(* A step of r and its own books, statement by statement.                  *)

(* Nothing has been moved before the transaction.                          *)
LEMMA NotMovedYet ==
  ASSUME NEW r \in Req, Sound(r), pc[r] \in Outside, pc[r] # "ok"
  PROVE  /\ Locked(r) = {}
         /\ \A p \in Product : moved[r][p].shop = 0
<1>1. draft[r] = NoDraft
  BY DEF Sound, Quiet
<1>2. Locked(r) = {}
  BY <1>1 DEF Locked, NoDraft
<1> QED
  BY <1>2 DEF Sound, Ledger, NoMove

LEMMA GoneKept ==
  ASSUME NEW r \in Req, Sound(r), Receive(r) \/ Step(r) \/ Fail(r), call'[r] = call[r], Gone(r)
  PROVE  Gone(r)'
<1>1. PICK w \in Req \ {r} : pc[w] = "ok" /\ call[w] = call[r]
  BY DEF Gone
<1>2. pc'[w] = "ok" /\ call'[w] = call[w]
  BY <1>1, StepIsLocal DEF Sound, Own
<1> QED
  BY <1>1, <1>2 DEF Gone

(* A handler that returns, with success or not, keeps nothing.             *)
LEMMA LeaveBooks ==
  ASSUME NEW r \in Req, Sound(r), Mine(r), NEW outcome \in {"ok", "failed"}, Leave(r, outcome),
         Locked(r)' = {},
         \A p \in Product : moved'[r][p] = moved[r][p] \/ moved'[r][p].shop = 0
  PROVE  Mine(r)'
<1>1. /\ pc'[r] = outcome /\ shift'[r] = NoRow /\ todo'[r] = <<>> /\ call'[r] = call[r]
  BY DEF Leave, Goto, Sound, Typed
<1>2. NoRow \notin Id
  BY NamesAssumption DEF Row
<1>3. Course(r)'
  BY <1>1, <1>2 DEF Course
<1>4. /\ Creating(r)' = FALSE /\ Deleting(r)' = FALSE /\ Closing(r)' = FALSE
      /\ PastDebt(r)' = FALSE
  BY <1>1 DEF Creating, Deleting, Closing, PastDebt
<1>5. Papers(r)'
  BY <1>1, <1>4 DEF Papers
<1>6. Created(r)' /\ Deleted(r)' /\ Closed(r)' /\ Credit(r)'
  BY <1>4 DEF Created, Deleted, Closed, Credit
<1>7. Carried(r)'
  BY <1>1, <1>4 DEF Carried, Mine
<1> QED
  BY <1>3, <1>5, <1>6, <1>7 DEF Mine

LEMMA RefuseBooks ==
  ASSUME NEW r \in Req, Sound(r), Mine(r), Refuse(r)
  PROVE  Mine(r)'
<1>1. Locked(r)' = {} /\ Leave(r, "failed")
  BY RollbackEffect DEF Refuse, Sound, Typed
<1>2. \A p \in Product : moved'[r][p].shop = 0
  BY DEF Refuse, Still, Sound, Typed
<1> QED
  BY <1>1, <1>2, LeaveBooks

LEMMA EndBooks ==
  ASSUME NEW r \in Req, Sound(r), Mine(r), OpenShift(r) \/ CommitTx(r)
  PROVE  Mine(r)'
<1>1. Leave(r, "ok") /\ moved' = moved
  BY DEF OpenShift, CommitTx
<1>2. Locked(r)' = {}
  <2>1. CASE OpenShift(r)
    <3>1. Locked(r) = {} /\ draft' = draft
      BY <2>1, NotMovedYet DEF OpenShift, Autocommit, Outside
    <3> QED
      BY <3>1 DEF Locked
  <2>2. CASE CommitTx(r)
    BY <2>2, CommitEffect DEF CommitTx, Sound, Typed
  <2> QED
    BY <2>1, <2>2
<1> QED
  BY <1>1, <1>2, LeaveBooks

(* The statements outside the transaction.                                 *)
LEMMA ReceiveBooks ==
  ASSUME NEW r \in Req, Sound(r), Mine(r), Receive(r)
  PROVE  Mine(r)'
<1>1. PICK b \in Body : /\ call' = [call EXCEPT ![r] = b]
                        /\ Goto(r, IF b.op = "delete" THEN "get" ELSE "current")
  BY DEF Receive
<1>2. /\ pc[r] = "idle" /\ call'[r] = b
      /\ pc'[r] = IF b.op = "delete" THEN "get" ELSE "current"
      /\ table' = table /\ draft' = draft /\ moved' = moved
      /\ shift' = shift /\ sale' = sale /\ todo' = todo /\ totals' = totals
  BY <1>1 DEF Receive, Goto, Sound, Typed, db, goods
<1>3. /\ Locked(r) = {} /\ Locked(r)' = {}
      /\ \A p \in Product : moved[r][p].shop = 0
  BY <1>2, NotMovedYet DEF Outside, Locked
<1>4. NoRow \notin Id
  BY NamesAssumption DEF Row
<1>5. b.op \in {"create", "delete", "open", "close"}
  BY BodyType
<1>6. Course(r)'
  BY <1>2, <1>4, <1>5 DEF Mine, Course
<1>7. /\ Creating(r)' = FALSE /\ Deleting(r)' = FALSE /\ Closing(r)' = FALSE
      /\ PastDebt(r)' = FALSE
  BY <1>2 DEF Creating, Deleting, Closing, PastDebt
<1>8. Papers(r)' /\ Created(r)' /\ Deleted(r)' /\ Closed(r)' /\ Credit(r)' /\ Carried(r)'
  BY <1>2, <1>3, <1>7 DEF Papers, Created, Deleted, Closed, Credit, Carried
<1> QED
  BY <1>6, <1>8 DEF Mine

LEMMA CurrentBooks ==
  ASSUME NEW r \in Req, Sound(r), Mine(r), GetCurrentOpen(r)
  PROVE  Mine(r)'
<1> USE DEF Sound, Typed
<1>1. /\ pc[r] = "current" /\ shift[r] = NoRow /\ todo[r] = <<>>
      /\ Locked(r) = {} /\ \A p \in Product : moved[r][p].shop = 0
  BY NotMovedYet DEF GetCurrentOpen, Mine, Course, Outside
<1>2. NoRow \notin Id
  BY NamesAssumption DEF Row
<1>3. CASE Refuse(r)
  BY <1>3, RefuseBooks
<1>4. CASE ~Refuse(r)
  <2>1. /\ table' = table /\ draft' = draft /\ moved' = moved /\ call' = call
        /\ Locked(r)' = {}
    BY <1>1, <1>4 DEF GetCurrentOpen, db, goods, locals, Locked
  <2>2. \/ /\ call[r].op = "create" /\ pc'[r] = "lock" /\ todo'[r] = call[r].items
           /\ shift'[r] \in Id /\ Kind(shift'[r], "shift")
        \/ /\ call[r].op = "close" /\ pc'[r] = "aggregate" /\ todo'[r] = <<>>
           /\ shift'[r] \in Id /\ Kind(shift'[r], "shift")
        \/ /\ call[r].op = "open" /\ pc'[r] = "open" /\ todo'[r] = <<>> /\ shift'[r] = NoRow
    BY <1>1, <1>4, CurrentOpenType DEF GetCurrentOpen, Goto, locals, OpenShifts, Shifts
  <2>3. \A s \in Id : Kind(s, "shift") => Kind(s, "shift")'
    BY <2>1 DEF Kind, KindIn
  <2>4. Kind(shift'[r], "shift") => Kind(shift[r], "shift")'
    BY <2>1 DEF Kind, KindIn
  <2>5. Course(r)'
    BY <1>2, <2>1, <2>2, <2>4 DEF Course
  <2>6. /\ Creating(r)' = FALSE /\ Deleting(r)' = FALSE /\ PastDebt(r)' = FALSE
        /\ Closing(r)' => pc'[r] # "commit" /\ shift'[r] \in Id
    BY <2>1, <2>2 DEF Creating, Deleting, Closing, PastDebt
  <2>7. Papers(r)' /\ Created(r)' /\ Deleted(r)' /\ Closed(r)' /\ Credit(r)'
    BY <2>1, <2>2, <2>6 DEF Papers, Created, Deleted, Closed, Credit
  <2>8. Carried(r)'
    <3>1. call[r].op = "create" => call[r].items \in Seq(Item)
      BY <1>1, BodyType DEF Control, CreateBody
    <3>2. \A p \in Product : call[r].op = "create" =>
            0 = QtyOf(call[r].items, p) - QtyOf(call[r].items, p)
      BY <3>1, QtyType
    <3> QED
      BY <1>1, <2>1, <2>2, <2>6, <3>2 DEF Carried
  <2> QED
    BY <2>5, <2>7, <2>8 DEF Mine
<1> QED
  BY <1>3, <1>4

LEMMA GuardsBooks ==
  ASSUME Unborn, NEW r \in Req, Sound(r), Mine(r),
         GetSale(r) \/ CheckStatus(r) \/ CheckReturns(r) \/ AggregateSales(r)
  PROVE  Mine(r)'
<1> USE DEF Sound, Typed
<1>1. /\ pc[r] \in {"get", "status", "returns", "aggregate"}
      /\ Locked(r) = {} /\ \A p \in Product : moved[r][p].shop = 0
  BY NotMovedYet DEF GetSale, CheckStatus, CheckReturns, AggregateSales, Outside
<1>2. NoRow \notin Id
  BY NamesAssumption DEF Row
<1>3. CASE Refuse(r)
  BY <1>3, RefuseBooks
<1>4. CASE ~Refuse(r)
  <2>1. /\ table' = table /\ draft' = draft /\ moved' = moved /\ call' = call /\ todo' = todo
        /\ Locked(r)' = {}
    BY <1>1, <1>4 DEF GetSale, CheckStatus, CheckReturns, AggregateSales, db, goods, locals,
                      Locked
  <2>2. \/ /\ pc[r] = "get" /\ pc'[r] = "status" /\ Kind(call[r].sale, "sale")
           /\ sale'[r] = table[call[r].sale] /\ shift'[r] = shift[r]
        \/ /\ pc[r] = "status" /\ pc'[r] = "returns" /\ sale[r].shift \in OpenShifts
           /\ sale'[r] = sale[r] /\ shift'[r] = sale[r].shift
        \/ /\ pc[r] = "returns" /\ pc'[r] = "items"
           /\ sale'[r] = sale[r] /\ shift'[r] = shift[r]
        \/ /\ pc[r] = "aggregate" /\ pc'[r] = "close"
           /\ sale'[r] = sale[r] /\ shift'[r] = shift[r]
    BY <1>4 DEF GetSale, CheckStatus, CheckReturns, AggregateSales, Goto, locals, StatusOpen
  <2>3. /\ pc[r] \in {"get", "status", "returns"} => call[r] \in DeleteBody
        /\ pc[r] = "aggregate" => call[r].op = "close"
    BY <1>1, BodyType DEF Control, Mine, Course
  <2>4. shift'[r] \in Id => Kind(shift[r], "shift")'
    <3>1. shift'[r] \in Id => Kind(shift'[r], "shift")
      BY <2>2 DEF Mine, Course, OpenShifts, Shifts
    <3> QED
      BY <2>1, <3>1 DEF Kind, KindIn
  <2>5. Course(r)'
    BY <1>2, <2>1, <2>2, <2>3, <2>4 DEF Mine, Course, DeleteBody
  <2>6. /\ Creating(r)' = FALSE /\ PastDebt(r)' = FALSE
        /\ Closing(r)' => pc[r] = "aggregate" /\ pc'[r] # "commit"
        /\ Deleting(r)' => pc[r] \in {"get", "status", "returns"}
    BY <2>1, <2>2, <2>3 DEF Creating, Deleting, Closing, PastDebt, DeleteBody
  <2>7. Papers(r)' /\ Created(r)' /\ Credit(r)'
    BY <2>1, <2>2, <2>6 DEF Papers, Created, Credit
  <2>8. Closed(r)'
    BY <2>2, <2>3, <2>6 DEF Mine, Closed, Closing
  <2>9. Deleted(r)'
    <3> SUFFICES ASSUME Deleting(r)' PROVE Deleted(r)'
      BY DEF Deleted
    <3>0. PICK x : x = call[r].sale
      OBVIOUS
    <3>1. x \in Id /\ call'[r].sale = x
      BY <2>1, <2>3, <2>6, <3>0 DEF DeleteBody
    <3>2. Existed(x) => Existed(x)'
      BY <3>1, ExistedStays DEF Step
    <3>3. CASE pc[r] = "get"
      <4>1. sale'[r] = table[x] /\ table[x] \in SaleRow /\ table[x] # NoRow
        BY <2>2, <3>0, <3>1, <3>3, KindType DEF Kind, KindIn
      <4>2. Existed(x)
        BY <3>1, <4>1 DEF Unborn, Existed, Id
      <4> QED
        BY <2>1, <2>2, <3>1, <3>2, <3>3, <4>1, <4>2 DEF Deleted
    <3>4. CASE pc[r] # "get"
      <4>1. Deleting(r) /\ pc[r] \in {"status", "returns"}
        BY <2>3, <2>6, <3>4 DEF Deleting, DeleteBody
      <4>2. Gone(r) => Gone(r)'
        BY <2>1, GoneKept DEF Step
      <4> QED
        BY <2>1, <2>2, <3>0, <3>1, <3>2, <4>1, <4>2 DEF Mine, Deleted
    <3> QED
      BY <3>3, <3>4
  <2>10. Carried(r)'
    BY <1>1, <2>1, <2>2, <2>3 DEF Carried, Deleting, DeleteBody
  <2> QED
    BY <2>5, <2>7, <2>8, <2>9, <2>10 DEF Mine
<1> QED
  BY <1>3, <1>4

(* The statements of the transaction.                                      *)

\* What holds of the deletion of a sale still holds when the statement leaves
\* the committed rows, the sale and the locked papers alone.
LEMMA DeletedKept ==
  ASSUME NEW r \in Req, Sound(r), Mine(r), Receive(r) \/ Step(r) \/ Fail(r),
         Deleting(r), pc[r] # "status", table' = table, call'[r] = call[r],
         sale'[r] = sale[r], shift'[r] = shift[r],
         pc'[r] = "commit" /\ call[r].sale \in Locked(r)' => draft'[r][call[r].sale] = NoRow
  PROVE  Deleted(r)'
<1>0. PICK x : x = call[r].sale
  OBVIOUS
<1>1. x \in Id
  BY <1>0, BodyType DEF Deleting, Sound, Control, DeleteBody
<1>2. Existed(x)'
  BY <1>0, <1>1, ExistedStays DEF Mine, Deleted
<1>3. Gone(r) => Gone(r)'
  BY GoneKept
<1> QED
  BY <1>0, <1>2, <1>3 DEF Mine, Deleted

LEMMA ReadItemsBooks ==
  ASSUME NEW r \in Req, Sound(r), Mine(r), ReadItems(r)
  PROVE  Mine(r)'
<1> DEFINE items == IF Kind(call[r].sale, "sale") THEN table[call[r].sale].items ELSE <<>>
<1>1. /\ pc[r] = "items" /\ todo[r] = <<>> /\ Locked(r) = {}
      /\ \A p \in Product : moved[r][p].shop = 0
      /\ call[r] \in DeleteBody /\ call[r].op = "delete" /\ Deleting(r)
  BY NotMovedYet, BodyType DEF ReadItems, Mine, Course, Outside, Sound, Control, Deleting
<1>2. /\ todo' = [todo EXCEPT ![r] = items]
      /\ pc' = [pc EXCEPT ![r] = AfterItems(r, items)]
      /\ table' = table /\ draft' = draft /\ moved' = moved
      /\ call' = call /\ shift' = shift /\ sale' = sale
  BY DEF ReadItems, Goto, db, goods
<1>3. /\ todo'[r] = items /\ pc'[r] = AfterItems(r, items) /\ Locked(r)' = {}
  BY <1>1, <1>2 DEF Sound, Typed, Locked
<1>4. /\ pc'[r] \in {"lock", "debt", "remove"}
      /\ items # <<>> => pc'[r] = "lock"
  BY <1>1, <1>3 DEF AfterItems
<1>5. Course(r)'
  BY <1>1, <1>2, <1>3, <1>4 DEF Mine, Course, Kind, KindIn
<1>6. Papers(r)' /\ Created(r)' /\ Closed(r)'
  BY <1>1, <1>2, <1>3, <1>4 DEF Papers, Created, Closed, Creating, Closing
<1>7. Deleted(r)'
  BY <1>1, <1>2, <1>4, DeletedKept DEF Step
<1>8. Carried(r)'
  <2>1. sale[r] \in SaleRow /\ (~Gone(r) => table[call[r].sale] = sale[r])
    BY <1>1 DEF Mine, Deleted
  <2>2. ~Gone(r) => items = sale[r].items
    BY <2>1, NamesAssumption DEF Kind, KindIn, SaleRow, PaperRow
  <2>3. sale[r].items \in Seq(Item)
    BY <2>1 DEF SaleRow
  <2>4. \A p \in Product : 0 = QtyOf(sale[r].items, p) - QtyOf(sale[r].items, p)
    BY <2>3, QtyType
  <2>5. Gone(r) => Gone(r)'
    BY <1>2, GoneKept DEF Step
  <2> HIDE DEF items
  <2> QED
    BY <1>1, <1>2, <1>3, <2>2, <2>4, <2>5 DEF Carried
<1>9. Credit(r)'
  <2>1. sale[r] \in SaleRow
    BY <1>1 DEF Mine, Deleted
  <2>2. PastDebt(r)' => sale[r].owed = 0
    <3>1. PastDebt(r)' => pc'[r] = "remove"
      BY <1>1, <1>2, <1>4 DEF PastDebt
    <3>2. pc'[r] = "remove" => ~(sale[r].owed > 0)
      BY <1>1, <1>3 DEF AfterItems
    <3> QED
      BY <2>1, <3>1, <3>2 DEF SaleRow
  <2> QED
    BY <1>2, <1>3, <2>2 DEF Credit
<1> QED
  BY <1>5, <1>6, <1>7, <1>8, <1>9 DEF Mine

LEMMA LockItemBooks ==
  ASSUME NEW r \in Req, Sound(r), Mine(r), LockItem(r)
  PROVE  Mine(r)'
<1> USE DEF Sound, Typed
<1>1. CASE Refuse(r)
  BY <1>1, RefuseBooks
<1>2. CASE ~Refuse(r)
  <2>0. PICK p : p = Head(todo[r]).product
    OBVIOUS
  <2>1. p \in Product /\ p \notin Id /\ p \notin Client /\ LockRow(r, p)
    BY <1>2, <2>0, TodoType, NamesAssumption DEF LockItem, GetByIDForUpdate, Control
  <2>2. /\ pc[r] = "lock" /\ pc'[r] = "write" /\ table' = table /\ moved' = moved
        /\ call' = call /\ shift' = shift /\ sale' = sale /\ todo' = todo /\ totals' = totals
        /\ Locked(r)' = Locked(r) \cup {p} /\ \A x \in Locked(r) : draft'[r][x] = draft[r][x]
    BY <1>2, <2>1, LockRowEffect DEF LockItem, Goto, locals
  <2>3. call[r].op \in {"create", "delete"}
    BY <2>2 DEF Control
  <2>4. Course(r)'
    BY <2>2, <2>3 DEF Mine, Course, Kind, KindIn
  <2>5. /\ Creating(r)' = FALSE /\ Closing(r)' = FALSE /\ PastDebt(r)' = FALSE
        /\ ~Creating(r) /\ ~PastDebt(r) /\ Deleting(r)' = Deleting(r)
    BY <2>2, <2>3 DEF Creating, Closing, PastDebt, Deleting
  <2>6. Papers(r)' /\ Created(r)' /\ Closed(r)' /\ Credit(r)'
    BY <2>1, <2>2, <2>5 DEF Mine, Papers, Created, Closed, Credit
  <2>7. Deleted(r)'
    BY <2>2, <2>5, DeletedKept DEF Step, Deleted
  <2>8. Carried(r)'
    <3>1. Gone(r) => Gone(r)'
      BY <2>2, GoneKept DEF Step
    <3> QED
      BY <2>2, <2>3, <2>5, <3>1 DEF Mine, Carried
  <2> QED
    BY <2>4, <2>6, <2>7, <2>8 DEF Mine
<1> QED
  BY <1>1, <1>2

(* An item written: n pieces of the product go back to the shop.           *)
LEMMA WriteItemBooks ==
  ASSUME NEW r \in Req, Sound(r), Mine(r), pc[r] = "write", Step(r), NEW n \in Int,
         UpdateStock(r, Head(todo[r]).product, product[r].shop + n, product[r].warehouse),
         todo' = [todo EXCEPT ![r] = Tail(@)],
         Goto(r, AfterItems(r, Tail(todo[r]))),
         UNCHANGED <<product, call, shift, sale, totals>>,
         n = IF call[r].op = "create" THEN -Head(todo[r]).quantity ELSE Head(todo[r]).quantity
  PROVE  Mine(r)'
<1>0. PICK p : p = Head(todo[r]).product
  OBVIOUS
<1>1. /\ call[r].op \in {"create", "delete"} /\ todo[r] # <<>>
      /\ product[r] \in ProductRow /\ p \in Locked(r) /\ product[r] = draft[r][p]
  BY <1>0, ProductType, HoldingOf DEF Sound, Control
<1>2. /\ p \in Product /\ table' = table /\ Locked(r)' = Locked(r)
      /\ \A x \in Locked(r) \ {p} : draft'[r][x] = draft[r][x]
      /\ \A x \in Product \ {p} : moved'[r][x] = moved[r][x]
      /\ draft'[r][p].shop = product[r].shop + n
      /\ IsMoved(table[p], moved'[r][p], draft'[r][p])
  <2>1. product[r].shop + n \in Int
    BY <1>1 DEF ProductRow
  <2> QED
    BY <1>0, <2>1, UpdateStockEffect, HoldingOf DEF Sound
<1>3. p \notin Id /\ p \notin Client
  BY <1>2, NamesAssumption
<1>4. /\ todo'[r] = Tail(todo[r]) /\ pc'[r] = AfterItems(r, Tail(todo[r]))
      /\ call' = call /\ shift' = shift /\ sale' = sale
  BY DEF Goto, Sound, Typed
<1>5. /\ pc'[r] \in {"lock", "insert", "debt", "remove"}
      /\ Tail(todo[r]) # <<>> => pc'[r] = "lock"
      /\ call[r].op = "create" => pc'[r] \in {"lock", "insert"}
      /\ call[r].op = "delete" => pc'[r] \in {"lock", "debt", "remove"}
      /\ pc'[r] = "remove" => call[r].op = "delete" /\ ~(sale[r].owed > 0)
  BY <1>1, <1>4 DEF AfterItems
<1>6. Course(r)'
  BY <1>1, <1>2, <1>4, <1>5 DEF Mine, Course, Kind, KindIn
<1>7. /\ Creating(r)' = FALSE /\ Closing(r)' = FALSE
      /\ ~Creating(r) /\ ~Closing(r) /\ ~PastDebt(r) /\ Deleting(r)' = Deleting(r)
  BY <1>1, <1>4, <1>5 DEF Creating, Closing, PastDebt, Deleting
<1>8. Papers(r)' /\ Created(r)' /\ Closed(r)'
  BY <1>2, <1>4, <1>5, <1>7 DEF Mine, Papers, Created, Closed
<1>9. Deleted(r)'
  BY <1>2, <1>4, <1>5, <1>7, DeletedKept DEF Deleted
<1>10. Credit(r)'
  <2>1. \A c \in Client : c \notin Locked(r)'
    BY <1>2, <1>7 DEF Mine, Credit
  <2>2. PastDebt(r)' => sale[r].owed = 0
    <3>1. PastDebt(r)' => pc'[r] = "remove"
      BY <1>4, <1>5 DEF PastDebt
    <3>2. call[r].op = "delete" => sale[r] \in SaleRow
      BY DEF Sound, Control
    <3> QED
      BY <1>5, <3>1, <3>2 DEF SaleRow
  <2> QED
    BY <1>4, <2>1, <2>2 DEF Credit
<1>11. Carried(r)'
  <2>1. /\ todo[r] \in Seq(Item) /\ Tail(todo[r]) \in Seq(Item)
        /\ Head(todo[r]).quantity \in Nat
    BY <1>1, TodoType DEF Sound, Typed
  <2>2. moved'[r][p].shop = moved[r][p].shop + n
    <3>1. IsMoved(table[p], moved[r][p], product[r])
      BY <1>1, <1>2 DEF Sound, Ledger
    <3>2. table[p] \in ProductRow /\ moved[r][p] \in Movement
      BY <1>2, VersionOf DEF Sound, Typed, RowsOK, Rows
    <3>3. moved'[r][p] \in Movement
      <4>1. Typed' /\ p \in Product
        BY <1>2, TypeStep DEF Sound
      <4> QED
        BY <4>1 DEF Typed
    <3>4. /\ table[p].shop \in Int /\ moved[r][p].shop \in Int /\ moved'[r][p].shop \in Int
      BY <3>2, <3>3 DEF ProductRow, Movement
    <3>5. /\ product[r].shop = table[p].shop + moved[r][p].shop
          /\ draft'[r][p].shop = table[p].shop + moved'[r][p].shop
      BY <1>2, <3>1 DEF IsMoved
    <3> QED
      BY <1>2, <3>4, <3>5
  <2>3. \A x \in Product :
          moved'[r][x].shop = IF x = p THEN moved[r][x].shop + n ELSE moved[r][x].shop
    BY <1>2, <2>2
  <2>4. \A x \in Product :
          /\ QtyOf(todo[r], x) = (IF x = p THEN Head(todo[r]).quantity ELSE 0)
                                   + QtyOf(Tail(todo[r]), x)
          /\ QtyOf(Tail(todo[r]), x) \in Nat
          /\ moved[r][x].shop \in Int
    BY <1>0, <1>1, <2>1, QtyType, QtyTail DEF Sound, Typed, Movement
  <2>5. call[r].op = "create" => call[r].items \in Seq(Item)
    BY BodyType DEF Sound, Control, CreateBody
  <2>6. call[r].op = "delete" => Deleting(r) /\ sale[r].items \in Seq(Item)
    BY DEF Deleting, Sound, Control, SaleRow
  <2>7. \A x \in Product :
          /\ call[r].op = "create" => QtyOf(call[r].items, x) \in Nat
          /\ call[r].op = "delete" => QtyOf(sale[r].items, x) \in Nat
    BY <2>5, <2>6, QtyType
  <2>8. Gone(r) => Gone(r)'
    BY <1>4, GoneKept
  <2>9. ASSUME NEW x \in Product
        PROVE  /\ call[r].op = "create" =>
                    moved'[r][x].shop = QtyOf(Tail(todo[r]), x) - QtyOf(call[r].items, x)
               /\ (call[r].op = "delete" /\ ~Gone(r)) =>
                    moved'[r][x].shop = QtyOf(sale[r].items, x) - QtyOf(Tail(todo[r]), x)
    <3>0. /\ moved'[r][x].shop = IF x = p THEN moved[r][x].shop + n ELSE moved[r][x].shop
          /\ QtyOf(todo[r], x) = (IF x = p THEN Head(todo[r]).quantity ELSE 0)
                                   + QtyOf(Tail(todo[r]), x)
          /\ QtyOf(Tail(todo[r]), x) \in Nat /\ moved[r][x].shop \in Int
      BY <2>3, <2>4
    <3>1. call[r].op = "create" =>
            moved[r][x].shop = QtyOf(todo[r], x) - QtyOf(call[r].items, x)
      BY DEF Mine, Carried
    <3>2. (call[r].op = "delete" /\ ~Gone(r)) =>
            moved[r][x].shop = QtyOf(sale[r].items, x) - QtyOf(todo[r], x)
      BY <2>6 DEF Mine, Carried
    <3>3. CASE call[r].op = "create"
      <4>1. n = -Head(todo[r]).quantity /\ QtyOf(call[r].items, x) \in Nat
        BY <2>7, <3>3
      <4>2. moved'[r][x].shop = QtyOf(Tail(todo[r]), x) - QtyOf(call[r].items, x)
        BY <2>1, <3>0, <3>1, <3>3, <4>1
      <4> QED
        BY <3>3, <4>2
    <3>4. CASE call[r].op = "delete" /\ ~Gone(r)
      <4>1. n = Head(todo[r]).quantity /\ QtyOf(sale[r].items, x) \in Nat
        BY <2>7, <3>4
      <4>2. moved'[r][x].shop = QtyOf(sale[r].items, x) - QtyOf(Tail(todo[r]), x)
        BY <2>1, <3>0, <3>2, <3>4, <4>1
      <4> QED
        BY <3>4, <4>2
    <3> QED
      BY <1>1, <3>3, <3>4
  <2> QED
    BY <1>1, <1>4, <1>7, <2>8, <2>9 DEF Carried, Deleting
<1> QED
  BY <1>6, <1>8, <1>9, <1>10, <1>11 DEF Mine

LEMMA ItemBooks ==
  ASSUME NEW r \in Req, Sound(r), Mine(r), DeductItem(r) \/ RestoreItem(r)
  PROVE  Mine(r)'
<1>1. CASE Refuse(r)
  BY <1>1, RefuseBooks
<1>2. CASE ~Refuse(r)
  <2>1. pc[r] = "write" /\ call[r].op \in {"create", "delete"}
    BY DEF DeductItem, RestoreItem
  <2>2. /\ product[r].shop \in Int /\ Head(todo[r]).quantity \in Nat
    BY <2>1, ProductType, HoldingOf, TodoType DEF Sound, ProductRow
  <2>3. CASE DeductItem(r)
    <3>1. PICK n : n = -Head(todo[r]).quantity
      OBVIOUS
    <3>2. n \in Int /\ product[r].shop - Head(todo[r]).quantity = product[r].shop + n
      BY <2>2, <3>1
    <3> QED
      BY <1>2, <2>1, <2>3, <3>1, <3>2, WriteItemBooks DEF DeductItem, Step
  <2>4. CASE RestoreItem(r)
    <3>1. PICK n : n = Head(todo[r]).quantity
      OBVIOUS
    <3>2. n \in Int /\ call[r].op = "delete"
      BY <2>2, <2>4, <3>1 DEF RestoreItem
    <3> QED
      BY <1>2, <2>1, <2>4, <3>1, <3>2, WriteItemBooks DEF RestoreItem, Step
  <2> QED
    BY <2>3, <2>4
<1> QED
  BY <1>1, <1>2

LEMMA InsertSaleBooks ==
  ASSUME NEW r \in Req, Sound(r), Mine(r), InsertSale(r)
  PROVE  Mine(r)'
<1> DEFINE new == [kind |-> "sale", shift |-> shift[r], items |-> call[r].items,
                   paid |-> call[r].paid, owed |-> call[r].owed, client |-> call[r].client]
<1>1. CASE Refuse(r)
  BY <1>1, RefuseBooks
<1>2. CASE ~Refuse(r)
  <2>1. /\ pc[r] = "insert" /\ call[r].op = "create" /\ call[r] \in CreateBody
        /\ shift[r] \in Id /\ todo[r] = <<>> /\ r \in Id /\ r \notin Client /\ r \notin Product
    BY BodyType, NamesAssumption DEF InsertSale, Sound, Control, Mine, Course, Id
  <2>2. new \in SaleRow /\ new.shift = shift[r] /\ new.items = call[r].items
        /\ new.owed = call[r].owed
    BY <2>1 DEF SaleRow, CreateBody
  <2>3. /\ Write(r, [x \in {r} |-> new]) /\ sale' = [sale EXCEPT ![r] = new]
        /\ Goto(r, IF call[r].owed > 0 THEN "debt" ELSE "commit")
        /\ UNCHANGED <<goods, call, shift, todo, totals>>
    BY <1>2 DEF InsertSale
  <2> HIDE DEF new
  <2>4. \E w : DOMAIN w = {r} /\ w[r] = new /\ Write(r, w)
    <3>1. DOMAIN [x \in {r} |-> new] = {r} /\ [x \in {r} |-> new][r] = new
      OBVIOUS
    <3> QED
      BY <2>3, <3>1
  <2>5. /\ table' = table /\ Locked(r)' = Locked(r) \cup {r} /\ draft'[r][r] = new
    BY <2>4, WriteEffect DEF Sound, Typed
  <2>6. /\ sale'[r] = new /\ pc'[r] = IF new.owed > 0 THEN "debt" ELSE "commit"
        /\ moved' = moved /\ call' = call /\ shift' = shift /\ todo' = todo
    BY <2>2, <2>3 DEF Goto, goods, Sound, Typed
  <2>7. ~Creating(r) /\ ~PastDebt(r) /\ Creating(r)' = TRUE /\ Deleting(r)' = FALSE
        /\ Closing(r)' = FALSE
    BY <2>1, <2>6 DEF Creating, PastDebt, Deleting, Closing
  <2>8. Course(r)'
    BY <2>1, <2>5, <2>6 DEF Mine, Course, Kind, KindIn
  <2>9. Papers(r)'
    BY <2>1, <2>5, <2>7 DEF Mine, Papers
  <2>10. Created(r)' /\ Deleted(r)' /\ Closed(r)'
    BY <2>1, <2>2, <2>5, <2>6, <2>7 DEF Created, Deleted, Closed
  <2>11. Carried(r)'
    BY <2>1, <2>6, <2>7 DEF Mine, Carried
  <2>12. Credit(r)'
    <3>1. \A c \in Client : c \notin Locked(r)'
      BY <2>1, <2>5, <2>7 DEF Mine, Credit
    <3>2. PastDebt(r)' => new.owed = 0
      BY <2>1, <2>2, <2>6 DEF PastDebt, SaleRow
    <3> QED
      BY <2>6, <3>1, <3>2 DEF Credit
  <2> QED
    BY <2>8, <2>9, <2>10, <2>11, <2>12 DEF Mine
<1> QED
  BY <1>1, <1>2

LEMMA UpdateDebtBooks ==
  ASSUME NEW r \in Req, Sound(r), Mine(r), UpdateDebt(r)
  PROVE  Mine(r)'
<1>0. PICK c : c = sale[r].client
  OBVIOUS
<1> DEFINE new == [Seen(r, c) EXCEPT !.debt = @ + DebtDelta(r)]
<1>1. /\ pc[r] = "debt" /\ call[r].op \in {"create", "delete"} /\ todo[r] = <<>>
      /\ sale[r] \in SaleRow /\ c \in Client /\ c \notin Id /\ ~PastDebt(r)
  BY <1>0, NamesAssumption DEF UpdateDebt, Sound, Control, Mine, Course, SaleRow, PastDebt
<1>2. (Locked(r) \cap Client) = {} /\ Seen(r, c) = table[c]
  BY <1>1 DEF Mine, Credit, Seen
<1>3. /\ pc'[r] = IF call[r].op = "create" THEN "commit" ELSE "remove"
      /\ moved' = moved /\ call' = call /\ shift' = shift /\ sale' = sale /\ todo' = todo
  BY DEF UpdateDebt, Goto, goods, locals, Sound, Typed
<1>4. /\ table' = table
      /\ \A x \in Locked(r) : x # c => draft'[r][x] = draft[r][x]
      /\ \/ /\ Locked(r)' = Locked(r) \cup {c} /\ draft'[r][c] = new
         \/ Locked(r)' = Locked(r) /\ ~table[c].live
  <2>1. CASE Seen(r, c).live
    <3> HIDE DEF new
    <3>1. Write(r, [x \in {c} |-> new])
      BY <1>0, <2>1 DEF UpdateDebt, new
    <3>2. \E w : DOMAIN w = {c} /\ w[c] = new /\ Write(r, w)
      <4>1. DOMAIN [x \in {c} |-> new] = {c} /\ [x \in {c} |-> new][c] = new
        OBVIOUS
      <4> QED
        BY <3>1, <4>1
    <3>3. PICK w : DOMAIN w = {c} /\ w[c] = new /\ Write(r, w)
      BY <3>2
    <3>4. /\ table' = table /\ Locked(r)' = Locked(r) \cup {c}
          /\ \A x \in Locked(r)' : draft'[r][x] = IF x \in {c} THEN w[x] ELSE draft[r][x]
      BY <3>3, WriteEffect DEF Sound, Typed
    <3> QED
      BY <3>3, <3>4
  <2>2. CASE ~Seen(r, c).live
    BY <1>0, <1>2, <2>2 DEF UpdateDebt, db, Locked
  <2> QED
    BY <2>1, <2>2
<1>5. Course(r)'
  BY <1>1, <1>3, <1>4 DEF Mine, Course, Kind, KindIn
<1>6. /\ Creating(r)' = Creating(r) /\ Deleting(r)' = Deleting(r) /\ Closing(r)' = FALSE
      /\ Creating(r) = (call[r].op = "create") /\ Deleting(r) = (call[r].op = "delete")
  BY <1>1, <1>3 DEF Creating, Deleting, Closing
<1>7. Papers(r)'
  <2>1. (Locked(r) \cap Id)' = Locked(r) \cap Id
    BY <1>1, <1>4
  <2>2. Locked(r) \cap Id = IF Creating(r) THEN {r} ELSE {}
    BY <1>1 DEF Mine, Papers
  <2> QED
    BY <1>1, <1>3, <1>6, <2>1, <2>2 DEF Papers
<1>8. Created(r)'
  <2>1. r # c /\ r \in Id
    BY <1>1 DEF Id
  <2>2. Creating(r) => r \in Locked(r)
    BY <2>1 DEF Mine, Papers
  <2> QED
    BY <1>3, <1>4, <1>6, <2>1, <2>2 DEF Mine, Created
<1>9. Deleted(r)'
  BY <1>1, <1>3, <1>4, <1>6, DeletedKept DEF Step, Deleted
<1>10. Closed(r)'
  BY <1>6 DEF Closed
<1>11. Carried(r)'
  <2>1. Gone(r) => Gone(r)'
    BY <1>3, GoneKept DEF Step
  <2> QED
    BY <1>1, <1>3, <1>6, <2>1 DEF Mine, Carried
<1>12. Credit(r)'
  <2>1. PastDebt(r)' = TRUE
    BY <1>1, <1>3 DEF PastDebt
  <2>2. DebtDelta(r)' = DebtDelta(r)
    BY <1>3 DEF DebtDelta
  <2>3. new = [table[c] EXCEPT !.debt = @ + DebtDelta(r)]
    BY <1>2
  <2> HIDE DEF new
  <2>4. ASSUME NEW d \in Client
        PROVE  IF d \in Locked(r)'
                 THEN d = c /\ draft'[r][d] = [table[d] EXCEPT !.debt = @ + DebtDelta(r)]
                 ELSE d = c => ~table[d].live
    BY <1>1, <1>2, <1>4, <2>3
  <2> QED
    BY <1>0, <1>3, <1>4, <2>1, <2>2, <2>4 DEF Credit
<1> QED
  BY <1>5, <1>7, <1>8, <1>9, <1>10, <1>11, <1>12 DEF Mine

LEMMA RemoveSaleBooks ==
  ASSUME NEW r \in Req, Sound(r), Mine(r), RemoveSale(r)
  PROVE  Mine(r)'
<1>0. PICK x : x = call[r].sale
  OBVIOUS
<1>1. CASE Refuse(r)
  BY <1>1, RefuseBooks
<1>2. CASE ~Refuse(r)
  <2>1. /\ pc[r] = "remove" /\ call[r].op = "delete" /\ todo[r] = <<>> /\ x \in Id
        /\ x \notin Client
    BY <1>0, BodyType, NamesAssumption DEF RemoveSale, Sound, Control, Mine, Course, DeleteBody
  <2>2. /\ pc'[r] = "commit" /\ moved' = moved /\ call' = call /\ shift' = shift
        /\ sale' = sale /\ todo' = todo
    BY <1>2 DEF RemoveSale, Goto, goods, locals, Sound, Typed
  <2>3. /\ table' = table /\ \A y \in Locked(r) : y # x => draft'[r][y] = draft[r][y]
        /\ \/ Kind(x, "sale") /\ Locked(r)' = Locked(r) \cup {x} /\ draft'[r][x] = NoRow
           \/ ~Kind(x, "sale") /\ Locked(r)' = Locked(r)
    <3>1. CASE Kind(x, "sale")
      <4>1. Write(r, [y \in {x} |-> NoRow])
        BY <1>0, <1>2, <3>1 DEF RemoveSale
      <4>2. \E w : DOMAIN w = {x} /\ w[x] = NoRow /\ Write(r, w)
        <5>1. DOMAIN [y \in {x} |-> NoRow] = {x} /\ [y \in {x} |-> NoRow][x] = NoRow
          OBVIOUS
        <5> QED
          BY <4>1, <5>1
      <4> QED
        BY <3>1, <4>2, WriteEffect DEF Sound, Typed
    <3>2. CASE ~Kind(x, "sale")
      BY <1>0, <1>2, <3>2 DEF RemoveSale, db, Locked
    <3> QED
      BY <3>1, <3>2
  <2>4. Course(r)'
    BY <2>1, <2>2, <2>3 DEF Mine, Course, Kind, KindIn
  <2>5. /\ Creating(r)' = FALSE /\ Closing(r)' = FALSE /\ Deleting(r)' = TRUE
        /\ ~Creating(r) /\ Deleting(r) /\ PastDebt(r) /\ PastDebt(r)' = TRUE
        /\ DebtDelta(r)' = DebtDelta(r)
    BY <2>1, <2>2 DEF Creating, Closing, Deleting, PastDebt, DebtDelta
  <2>6. (Locked(r) \cap Id) = {}
    BY <2>1, <2>5 DEF Mine, Papers
  <2>7. Papers(r)'
    <3>1. Kind(call[r].sale, "sale")' = Kind(x, "sale")
      BY <1>0, <2>2, <2>3 DEF Kind, KindIn
    <3> QED
      BY <1>0, <2>1, <2>2, <2>3, <2>5, <2>6, <3>1 DEF Papers
  <2>8. Created(r)' /\ Closed(r)'
    BY <2>5 DEF Created, Closed
  <2>9. Deleted(r)'
    BY <1>0, <2>1, <2>2, <2>3, <2>5, <2>6, DeletedKept DEF Step
  <2>10. Carried(r)'
    <3>1. Gone(r) => Gone(r)'
      BY <2>2, GoneKept DEF Step
    <3> QED
      BY <2>1, <2>2, <2>5, <3>1 DEF Mine, Carried
  <2>11. Credit(r)'
    <3>1. \A c \in Client : /\ c \in Locked(r)' <=> c \in Locked(r)
                            /\ c \in Locked(r) => draft'[r][c] = draft[r][c]
      BY <2>1, <2>3
    <3> QED
      BY <2>2, <2>3, <2>5, <3>1 DEF Mine, Credit
  <2> QED
    BY <2>4, <2>7, <2>8, <2>9, <2>10, <2>11 DEF Mine
<1> QED
  BY <1>1, <1>2

LEMMA CloseShiftBooks ==
  ASSUME Unborn, NEW r \in Req, Sound(r), Mine(r), CloseShift(r)
  PROVE  Mine(r)'
<1>0. PICK s : s = shift[r]
  OBVIOUS
<1> DEFINE closed == [table[s] EXCEPT !.status = "closed", !.totals = totals[r]]
           booking == [kind |-> "booking", shift |-> s, sales |-> totals[r].sales,
                       entries |-> {e \in Entry : e.of \in totals[r].paid}]
<1>1. CASE Refuse(r)
  BY <1>1, RefuseBooks
<1>2. CASE ~Refuse(r)
  <2>1. /\ pc[r] = "close" /\ call[r].op = "close" /\ todo[r] = <<>> /\ s \in Id /\ r \in Id
        /\ Locked(r) = {} /\ \A x \in Id : x \notin Client
    BY <1>0, NotMovedYet, NamesAssumption
       DEF CloseShift, Sound, Control, Mine, Course, Outside, Id
  <2>2. /\ StillOpen(s) /\ Write(r, [x \in {s, r} |-> IF x = s THEN closed ELSE booking])
        /\ Goto(r, "commit") /\ UNCHANGED <<goods, locals>>
    BY <1>0, <1>2 DEF CloseShift
  <2>3. s # r
    <3>1. table[s] # NoRow
      BY <2>2 DEF StillOpen, OpenShifts, Shifts, Kind, KindIn
    <3>2. table[r] = NoRow
      BY <2>1, NamesAssumption DEF Unborn, Existed
    <3> QED
      BY <3>1, <3>2
  <2> HIDE DEF closed, booking
  <2>4. \E w : DOMAIN w = {s, r} /\ w[s] = closed /\ w[r] = booking /\ Write(r, w)
    <3> DEFINE w == [x \in {s, r} |-> IF x = s THEN closed ELSE booking]
    <3>1. DOMAIN w = {s, r} /\ w[s] = closed /\ w[r] = booking
      BY <2>3
    <3> QED
      BY <2>2, <3>1
  <2>5. /\ table' = table /\ Locked(r)' = {s, r}
        /\ draft'[r][s] = closed /\ draft'[r][r] = booking
    BY <2>1, <2>4, WriteEffect DEF Sound, Typed
  <2>6. /\ pc'[r] = "commit" /\ moved' = moved /\ call' = call /\ shift' = shift
        /\ todo' = todo /\ totals' = totals
    BY <2>2 DEF Goto, goods, locals, Sound, Typed
  <2>7. Course(r)'
    BY <2>1, <2>5, <2>6 DEF Mine, Course, Kind, KindIn
  <2>8. Creating(r)' = FALSE /\ Deleting(r)' = FALSE /\ PastDebt(r)' = FALSE
    BY <2>1, <2>6 DEF Creating, Deleting, PastDebt
  <2>9. Papers(r)'
    BY <1>0, <2>1, <2>5, <2>6, <2>8 DEF Papers
  <2>10. Created(r)' /\ Deleted(r)'
    BY <2>8 DEF Created, Deleted
  <2>11. Closed(r)'
    <3>1. table[s].status = "open"
      BY <2>2 DEF StillOpen, OpenShifts
    <3> QED
      BY <1>0, <2>1, <2>5, <2>6, <3>1 DEF Closed, closed, booking
  <2>12. Carried(r)'
    BY <2>1, <2>6, <2>8 DEF Mine, Carried
  <2>13. Credit(r)'
    <3>1. \A c \in Client : c \notin Locked(r)'
      BY <2>1, <2>5
    <3> QED
      BY <2>8, <3>1 DEF Credit
  <2> QED
    BY <2>7, <2>9, <2>10, <2>11, <2>12, <2>13 DEF Mine
<1> QED
  BY <1>1, <1>2

LEMMA OwnBooks ==
  ASSUME Unborn, NEW r \in Req, Sound(r), Mine(r), Receive(r) \/ Step(r) \/ Fail(r)
  PROVE  Mine(r)'
BY ReceiveBooks, CurrentBooks, GuardsBooks, ReadItemsBooks, LockItemBooks, ItemBooks,
   InsertSaleBooks, UpdateDebtBooks, RemoveSaleBooks, CloseShiftBooks, EndBooks, RefuseBooks
   DEF Step, Fail

-----------------------------------------------------------------------------
(* What a commit files, by the operation.                                  *)

LEMMA CommitOps ==
  ASSUME Unborn, NEW r \in Req, Sound(r), Mine(r), CommitTx(r)
  PROVE  /\ call[r].op \in {"create", "delete", "close"}
         /\ call[r].op = "delete" => call[r].sale \in Id
         /\ r \in Id /\ table[r] = NoRow
         /\ pc[r] = "commit" /\ \A x \in Id : table'[x] = Seen(r, x)
<1>1. /\ pc[r] = "commit" /\ \A x \in Id : table'[x] = Seen(r, x)
  BY CommitEffect, VersionOf DEF CommitTx, Sound, Typed
<1>2. /\ call[r].op \in {"create", "delete", "close"}
      /\ call[r].op = "delete" => call[r].sale \in Id
  BY <1>1, BodyType DEF Mine, Course, Sound, Control, DeleteBody
<1>3. r \in Id /\ table[r] = NoRow
  BY <1>1, NamesAssumption DEF Unborn, Existed, Id
<1> QED
  BY <1>1, <1>2, <1>3

LEMMA CreateFiles ==
  ASSUME Unborn, NEW r \in Req, Sound(r), Mine(r), CommitTx(r), call[r].op = "create"
  PROVE  /\ table[r] = NoRow /\ table'[r] = sale[r] /\ sale[r] \in SaleRow
         /\ table'[r].kind = "sale"
         /\ sale[r].shift = shift[r] /\ sale[r].items = call[r].items
         /\ \A x \in Id \ {r} : table'[x] = table[x]
<1>1. Creating(r) /\ Locked(r) \cap Id = {r}
  BY CommitOps DEF Creating, Mine, Papers
<1>2. \A x \in Id \ {r} : table'[x] = table[x]
  BY <1>1, CommitOps DEF Seen
<1> QED
  BY <1>1, <1>2, CommitOps DEF Mine, Created, Seen, SaleRow

LEMMA DeleteFiles ==
  ASSUME Unborn, NEW r \in Req, Sound(r), Mine(r), CommitTx(r), call[r].op = "delete"
  PROVE  /\ call[r].sale \in Id /\ sale[r] \in SaleRow /\ sale[r].shift = shift[r]
         /\ table[call[r].sale] = sale[r] \/ (table[call[r].sale] = NoRow /\ Gone(r))
         /\ table'[call[r].sale] = NoRow
         /\ \A x \in Id \ {call[r].sale} : table'[x] = table[x]
<1>0. PICK y : y = call[r].sale
  OBVIOUS
<1>1. /\ ~Creating(r) /\ Deleting(r) /\ y \in Id
      /\ Locked(r) \cap Id = IF Kind(y, "sale") THEN {y} ELSE {}
  BY <1>0, CommitOps DEF Creating, Deleting, Mine, Papers
<1>2. /\ sale[r] \in SaleRow /\ sale[r].shift = shift[r]
      /\ table[y] = sale[r] \/ (table[y] = NoRow /\ Gone(r))
      /\ y \in Locked(r) => draft[r][y] = NoRow
  BY <1>0, <1>1, CommitOps DEF Mine, Deleted
<1>3. y \notin Locked(r) => table[y] = NoRow
  BY <1>1, <1>2, NamesAssumption DEF Kind, KindIn, SaleRow, PaperRow
<1>4. table'[y] = NoRow
  BY <1>1, <1>2, <1>3, CommitOps DEF Seen
<1>5. \A x \in Id \ {y} : table'[x] = table[x]
  BY <1>1, CommitOps DEF Seen
<1> QED
  BY <1>0, <1>1, <1>2, <1>4, <1>5

LEMMA CloseFiles ==
  ASSUME Unborn, NEW r \in Req, Sound(r), Mine(r), CommitTx(r), call[r].op = "close"
  PROVE  /\ shift[r] \in Id /\ shift[r] # r /\ table[r] = NoRow
         /\ table[shift[r]] \in ShiftRow /\ table[shift[r]].status = "open"
         /\ table'[shift[r]] =
              [table[shift[r]] EXCEPT !.status = "closed", !.totals = totals[r]]
         /\ table'[shift[r]] \in ShiftRow
         /\ table'[r] =
              [kind |-> "booking", shift |-> shift[r], sales |-> totals[r].sales,
               entries |-> {e \in Entry : e.of \in totals[r].paid}]
         /\ table'[r] \in BookingRow
         /\ \A x \in Id \ {shift[r], r} : table'[x] = table[x]
<1>0. PICK s : s = shift[r]
  OBVIOUS
<1>1. ~Creating(r) /\ Closing(r) /\ Locked(r) \cap Id = {s, r}
  BY <1>0, CommitOps DEF Creating, Closing, Mine, Papers
<1>2. /\ s \in Id /\ table[s].status = "open"
      /\ draft[r][s] = [table[s] EXCEPT !.status = "closed", !.totals = totals[r]]
      /\ draft[r][r] = [kind |-> "booking", shift |-> s, sales |-> totals[r].sales,
                        entries |-> {e \in Entry : e.of \in totals[r].paid}]
  BY <1>0, <1>1, CommitOps DEF Mine, Closed
<1>3. table[s] \in ShiftRow /\ s # r
  <2>1. RowsOK /\ Kind(s, "shift") /\ table[r] = NoRow
    BY <1>0, <1>2, CommitOps DEF Mine, Course, Sound, Typed
  <2> QED
    BY <1>2, <2>1, KindType DEF Kind, KindIn
<1>4. table'[s] = draft[r][s] /\ table'[r] = draft[r][r]
  BY <1>1, <1>2, CommitOps DEF Seen
<1>5. \A x \in Id \ {s, r} : table'[x] = table[x]
  BY <1>1, CommitOps DEF Seen
<1>6. totals[r] \in Totals
  BY DEF Sound, Typed
<1>7. table'[s] \in ShiftRow
  BY <1>2, <1>3, <1>4, <1>6 DEF ShiftRow
<1>8. table'[r] \in BookingRow
  BY <1>2, <1>4, <1>6 DEF BookingRow, Totals
<1> QED
  BY <1>0, <1>2, <1>3, <1>4, <1>5, <1>7, <1>8, CommitOps

LEMMA OpenFiles ==
  ASSUME Unborn, NEW r \in Req, Sound(r), OpenShift(r)
  PROVE  /\ pc[r] = "open" /\ table[r] = NoRow
         /\ table'[r] = [kind |-> "shift", status |-> "open", rank |-> Cardinality(Shifts),
                         totals |-> NoTotals]
         /\ \A x \in Row \ {r} : table'[x] = table[x]
<1>1. r \in Row
  BY DEF Row, Id
<1> QED
  BY <1>1, NamesAssumption DEF OpenShift, Autocommit, Sound, Typed, RowsOK, Rows, Unborn, Existed

-----------------------------------------------------------------------------
(* The books that all requests share.                                      *)

LEMMA UnbornStep ==
  ASSUME Unborn, NEW r \in Req, Sound(r), Mine(r), Receive(r) \/ Step(r) \/ Fail(r)
  PROVE  Unborn'
<1>1. ASSUME NEW w \in Req, ~Existed(w)' PROVE table'[w] = NoRow
  <2>1. w \in Id /\ w \notin Past /\ pc'[w] # "ok"
    BY <1>1 DEF Existed, Id
  <2>2. pc[w] # "ok"
    BY <2>1, StepIsLocal, Running DEF Sound, Own
  <2>3. table[w] = NoRow
    BY <2>1, <2>2 DEF Unborn, Existed
  <2>4. ~Shut(r, w)
    BY <2>3, NamesAssumption DEF Shut, PaperRow
  <2> QED
    BY <2>1, <2>3, <2>4, NamesChange DEF Born, Died
<1> QED
  BY <1>1 DEF Unborn

LEMMA LiveKeptStep ==
  ASSUME LiveKept, NEW r \in Req, Sound(r), Mine(r), Receive(r) \/ Step(r) \/ Fail(r)
  PROVE  LiveKept'
BY ClientsKept DEF LiveKept

(* A name that was once a sale of a shift never becomes one of another.    *)
LEMMA SaleNameStays ==
  ASSUME Inv, Unborn, NEW r \in Req, Mine(r), Receive(r) \/ Step(r) \/ Fail(r),
         NEW x \in Id, Existed(x), Kind(x, "sale")'
  PROVE  table'[x] = table[x]
<1>1. ~Born(r, x)
  BY NamesAssumption DEF Born, Existed
<1>2. ~Died(r, x)
  BY DEF Died, Kind, KindIn
<1>3. ~Shut(r, x)
  BY DEF Shut, Kind, KindIn, ShiftRow
<1> QED
  BY InvSound, <1>1, <1>2, <1>3, NamesChange

\* A step that aggregates nothing makes no new claim.
LEMMA ClaimsKept ==
  ASSUME Inv, Unborn, NEW r \in Req, Mine(r), Receive(r) \/ Step(r) \/ Fail(r),
         ~AggregateSales(r)
  PROVE  Claim' \subseteq Claim
<1>1. ASSUME NEW q \in Req, pc'[q] \in {"close", "commit"}, call'[q].op = "close"
      PROVE  Claims(q)' \in Claim
  <2>1. CASE q # r
    <3>1. pc[q] = pc'[q] /\ call[q] = call'[q] /\ Claims(q)' = Claims(q)
      BY <2>1, StepIsLocal, TypedOK DEF Inv, Own, Claims
    <3> QED
      BY <1>1, <3>1 DEF Claim
  <2>2. CASE q = r
    <3> USE DEF Goto, Inv, TypeOK
    <3>1. ~Refuse(r) /\ ~Fail(r)
      BY <1>1, <2>2 DEF Fail, Refuse, Leave
    <3>2. ~Receive(r) /\ ~OpenShift(r) /\ ~CommitTx(r)
      BY <1>1, <2>2 DEF Receive, OpenShift, CommitTx, Leave
    <3>3. ~LockItem(r) /\ ~GetSale(r) /\ ~CheckStatus(r) /\ ~CheckReturns(r) /\ ~GetCurrentOpen(r)
      BY <1>1, <2>2, <3>1 DEF LockItem, GetSale, CheckStatus, CheckReturns, GetCurrentOpen
    <3>4. ~DeductItem(r) /\ ~RestoreItem(r) /\ ~ReadItems(r)
      <4>1. ASSUME NEW rest, pc' = [pc EXCEPT ![r] = AfterItems(r, rest)] PROVE FALSE
        BY <1>1, <2>2, <4>1, AfterItemsType
      <4> QED
        BY <3>1, <4>1 DEF DeductItem, RestoreItem, ReadItems
    <3>5. ~InsertSale(r) /\ ~UpdateDebt(r) /\ ~RemoveSale(r)
      BY <1>1, <2>2, <3>1 DEF InsertSale, UpdateDebt, RemoveSale, Control, locals
    <3>6. CloseShift(r)
      BY <3>1, <3>2, <3>3, <3>4, <3>5 DEF Step
    <3>7. pc[r] = "close" /\ call'[r] = call[r] /\ shift' = shift /\ totals' = totals
      BY <3>1, <3>6 DEF CloseShift, locals
    <3> QED
      BY <1>1, <2>2, <3>7 DEF Claim, Claims
  <2> QED
    BY <2>1, <2>2
<1>2. ASSUME NEW b \in Id, Kind(b, "booking")' PROVE ClaimOf(b)' \in Claim
  <2>1. CASE table'[b] = table[b]
    <3>1. Kind(b, "booking") /\ ClaimOf(b)' = ClaimOf(b)
      BY <1>2, <2>1 DEF Kind, KindIn, ClaimOf
    <3> QED
      BY <3>1 DEF Claim
  <2>2. CASE table'[b] # table[b]
    <3>1. CommitTx(r)
      <4>1. CASE OpenShift(r)
        BY InvSound, <1>2, <2>2, <4>1, OpenFiles DEF Kind, KindIn, Row
      <4> QED
        BY <2>2, <4>1, TableKept
    <3>2. call[r].op = "close" /\ b = r
      <4>1. table'[b] # NoRow /\ table'[b].kind = "booking"
        BY <1>2 DEF Kind, KindIn
      <4>2. CASE call[r].op = "create"
        BY InvSound, <2>2, <3>1, <4>1, <4>2, CreateFiles
      <4>3. CASE call[r].op = "delete"
        BY InvSound, <2>2, <3>1, <4>1, <4>3, DeleteFiles
      <4>4. CASE call[r].op = "close"
        <5>0. table'[shift[r]] \in ShiftRow
          BY InvSound, <3>1, <4>4, CloseFiles
        <5>1. b = shift[r] => table'[b].kind = "shift"
          BY <5>0 DEF ShiftRow
        <5>2. \A x \in Id \ {shift[r], r} : table'[x] = table[x]
          BY InvSound, <3>1, <4>4, CloseFiles
        <5> QED
          BY <2>2, <4>1, <4>4, <5>1, <5>2
      <4> QED
        BY InvSound, <3>1, <4>2, <4>3, <4>4, CommitOps
    <3>3. table'[b].shift = shift[r] /\ table'[b].sales = totals[r].sales
      <4>1. table'[r] = [kind |-> "booking", shift |-> shift[r], sales |-> totals[r].sales,
                         entries |-> {e \in Entry : e.of \in totals[r].paid}]
        BY InvSound, <3>1, <3>2, CloseFiles
      <4> QED
        BY <3>2, <4>1
    <3>4. ClaimOf(b)' = Claims(r) /\ pc[r] = "commit"
      BY <3>1, <3>3 DEF ClaimOf, Claims, CommitTx
    <3> QED
      BY <3>2, <3>4 DEF Claim
  <2> QED
    BY <2>1, <2>2
<1> QED
  BY <1>1, <1>2 DEF Claim

LEMMA ClaimedStep ==
  ASSUME Inv, Unborn, Claimed, NEW r \in Req, Mine(r), Receive(r) \/ Step(r) \/ Fail(r)
  PROVE  Claimed'
<1>1. ASSUME NEW k \in Claim
      PROVE  /\ \A x \in k.sales :
                  x \in Id => Existed(x)' /\ (Kind(x, "sale")' => table'[x].shift = k.shift)
             /\ k.shift \in Id /\ Kind(k.shift, "shift")'
  <2>1. /\ k.shift \in Id /\ Kind(k.shift, "shift")
        /\ \A x \in k.sales : Existed(x) /\ (Kind(x, "sale") => table[x].shift = k.shift)
    BY DEF Claimed
  <2>2. ASSUME NEW x \in k.sales, x \in Id
        PROVE  Existed(x)' /\ (Kind(x, "sale")' => table'[x].shift = k.shift)
    <3>1. Existed(x)'
      BY InvSound, <2>1, <2>2, ExistedStays
    <3>2. ASSUME Kind(x, "sale")' PROVE table'[x].shift = k.shift
      <4>1. table'[x] = table[x]
        BY <2>1, <2>2, <3>2, SaleNameStays
      <4>2. Kind(x, "sale")
        BY <3>2, <4>1 DEF Kind, KindIn
      <4> QED
        BY <2>1, <4>1, <4>2
    <3> QED
      BY <3>1, <3>2
  <2> QED
    BY InvSound, <2>1, <2>2, ShiftsStay
<1>2. \A k \in Claim : k.sales \subseteq Id
  <2>1. \A q \in Req : totals[q].sales \subseteq Id
    BY DEF Inv, TypeOK, Totals
  <2>2. \A b \in Id : Kind(b, "booking") => table[b].sales \subseteq Id
    <3>1. \A b \in Id : table[b] \in IdRow
      BY KindType DEF Inv, TypeOK
    <3> QED
      BY <3>1 DEF Kind, KindIn, IdRow, PaperRow, ShiftRow, SaleRow, BookingRow, ReturnRow
  <2> QED
    BY <2>1, <2>2 DEF Claim, Claims, ClaimOf
<1>3. CASE ~AggregateSales(r)
  BY <1>1, <1>2, <1>3, ClaimsKept DEF Claimed
<1>4. CASE AggregateSales(r)
  <2>0. PICK s : s = shift[r]
    OBVIOUS
  <2> DEFINE new == [shift |-> s, sales |-> SalesOf(s)]
  <2>1. /\ pc[r] = "aggregate" /\ table' = table /\ call' = call /\ shift' = shift
        /\ totals'[r].sales = SalesOf(s) /\ s \in Id /\ Kind(s, "shift")
    BY <1>4, <2>0 DEF AggregateSales, db, goods, Inv, TypeOK, Control, Mine, Course
  <2>2. Claim' \subseteq Claim \cup {new}
    <3>1. ASSUME NEW q \in Req, pc'[q] \in {"close", "commit"}, call'[q].op = "close"
          PROVE  Claims(q)' \in Claim \cup {new}
      <4>1. CASE q = r
        BY <2>0, <2>1, <4>1 DEF Claims
      <4>2. CASE q # r
        <5>1. pc[q] = pc'[q] /\ call[q] = call'[q] /\ Claims(q)' = Claims(q)
          BY <1>4, <4>2, StepIsLocal, TypedOK DEF Inv, Own, Claims, Step
        <5> QED
          BY <3>1, <5>1 DEF Claim
      <4> QED
        BY <4>1, <4>2
    <3>2. ASSUME NEW b \in Id, Kind(b, "booking")' PROVE ClaimOf(b)' \in Claim
      <4>1. Kind(b, "booking") /\ ClaimOf(b)' = ClaimOf(b)
        BY <2>1, <3>2 DEF Kind, KindIn, ClaimOf
      <4> QED
        BY <4>1 DEF Claim
    <3> HIDE DEF new
    <3> QED
      BY <3>1, <3>2 DEF Claim
  <2>3. ASSUME NEW x \in SalesOf(s)
        PROVE  x \in Id /\ Kind(x, "sale") /\ table[x].shift = s /\ Existed(x)
    <3>1. x \in Id /\ Kind(x, "sale") /\ table[x].shift = s
      BY <2>3 DEF SalesOf
    <3> QED
      BY <3>1 DEF Kind, KindIn, Unborn, Existed, Id
  <2>4. \A x \in SalesOf(s) : Existed(x)'
    BY InvSound, <2>3, ExistedStays
  <2>5. \A x \in SalesOf(s) : table'[x].shift = s
    BY <2>1, <2>3
  <2>6. Kind(s, "shift")'
    BY <2>1 DEF Kind, KindIn
  <2>7. \A k \in Claim : k.shift # s => k.sales \cap SalesOf(s) = {}
    BY <2>3 DEF Claimed
  <2>8. new.shift = s /\ new.sales = SalesOf(s)
    OBVIOUS
  <2> HIDE DEF new
  <2>9. \A k \in Claim' :
          /\ \A x \in k.sales : Existed(x)' /\ (Kind(x, "sale")' => table'[x].shift = k.shift)
          /\ k.shift \in Id /\ Kind(k.shift, "shift")'
    <3>1. ASSUME NEW k \in Claim
          PROVE  /\ \A x \in k.sales :
                      Existed(x)' /\ (Kind(x, "sale")' => table'[x].shift = k.shift)
                 /\ k.shift \in Id /\ Kind(k.shift, "shift")'
      BY <1>1, <1>2
    <3> QED
      BY <2>1, <2>2, <2>4, <2>5, <2>6, <2>8, <3>1
  <2>10. \A k, l \in Claim' : k.shift # l.shift => k.sales \cap l.sales = {}
    <3>1. \A k, l \in Claim : k.shift # l.shift => k.sales \cap l.sales = {}
      BY DEF Claimed
    <3> QED
      BY <2>2, <2>7, <2>8, <3>1
  <2> QED
    BY <2>9, <2>10 DEF Claimed
<1> QED
  BY <1>3, <1>4

(* A step that neither makes nor changes a booking, nor changes a shift    *)
(* but by opening one that nothing is booked for.                          *)
LEMMA BookedSame ==
  ASSUME NEW t, NEW u, BookedIn(t),
         \A b \in Id : KindIn(u, b, "booking") \/ KindIn(t, b, "booking") => u[b] = t[b],
         \A s \in Id : KindIn(u, s, "shift") =>
            u[s] = t[s] \/ (u[s].status = "open" /\ BookingsIn(t, s) = {})
  PROVE  BookedIn(u)
<1>1. \A b \in Id : KindIn(u, b, "booking") <=> KindIn(t, b, "booking")
  BY DEF KindIn
<1>2. \A s : BookingsIn(u, s) = BookingsIn(t, s)
  BY <1>1 DEF BookingsIn
<1>3. ASSUME NEW s \in Id, KindIn(u, s, "shift"), u[s] = t[s]
      PROVE  IF u[s].status = "open"
               THEN BookingsIn(u, s) = {}
               ELSE \E b \in Id : /\ BookingsIn(u, s) = {b}
                                  /\ u[b].sales = u[s].totals.sales
                                  /\ {e.of : e \in u[b].entries} = u[s].totals.paid \ {"debt"}
  <2>1. KindIn(t, s, "shift")
    BY <1>3 DEF KindIn
  <2>2. CASE t[s].status = "open"
    BY <1>2, <1>3, <2>1, <2>2 DEF BookedIn
  <2>3. CASE t[s].status # "open"
    <3>1. PICK b \in Id : /\ BookingsIn(t, s) = {b}
                          /\ t[b].sales = t[s].totals.sales
                          /\ {e.of : e \in t[b].entries} = t[s].totals.paid \ {"debt"}
      BY <2>1, <2>3 DEF BookedIn
    <3>2. KindIn(t, b, "booking")
      BY <3>1 DEF BookingsIn
    <3>3. u[b] = t[b]
      BY <3>2
    <3> QED
      BY <1>2, <1>3, <2>3, <3>1, <3>3
  <2> QED
    BY <2>2, <2>3
<1>4. ASSUME NEW s \in Id, KindIn(u, s, "shift"), u[s].status = "open", BookingsIn(t, s) = {}
      PROVE  BookingsIn(u, s) = {}
  BY <1>2, <1>4
<1>5. \A a, b \in Id : (KindIn(u, a, "booking") /\ KindIn(u, b, "booking") /\ a # b) =>
        u[a].sales \cap u[b].sales = {}
  BY <1>1 DEF BookedIn
<1> QED
  BY <1>3, <1>4, <1>5 DEF BookedIn

LEMMA CloseBooks ==
  ASSUME Inv, Unborn, Claimed, Claimed', BookedOnce, NEW r \in Req, Mine(r), CommitTx(r),
         call[r].op = "close"
  PROVE  BookedOnce'
<1>0. PICK s : s = shift[r]
  OBVIOUS
<1> DEFINE booking == [kind |-> "booking", shift |-> s, sales |-> totals[r].sales,
                       entries |-> {e \in Entry : e.of \in totals[r].paid}]
<1>1. /\ s \in Id /\ s # r /\ r \in Id /\ table[r] = NoRow
      /\ table[s] \in ShiftRow /\ table[s].status = "open" /\ table'[s] \in ShiftRow
      /\ table'[s] = [table[s] EXCEPT !.status = "closed", !.totals = totals[r]]
  BY InvSound, <1>0, CloseFiles, CommitOps
<1>2. /\ table'[r] = booking /\ booking \in BookingRow
      /\ \A x \in Id \ {s, r} : table'[x] = table[x]
  <2>1. table'[r] = booking
    BY InvSound, <1>0, CloseFiles
  <2>2. table'[r] \in BookingRow
    BY InvSound, CloseFiles
  <2>3. \A x \in Id \ {s, r} : table'[x] = table[x]
    BY InvSound, <1>0, CloseFiles
  <2> HIDE DEF booking
  <2> QED
    BY <2>1, <2>2, <2>3
<1>3. Kind(s, "shift") /\ BookingsIn(table, s) = {}
  <2>1. Kind(s, "shift")
    BY <1>1, NamesAssumption DEF Kind, KindIn, ShiftRow, PaperRow
  <2> QED
    BY <1>1, <2>1 DEF BookedOnce, BookedIn, Kind
<1>4. /\ table'[s].status = "closed" /\ table'[s].totals = totals[r] /\ totals[r] \in Totals
      /\ table'[s].kind = "shift"
  BY <1>1 DEF ShiftRow, Inv, TypeOK
<1>5. booking # NoRow /\ booking.kind = "booking" /\ booking.shift = s
      /\ booking.sales = totals[r].sales
  BY <1>2, NamesAssumption DEF PaperRow
<1>6. {e.of : e \in booking.entries} = totals[r].paid \ {"debt"}
  <2>1. totals[r].paid \subseteq {"cash", "terminal", "online", "debt"}
    BY <1>4 DEF Totals, Channel
  <2>2. ASSUME NEW c \in totals[r].paid \ {"debt"} PROVE \E e \in booking.entries : e.of = c
    <3>1. c \in {"cash", "terminal", "online"}
      BY <2>1
    <3>2. \E e \in Entry : e.of = c
      BY <3>1 DEF Entry
    <3> QED
      BY <3>2
  <2>3. \A e \in booking.entries : e.of \in totals[r].paid \ {"debt"}
    BY DEF Entry
  <2> HIDE DEF booking
  <2> QED
    BY <2>2, <2>3
<1> HIDE DEF booking
<1>7. \A b \in Id \ {r} : Kind(b, "booking")' <=> Kind(b, "booking")
  <2>1. ~Kind(s, "booking") /\ ~Kind(s, "booking")'
    BY <1>1, <1>4 DEF Kind, KindIn, ShiftRow
  <2>2. \A b \in Id \ {s, r} : Kind(b, "booking")' <=> Kind(b, "booking")
    BY <1>2 DEF Kind, KindIn
  <2> QED
    BY <2>1, <2>2
<1>8. Kind(r, "booking")' /\ ~Kind(r, "booking")
  BY <1>1, <1>2, <1>5 DEF Kind, KindIn
<1>9. \A b \in Id \ {r} : Kind(b, "booking") => table'[b] = table[b]
  <2>1. ~Kind(s, "booking")
    BY <1>1 DEF Kind, KindIn, ShiftRow
  <2> QED
    BY <1>2, <2>1
<1>10. ASSUME NEW z \in Id
       PROVE  BookingsIn(table', z) = IF z = s THEN {r} ELSE BookingsIn(table, z)
  <2>1. \A b \in Id \ {r} : b \in BookingsIn(table', z) <=> b \in BookingsIn(table, z)
    BY <1>7, <1>9 DEF BookingsIn, Kind
  <2>2. r \in BookingsIn(table', z) <=> z = s
    BY <1>1, <1>2, <1>5, <1>8 DEF BookingsIn, Kind
  <2>3. r \notin BookingsIn(table, z)
    BY <1>8 DEF BookingsIn, Kind
  <2>4. BookingsIn(table', z) \subseteq Id /\ BookingsIn(table, z) \subseteq Id
    BY DEF BookingsIn
  <2> QED
    BY <1>1, <1>3, <2>1, <2>2, <2>3, <2>4
<1>11. ASSUME NEW z \in Id, KindIn(table', z, "shift")
       PROVE  IF table'[z].status = "open"
                THEN BookingsIn(table', z) = {}
                ELSE \E b \in Id : /\ BookingsIn(table', z) = {b}
                                   /\ table'[b].sales = table'[z].totals.sales
                                   /\ {e.of : e \in table'[b].entries}
                                        = table'[z].totals.paid \ {"debt"}
  <2>1. CASE z = s
    <3>1. /\ table'[s].status # "open" /\ BookingsIn(table', s) = {r}
          /\ table'[r].sales = table'[s].totals.sales
      BY <1>2, <1>4, <1>5, <1>10, <1>1
    <3>2. {e.of : e \in table'[r].entries} = table'[s].totals.paid \ {"debt"}
      BY <1>2, <1>4, <1>6
    <3>3. r \in Id
      BY <1>1
    <3> QED
      BY <2>1, <3>1, <3>2, <3>3
  <2>2. CASE z # s
    <3>1. z # r
      BY <1>2, <1>5, <1>11 DEF KindIn
    <3>2. table'[z] = table[z] /\ KindIn(table, z, "shift")
      BY <1>2, <1>11, <2>2, <3>1 DEF KindIn
    <3>3. BookingsIn(table', z) = BookingsIn(table, z)
      BY <1>10, <2>2
    <3>4. CASE table[z].status = "open"
      BY <3>2, <3>3, <3>4 DEF BookedOnce, BookedIn
    <3>5. CASE table[z].status # "open"
      <4>1. PICK b \in Id : /\ BookingsIn(table, z) = {b}
                            /\ table[b].sales = table[z].totals.sales
                            /\ {e.of : e \in table[b].entries} = table[z].totals.paid \ {"debt"}
        BY <3>2, <3>5 DEF BookedOnce, BookedIn
      <4>2. Kind(b, "booking") /\ b # r
        BY <1>8, <4>1 DEF BookingsIn, Kind
      <4>3. table'[b] = table[b]
        BY <1>9, <4>2
      <4> QED
        BY <3>2, <3>3, <3>5, <4>1, <4>3
    <3> QED
      BY <3>4, <3>5
  <2> QED
    BY <2>1, <2>2
<1>12. ASSUME NEW a \in Id, NEW b \in Id, Kind(a, "booking")', Kind(b, "booking")', a # b
       PROVE  table'[a].sales \cap table'[b].sales = {}
  <2>1. CASE a # r /\ b # r
    BY <1>7, <1>9, <1>12, <2>1 DEF BookedOnce, BookedIn, Kind
  <2>2. ASSUME NEW w \in Id, Kind(w, "booking")', w # r
        PROVE  table'[w].sales \cap table'[r].sales = {}
    <3>1. table'[w].shift # s
      <4>1. w \notin BookingsIn(table', s)
        BY <1>1, <1>10, <2>2
      <4> QED
        BY <2>2, <4>1 DEF BookingsIn, Kind
    <3>2. /\ ClaimOf(w)' \in Claim' /\ ClaimOf(r)' \in Claim'
          /\ ClaimOf(w)'.shift # ClaimOf(r)'.shift
      BY <1>1, <1>2, <1>5, <1>8, <2>2, <3>1 DEF Claim, ClaimOf
    <3>3. ClaimOf(w)'.sales \cap ClaimOf(r)'.sales = {}
      BY <3>2 DEF Claimed
    <3> QED
      BY <3>3 DEF ClaimOf
  <2> QED
    BY <1>12, <2>1, <2>2
<1> QED
  BY <1>11, <1>12 DEF BookedOnce, BookedIn, Kind

LEMMA BookedOnceStep ==
  ASSUME Inv, Unborn, Claimed, Claimed', BookedOnce, NEW r \in Req, Mine(r),
         Receive(r) \/ Step(r) \/ Fail(r)
  PROVE  BookedOnce'
<1>1. CASE OpenShift(r)
  <2>1. /\ table[r] = NoRow /\ table'[r].kind = "shift" /\ table'[r].status = "open"
        /\ \A x \in Id \ {r} : table'[x] = table[x]
    BY InvSound, <1>1, OpenFiles DEF Row
  <2>2. BookingsIn(table, r) = {}
    <3>1. ASSUME NEW b \in BookingsIn(table, r) PROVE FALSE
      <4>1. b \in Id /\ Kind(b, "booking") /\ table[b].shift = r
        BY <3>1 DEF BookingsIn, Kind
      <4>2. ClaimOf(b) \in Claim /\ ClaimOf(b).shift = r
        BY <4>1 DEF Claim, ClaimOf
      <4>3. Kind(r, "shift")
        BY <4>2 DEF Claimed
      <4> QED
        BY <2>1, <4>3 DEF Kind, KindIn
    <3> QED
      BY <3>1
  <2>3. \A b \in Id : KindIn(table', b, "booking") \/ KindIn(table, b, "booking") =>
          table'[b] = table[b]
    BY <2>1 DEF KindIn
  <2>4. \A s \in Id : KindIn(table', s, "shift") =>
          table'[s] = table[s] \/ (table'[s].status = "open" /\ BookingsIn(table, s) = {})
    BY <2>1, <2>2
  <2> QED
    BY <2>3, <2>4, BookedSame DEF BookedOnce
<1>2. CASE CommitTx(r)
  <2>1. CASE call[r].op = "close"
    BY <1>2, <2>1, CloseBooks
  <2>2. ASSUME NEW y \in Id, \A x \in Id \ {y} : table'[x] = table[x],
               table[y] = NoRow \/ table[y].kind = "sale",
               table'[y] = NoRow \/ table'[y].kind = "sale"
        PROVE  BookedOnce'
    <3>1. \A b \in Id : KindIn(table', b, "booking") \/ KindIn(table, b, "booking") =>
            table'[b] = table[b]
      BY <2>2 DEF KindIn
    <3>2. \A s \in Id : KindIn(table', s, "shift") =>
            table'[s] = table[s] \/ (table'[s].status = "open" /\ BookingsIn(table, s) = {})
      BY <2>2 DEF KindIn
    <3> QED
      BY <3>1, <3>2, BookedSame DEF BookedOnce
  <2>3. CASE call[r].op = "create"
    <3>1. /\ table[r] = NoRow /\ table'[r].kind = "sale" /\ r \in Id
          /\ \A x \in Id \ {r} : table'[x] = table[x]
      BY InvSound, <1>2, <2>3, CreateFiles, CommitOps
    <3> QED
      BY <2>2, <3>1
  <2>4. CASE call[r].op = "delete"
    <3>0. PICK y : y = call[r].sale
      OBVIOUS
    <3>1. /\ y \in Id /\ table'[y] = NoRow /\ \A x \in Id \ {y} : table'[x] = table[x]
          /\ table[y] = NoRow \/ table[y] \in SaleRow
      BY InvSound, <1>2, <2>4, <3>0, DeleteFiles
    <3>2. table[y] = NoRow \/ table[y].kind = "sale"
      BY <3>1 DEF SaleRow
    <3> QED
      BY <2>2, <3>1, <3>2
  <2> QED
    BY InvSound, <1>2, <2>1, <2>3, <2>4, CommitOps
<1>3. CASE table' = table
  BY <1>3 DEF BookedOnce
<1> QED
  BY <1>1, <1>2, <1>3, TableKept

-----------------------------------------------------------------------------
(* Goods and debts against the sales.                                      *)

LEMMA TableTyped ==
  ASSUME NEW t, Rows(t), DOMAIN t = Row
  PROVE  SalesTyped(t)
BY VersionOf DEF SalesTyped, KindIn, Rows, IdRow, PaperRow, ShiftRow, SaleRow, BookingRow,
                 ReturnRow

(* Requests that have deleted a sale stay so.                              *)
LEMMA DeletedOnceBefore ==
  ASSUME Inv, NEW r \in Req, Receive(r) \/ Step(r) \/ Fail(r), DeletedOnce'
  PROVE  DeletedOnce
<1>1. ASSUME NEW q \in Req, pc[q] = "ok" PROVE pc'[q] = "ok" /\ call'[q] = call[q]
  BY InvSound, <1>1, Running, StepIsLocal, TypedOK DEF Inv, Own
<1> QED
  BY <1>1 DEF DeletedOnce

(* What a step does to the sums over the sales: nothing, unless it commits *)
(* a new sale or the deletion of one that was still there.                 *)
LEMMA SumsStay ==
  ASSUME Unborn, NEW r \in Req, Sound(r), Mine(r), Receive(r) \/ Step(r) \/ Fail(r),
         ~(CommitTx(r) /\ call[r].op \in {"create", "delete"}), NEW a
  PROVE  SoldIn(table', a) = SoldIn(table, a) /\ OwedIn(table', a) = OwedIn(table, a)
<1>1. CASE table' = table
  BY <1>1
<1>2. ASSUME \A x \in Id : \/ table'[x] = table[x]
                           \/ ~KindIn(table, x, "sale") /\ ~KindIn(table', x, "sale")
      PROVE  SoldIn(table', a) = SoldIn(table, a) /\ OwedIn(table', a) = OwedIn(table, a)
  <2>1. \A x \in Id : KindIn(table', x, "sale") <=> KindIn(table, x, "sale")
    BY <1>2 DEF KindIn
  <2>2. SaleIds(table') = SaleIds(table) /\ \A x \in SaleIds(table) : table'[x] = table[x]
    BY <1>2, <2>1 DEF SaleIds
  <2> QED
    BY <2>2, SumsUnchanged
<1>3. CASE OpenShift(r)
  <2>1. /\ table[r] = NoRow /\ table'[r].kind = "shift"
        /\ \A x \in Id \ {r} : table'[x] = table[x]
    BY <1>3, OpenFiles DEF Row
  <2> QED
    BY <1>2, <2>1 DEF KindIn
<1>4. CASE CommitTx(r)
  <2>0. PICK s : s = shift[r]
    OBVIOUS
  <2>1. call[r].op = "close"
    BY <1>4, CommitOps
  <2>2. /\ table[r] = NoRow /\ table[s] \in ShiftRow /\ table'[s] \in ShiftRow
        /\ table'[r] \in BookingRow /\ \A x \in Id \ {s, r} : table'[x] = table[x]
    BY <1>4, <2>0, <2>1, CloseFiles
  <2>3. table[s].kind = "shift" /\ table'[s].kind = "shift" /\ table'[r].kind = "booking"
    BY <2>2 DEF ShiftRow, BookingRow
  <2> QED
    BY <1>2, <2>2, <2>3 DEF KindIn
<1> QED
  BY <1>1, <1>3, <1>4, TableKept

LEMMA SumsCreate ==
  ASSUME Typed', Unborn, NEW r \in Req, Sound(r), Mine(r), CommitTx(r), call[r].op = "create",
         NEW a
  PROVE  /\ SoldIn(table, a) \in Int /\ OwedIn(table, a) \in Int
         /\ SoldIn(table', a) = SoldIn(table, a) + QtyOf(sale[r].items, a)
         /\ OwedIn(table', a) =
              OwedIn(table, a) + IF sale[r].client = a THEN sale[r].owed ELSE 0
<1>1. SalesTyped(table) /\ SalesTyped(table')
  BY TableTyped DEF Sound, Typed, RowsOK
<1>2. /\ r \in Id /\ table[r] = NoRow /\ table'[r] = sale[r] /\ sale[r] \in SaleRow
      /\ table'[r].kind = "sale" /\ \A x \in Id \ {r} : table'[x] = table[x]
  BY CreateFiles, CommitOps
<1>3. r \notin SaleIds(table) /\ r \in SaleIds(table')
  BY <1>2, NamesAssumption DEF SaleIds, KindIn, PaperRow
<1>4. /\ SoldBy(table, r, a) = 0 /\ SoldBy(table', r, a) = QtyOf(sale[r].items, a)
      /\ OwedBy(table, r, a) = 0
      /\ OwedBy(table', r, a) = IF sale[r].client = a THEN sale[r].owed ELSE 0
  BY <1>2, <1>3 DEF SoldBy, OwedBy
<1>5. /\ SoldIn(table, a) \in Int
      /\ SoldIn(table', a) = SoldIn(table, a) - 0 + QtyOf(sale[r].items, a)
  BY <1>1, <1>2, <1>4, SoldChanges
<1>6. /\ OwedIn(table, a) \in Int
      /\ OwedIn(table', a) = OwedIn(table, a) - 0 + OwedBy(table', r, a)
  BY <1>1, <1>2, <1>4, OwedChanges
<1>7. sale[r].items \in Seq(Item) /\ sale[r].owed \in Nat
  BY <1>2 DEF SaleRow
<1>8. QtyOf(sale[r].items, a) \in Nat /\ OwedBy(table', r, a) \in Nat
  BY <1>4, <1>7, QtyType
<1> QED
  BY <1>4, <1>5, <1>6, <1>8

LEMMA SumsDelete ==
  ASSUME Typed', Unborn, NEW r \in Req, Sound(r), Mine(r), CommitTx(r), call[r].op = "delete",
         ~Gone(r), NEW a
  PROVE  /\ SoldIn(table, a) \in Int /\ OwedIn(table, a) \in Int
         /\ sale[r] \in SaleRow
         /\ SoldIn(table', a) = SoldIn(table, a) - QtyOf(sale[r].items, a)
         /\ OwedIn(table', a) =
              OwedIn(table, a) - IF sale[r].client = a THEN sale[r].owed ELSE 0
<1>0. PICK y : y = call[r].sale
  OBVIOUS
<1>1. SalesTyped(table) /\ SalesTyped(table')
  BY TableTyped DEF Sound, Typed, RowsOK
<1>2. /\ y \in Id /\ table[y] = sale[r] /\ sale[r] \in SaleRow /\ table'[y] = NoRow
      /\ \A x \in Id \ {y} : table'[x] = table[x]
  BY <1>0, DeleteFiles
<1>3. y \in SaleIds(table) /\ y \notin SaleIds(table')
  BY <1>2, NamesAssumption DEF SaleIds, KindIn, PaperRow, SaleRow
<1>4. /\ SoldBy(table', y, a) = 0 /\ SoldBy(table, y, a) = QtyOf(sale[r].items, a)
      /\ OwedBy(table', y, a) = 0
      /\ OwedBy(table, y, a) = IF sale[r].client = a THEN sale[r].owed ELSE 0
  BY <1>2, <1>3 DEF SoldBy, OwedBy
<1>5. /\ SoldIn(table, a) \in Int
      /\ SoldIn(table', a) = SoldIn(table, a) - QtyOf(sale[r].items, a) + 0
  BY <1>1, <1>2, <1>4, SoldChanges
<1>6. /\ OwedIn(table, a) \in Int
      /\ OwedIn(table', a) = OwedIn(table, a) - OwedBy(table, y, a) + 0
  BY <1>1, <1>2, <1>4, OwedChanges
<1>7. sale[r].items \in Seq(Item) /\ sale[r].owed \in Nat
  BY <1>2 DEF SaleRow
<1>8. QtyOf(sale[r].items, a) \in Nat /\ OwedBy(table, y, a) \in Nat
  BY <1>4, <1>7, QtyType
<1> QED
  BY <1>2, <1>4, <1>5, <1>6, <1>8

(* A commit changes the stock by what the transaction has moved.           *)
LEMMA CommitShips ==
  ASSUME Typed, NEW r \in Req, Ledger(r), Commit(r), pc[r] # "ok", NEW p \in Product
  PROVE  /\ table[p].shop \in Int /\ moved[r][p].shop \in Int
         /\ table'[p].shop = table[p].shop + moved[r][p].shop
<1>1. table'[p] = Seen(r, p)
  BY CommitEffect, VersionOf DEF Typed
<1>2. table[p] \in ProductRow /\ moved[r][p] \in Movement
  BY VersionOf DEF Typed, RowsOK, Rows
<1>3. table[p].shop \in Int /\ moved[r][p].shop \in Int
  BY <1>2 DEF ProductRow, Movement
<1>4. CASE p \in Locked(r)
  BY <1>1, <1>3, <1>4 DEF Seen, Ledger, IsMoved
<1>5. CASE p \notin Locked(r)
  BY <1>1, <1>3, <1>5 DEF Seen, Ledger, NoMove
<1> QED
  BY <1>3, <1>4, <1>5

\* A second deletion of one sale is told by DeletedOnce.
LEMMA GoneTwice ==
  ASSUME Typed, NEW r \in Req, CommitTx(r), call[r].op = "delete", DeletedOnce'
  PROVE  ~Gone(r)
<1>1. ASSUME NEW w \in Req \ {r}, pc[w] = "ok", call[w] = call[r] PROVE FALSE
  <2>1. pc'[w] = "ok" /\ call'[w] = call[w]
    BY <1>1, StepIsLocal DEF Own, Step
  <2>2. pc'[r] = "ok" /\ call'[r] = call[r]
    BY DEF CommitTx, Leave, Goto, Typed
  <2> QED
    BY <1>1, <2>1, <2>2 DEF DeletedOnce
<1> QED
  BY <1>1 DEF Gone

(* What leaves the shop is on a sale, and comes back from one.             *)
LEMMA StockMoves ==
  ASSUME Typed', Unborn, NEW r \in Req, Sound(r), Mine(r), Receive(r) \/ Step(r) \/ Fail(r),
         DeletedOnce', NEW p \in Product
  PROVE  table'[p].shop + SoldIn(table', p) = table[p].shop + SoldIn(table, p)
<1>2. CASE ~CommitTx(r)
  <2>1. table'[p] = table[p]
    BY <1>2, TableKept, OpenFiles, VersionOf, NamesAssumption DEF Id
  <2>2. SoldIn(table', p) = SoldIn(table, p)
    BY <1>2, SumsStay
  <2> QED
    BY <2>1, <2>2
<1>3. CASE CommitTx(r)
  <2>1. /\ table[p].shop \in Int /\ moved[r][p].shop \in Int
        /\ table'[p].shop = table[p].shop + moved[r][p].shop
    BY <1>3, CommitShips DEF CommitTx, Sound
  <2>2. pc[r] = "commit" /\ QtyOf(todo[r], p) = 0
    BY <1>3, QtyNone DEF CommitTx, Mine, Course
  <2>3. CASE call[r].op = "create"
    <3>1. sale[r].items = call[r].items /\ sale[r] \in SaleRow
      BY <1>3, <2>3, CreateFiles
    <3>2. moved[r][p].shop = 0 - QtyOf(sale[r].items, p) /\ QtyOf(sale[r].items, p) \in Nat
      BY <2>2, <2>3, <3>1, QtyType DEF Mine, Carried, SaleRow
    <3>3. /\ SoldIn(table, p) \in Int
          /\ SoldIn(table', p) = SoldIn(table, p) + QtyOf(sale[r].items, p)
      BY <1>3, <2>3, SumsCreate
    <3> QED
      BY <2>1, <3>2, <3>3
  <2>4. CASE call[r].op = "delete"
    <3>1. ~Gone(r) /\ Deleting(r)
      BY <1>3, <2>2, <2>4, GoneTwice DEF Deleting, Sound
    <3>2. /\ SoldIn(table, p) \in Int /\ sale[r] \in SaleRow
          /\ SoldIn(table', p) = SoldIn(table, p) - QtyOf(sale[r].items, p)
      BY <1>3, <2>4, <3>1, SumsDelete
    <3>3. QtyOf(sale[r].items, p) \in Nat
      BY <3>2, QtyType DEF SaleRow
    <3>4. moved[r][p].shop = QtyOf(sale[r].items, p) - 0
      BY <2>2, <3>1 DEF Mine, Carried
    <3> QED
      BY <2>1, <3>2, <3>3, <3>4
  <2>5. CASE call[r].op = "close"
    <3>1. moved[r][p].shop = 0
      BY <2>5 DEF Mine, Carried
    <3>2. SoldIn(table', p) = SoldIn(table, p)
      BY <2>5, SumsStay
    <3> QED
      BY <2>1, <3>1, <3>2
  <2> QED
    BY <1>3, <2>3, <2>4, <2>5, CommitOps
<1> QED
  BY <1>2, <1>3

LEMMA StockStep ==
  ASSUME Inv, Inv', Unborn, StockReconciles, NEW r \in Req, Mine(r),
         Receive(r) \/ Step(r) \/ Fail(r)
  PROVE  StockReconciles'
<1> SUFFICES ASSUME DeletedOnce', NEW p \in Product
             PROVE  table'[p].shop + SoldIn(table', p) = InitRow[p].shop + SoldIn(InitRow, p)
  BY DEF StockReconciles, GoodsAccounted
<1>1. table[p].shop + SoldIn(table, p) = InitRow[p].shop + SoldIn(InitRow, p)
  BY DeletedOnceBefore DEF StockReconciles, GoodsAccounted
<1>2. table'[p].shop + SoldIn(table', p) = table[p].shop + SoldIn(table, p)
  <2>1. Sound(r) /\ Typed'
    BY InvSound DEF Inv, TypeOK, Typed
  <2> QED
    BY <2>1, StockMoves
<1> QED
  BY <1>1, <1>2

(* A debt grows by what a new sale leaves unpaid, and shrinks when the     *)
(* sale is deleted.                                                        *)
LEMMA DebtMoves ==
  ASSUME Typed', Unborn, NEW r \in Req, Sound(r), Mine(r), Receive(r) \/ Step(r) \/ Fail(r),
         DeletedOnce', NEW c \in Client, table'[c].live
  PROVE  /\ table[c].live
         /\ table'[c].debt - OwedIn(table', c) = table[c].debt - OwedIn(table, c)
<1>1. table[c].live /\ (c \notin Locked(r) => table'[c] = table[c])
  BY ClientsKept
<1>2. CASE ~(CommitTx(r) /\ call[r].op \in {"create", "delete"})
  <2>1. table'[c] = table[c]
    BY <1>2, ClientsChange DEF PastDebt
  <2>2. OwedIn(table', c) = OwedIn(table, c)
    BY <1>2, SumsStay
  <2> QED
    BY <1>1, <2>1, <2>2
<1>3. CASE CommitTx(r) /\ call[r].op \in {"create", "delete"}
  <2>1. PastDebt(r)
    BY <1>3 DEF CommitTx, PastDebt
  <2>2. table[c] \in ClientRow
    BY VersionOf DEF Sound, Typed, RowsOK, Rows
  <2>3. table[c].debt \in Int
    BY <2>2 DEF ClientRow
  <2>4. /\ OwedIn(table, c) \in Int /\ sale[r] \in SaleRow
        /\ OwedIn(table', c) =
             IF sale[r].client = c THEN OwedIn(table, c) + DebtDelta(r) ELSE OwedIn(table, c)
    <3>1. CASE call[r].op = "create"
      <4>1. /\ OwedIn(table, c) \in Int
            /\ OwedIn(table', c) =
                 OwedIn(table, c) + IF sale[r].client = c THEN sale[r].owed ELSE 0
        BY <1>3, <3>1, SumsCreate
      <4>2. sale[r] \in SaleRow
        BY <1>3, <3>1, CreateFiles
      <4> QED
        BY <3>1, <4>1, <4>2 DEF DebtDelta
    <3>2. CASE call[r].op = "delete"
      <4>1. ~Gone(r)
        BY <1>3, <3>2, GoneTwice DEF Sound
      <4>2. /\ OwedIn(table, c) \in Int /\ sale[r] \in SaleRow
            /\ OwedIn(table', c) =
                 OwedIn(table, c) - IF sale[r].client = c THEN sale[r].owed ELSE 0
        BY <1>3, <3>2, <4>1, SumsDelete
      <4>3. sale[r].owed \in Nat /\ DebtDelta(r) = -sale[r].owed
        BY <3>2, <4>2 DEF DebtDelta, SaleRow
      <4> QED
        BY <4>2, <4>3
    <3> QED
      BY <1>3, <3>1, <3>2
  <2>5. DebtDelta(r) \in Int /\ (sale[r].owed = 0 => DebtDelta(r) = 0)
    BY <2>4 DEF DebtDelta, SaleRow
  <2>6. CASE c \in Locked(r)
    <3>1. c = sale[r].client
      BY <2>6 DEF Mine, Credit
    <3>2. table'[c].debt = table[c].debt + DebtDelta(r)
      <4>1. draft[r][c] = [table[c] EXCEPT !.debt = @ + DebtDelta(r)]
        BY <2>6 DEF Mine, Credit
      <4>2. table'[c] = draft[r][c]
        BY <1>3, <2>6, CommitEffect, VersionOf DEF CommitTx, Sound, Typed, Seen
      <4> QED
        BY <2>2, <4>1, <4>2 DEF ClientRow
    <3> QED
      BY <1>1, <2>3, <2>4, <2>5, <3>1, <3>2
  <2>7. CASE c \notin Locked(r)
    <3>1. c = sale[r].client => DebtDelta(r) = 0
      BY <1>1, <2>1, <2>5, <2>7 DEF Mine, Credit
    <3> QED
      BY <1>1, <2>3, <2>4, <2>7, <3>1
  <2> QED
    BY <2>6, <2>7
<1> QED
  BY <1>2, <1>3

LEMMA DebtStep ==
  ASSUME Inv, Inv', Unborn, DebtReconciles, NEW r \in Req, Mine(r),
         Receive(r) \/ Step(r) \/ Fail(r)
  PROVE  DebtReconciles'
<1> SUFFICES ASSUME DeletedOnce', NEW c \in Client, table'[c].live
             PROVE  table'[c].debt - OwedIn(table', c) = InitRow[c].debt - OwedIn(InitRow, c)
  BY DEF DebtReconciles
<1>1. /\ table[c].live
      /\ table'[c].debt - OwedIn(table', c) = table[c].debt - OwedIn(table, c)
  <2>1. Sound(r) /\ Typed'
    BY InvSound DEF Inv, TypeOK, Typed
  <2> QED
    BY <2>1, DebtMoves
<1>2. table[c].debt - OwedIn(table, c) = InitRow[c].debt - OwedIn(InitRow, c)
  BY <1>1, DeletedOnceBefore DEF DebtReconciles
<1> QED
  BY <1>1, <1>2

-----------------------------------------------------------------------------
(* Closed shifts.                                                          *)

LEMMA ClosedStays ==
  ASSUME Inv, Unborn, NEW r \in Req, Mine(r), Receive(r) \/ Step(r) \/ Fail(r),
         NEW s \in Id, Kind(s, "shift"), table[s].status = "closed"
  PROVE  table'[s] = table[s]
<1>1. table[s] # NoRow /\ table[s].kind = "shift"
  BY DEF Kind, KindIn
<1>2. ~Died(r, s)
  BY <1>1 DEF Died, Mine, Deleted, Deleting, SaleRow
<1> QED
  BY InvSound, <1>1, <1>2, NamesChange DEF Born, Shut

(* A guard lets r to no closed shift.                                      *)
LEMMA NoWayBack ==
  ASSUME Inv, NEW r \in Req, Mine(r), Receive(r) \/ Step(r) \/ Fail(r), NEW s \in Id, Sealed(s)
  PROVE  shift[r] # s /\ shift'[r] # s
<1>1. s \notin OpenShifts /\ NoRow # s
  BY NamesAssumption DEF Sealed, OpenShifts, Row
<1>2. shift[r] # s
  BY InvSound, <1>1, Running DEF Sealed, InFlight, Mine, Course
<1> USE DEF Inv, TypeOK
<1>3. CASE Refuse(r) \/ Fail(r) \/ OpenShift(r) \/ CommitTx(r)
  BY <1>1, <1>2, <1>3 DEF Refuse, Fail, OpenShift, CommitTx, Leave
<1>4. CASE GetCurrentOpen(r)
  <2>1. ASSUME NEW o \in CurrentOpen, shift' = [shift EXCEPT ![r] = o]
        PROVE  shift'[r] # s
    BY <1>1, <2>1, CurrentOpenType
  <2> QED
    BY <1>2, <1>3, <1>4, <2>1 DEF GetCurrentOpen, locals
<1>5. CASE CheckStatus(r)
  <2>1. ASSUME NEW o \in OpenShifts, shift' = [shift EXCEPT ![r] = o]
        PROVE  shift'[r] # s
    BY <1>1, <2>1
  <2> QED
    BY <1>2, <1>3, <1>5, <2>1 DEF CheckStatus, StatusOpen
<1>6. CASE Receive(r) \/ GetSale(r) \/ CheckReturns(r) \/ ReadItems(r) \/ AggregateSales(r)
  BY <1>2, <1>3, <1>6 DEF Receive, GetSale, CheckReturns, ReadItems, AggregateSales, locals
<1>7. CASE LockItem(r) \/ DeductItem(r) \/ RestoreItem(r)
  BY <1>2, <1>3, <1>7 DEF LockItem, DeductItem, RestoreItem, locals
<1>8. CASE InsertSale(r) \/ UpdateDebt(r) \/ RemoveSale(r) \/ CloseShift(r)
  BY <1>2, <1>3, <1>8 DEF InsertSale, UpdateDebt, RemoveSale, CloseShift, locals
<1> QED
  BY <1>2, <1>3, <1>4, <1>5, <1>6, <1>7, <1>8 DEF Step

LEMMA SealedStays ==
  ASSUME Inv, Unborn, NEW r \in Req, Mine(r), Receive(r) \/ Step(r) \/ Fail(r),
         NEW s \in Id, Sealed(s)
  PROVE  Sealed(s)' /\ SalesOf(s)' = SalesOf(s)
<1>1. Kind(s, "shift")' /\ table'[s].status = "closed"
  BY InvSound, ShiftsStay, ClosedStays DEF Sealed
<1>2. ASSUME NEW q \in Req, InFlight(q)' PROVE shift'[q] # s
  <2>1. CASE q = r
    BY <2>1, NoWayBack
  <2>2. CASE q # r
    <3>1. pc'[q] = pc[q] /\ shift'[q] = shift[q]
      BY <2>2, StepIsLocal, TypedOK DEF Inv, Own
    <3> QED
      BY <1>2, <3>1 DEF InFlight, Sealed
  <2> QED
    BY <2>1, <2>2
<1>3. Sealed(s)'
  BY <1>1, <1>2 DEF Sealed
<1>4. ASSUME NEW x \in Id,
             table'[x] # table[x]
      PROVE  /\ ~(Kind(x, "sale") /\ table[x].shift = s)
             /\ ~(Kind(x, "sale")' /\ table'[x].shift = s)
  <2>1. CASE OpenShift(r)
    <3>1. table[x] = NoRow /\ table'[x].kind = "shift"
      BY InvSound, <1>4, <2>1, OpenFiles DEF Row
    <3> QED
      BY <3>1 DEF Kind, KindIn
  <2>2. CASE CommitTx(r) /\ call[r].op = "close"
    <3>1. PICK z : z = shift[r]
      OBVIOUS
    <3>2. /\ table[r] = NoRow /\ table[z] \in ShiftRow /\ table'[z] \in ShiftRow
          /\ table'[r] \in BookingRow /\ \A y \in Id \ {z, r} : table'[y] = table[y]
      BY InvSound, <2>2, <3>1, CloseFiles
    <3>3. table[z].kind = "shift" /\ table'[z].kind = "shift" /\ table'[r].kind = "booking"
      BY <3>2 DEF ShiftRow, BookingRow
    <3> QED
      BY <1>4, <3>2, <3>3 DEF Kind, KindIn
  <2>3. CASE CommitTx(r) /\ call[r].op = "create"
    <3>1. x = r /\ table[x] = NoRow /\ table'[x].shift = shift[r]
      BY InvSound, <1>4, <2>3, CreateFiles
    <3> QED
      BY <3>1, NoWayBack DEF Kind, KindIn
  <2>4. CASE CommitTx(r) /\ call[r].op = "delete"
    <3>1. table'[x] = NoRow /\ (table[x] # NoRow => table[x].shift = shift[r])
      BY InvSound, <1>4, <2>4, DeleteFiles
    <3> QED
      BY <3>1, NoWayBack DEF Kind, KindIn
  <2> QED
    BY InvSound, <1>4, <2>1, <2>2, <2>3, <2>4, CommitOps, TableKept
<1>5. \A x \in Id : (Kind(x, "sale")' /\ table'[x].shift = s) <=>
                    (Kind(x, "sale") /\ table[x].shift = s)
  BY <1>4 DEF Kind, KindIn
<1>6. SalesOf(s)' = SalesOf(s)
  BY <1>5 DEF SalesOf
<1> QED
  BY <1>3, <1>6

-----------------------------------------------------------------------------
(* The theorems about the books.                                           *)

LEMMA BooksInit == Init => Books
<1> SUFFICES ASSUME Init PROVE Books
  OBVIOUS
<1>1. table = InitRow
  BY DEF Init
<1>2. Unborn
  BY <1>1, InitRowAssumption DEF Unborn
<1>3. ASSUME NEW r \in Req PROVE Mine(r)
  <2>1. /\ pc[r] = "idle" /\ call[r].op = "none" /\ shift[r] = NoRow /\ todo[r] = <<>>
        /\ Locked(r) = {}
    BY DEF Init, NoCall, Locked, NoDraft
  <2>2. NoRow \notin Id
    BY NamesAssumption DEF Row
  <2>3. Course(r)
    BY <2>1, <2>2 DEF Course
  <2>4. ~Creating(r) /\ ~Deleting(r) /\ ~Closing(r) /\ ~PastDebt(r)
    BY <2>1 DEF Creating, Deleting, Closing, PastDebt
  <2>5. Papers(r) /\ Created(r) /\ Deleted(r) /\ Closed(r) /\ Carried(r) /\ Credit(r)
    BY <2>1, <2>4 DEF Papers, Created, Deleted, Closed, Carried, Credit
  <2> QED
    BY <2>3, <2>5 DEF Mine
<1>4. BookedOnce
  BY <1>1, BookingAssumption DEF BookedOnce
<1>5. ASSUME NEW k \in Claim
      PROVE  \E b \in Id : /\ Kind(b, "booking") /\ k = ClaimOf(b)
                           /\ k.shift \in Id /\ Kind(k.shift, "shift")
                           /\ k.sales \subseteq Past
                           /\ \A x \in k.sales : Kind(x, "sale") => table[x].shift = k.shift
  <2>1. \A q \in Req : pc[q] = "idle"
    BY DEF Init
  <2>2. PICK b \in Id : Kind(b, "booking") /\ k = ClaimOf(b)
    BY <1>5, <2>1 DEF Claim
  <2>3. k.shift = InitRow[b].shift /\ k.sales = InitRow[b].sales
    BY <1>1, <2>2 DEF ClaimOf
  <2>4. /\ Kind(k.shift, "shift") /\ k.sales \subseteq Past
        /\ \A x \in k.sales : Kind(x, "sale") => table[x].shift = k.shift
    BY <1>1, <2>2, <2>3, BookingAssumption DEF Kind, OfShift
  <2>5. table[b] \in IdRow /\ table[b] # NoRow /\ table[b].kind = "booking"
    BY <1>1, <2>2, InitRowAssumption, VersionOf DEF Kind, KindIn, Rows
  <2>6. table[b] \in BookingRow
    BY <2>5 DEF IdRow, PaperRow, ShiftRow, SaleRow, ReturnRow
  <2>7. k.shift \in Id
    BY <1>1, <2>3, <2>6 DEF BookingRow
  <2> QED
    BY <2>2, <2>4, <2>7
<1>6. Claimed
  <2>1. ASSUME NEW k \in Claim, NEW l \in Claim, k.shift # l.shift
        PROVE  k.sales \cap l.sales = {}
    <3>1. PICK a \in Id : Kind(a, "booking") /\ k = ClaimOf(a)
      BY <1>5
    <3>2. PICK b \in Id : Kind(b, "booking") /\ l = ClaimOf(b)
      BY <1>5
    <3>3. a # b /\ k.sales = table[a].sales /\ l.sales = table[b].sales
      BY <2>1, <3>1, <3>2 DEF ClaimOf
    <3> QED
      BY <1>4, <3>1, <3>2, <3>3 DEF BookedOnce, BookedIn, Kind
  <2>2. ASSUME NEW k \in Claim
        PROVE  /\ \A x \in k.sales : /\ Existed(x)
                                     /\ Kind(x, "sale") => table[x].shift = k.shift
               /\ k.shift \in Id /\ Kind(k.shift, "shift")
    BY <1>5 DEF Existed
  <2> QED
    BY <2>1, <2>2 DEF Claimed
<1>7. StockReconciles /\ DebtReconciles /\ LiveKept
  BY <1>1 DEF StockReconciles, GoodsAccounted, DebtReconciles, LiveKept
<1> QED
  BY <1>2, <1>3, <1>4, <1>6, <1>7 DEF Books, Mine

LEMMA BooksStep == Inv /\ Inv' /\ Books /\ [Next]_vars => Books'
<1> SUFFICES ASSUME Inv, Inv', Books, [Next]_vars PROVE Books'
  OBVIOUS
<1>1. CASE UNCHANGED vars
  <2>1. /\ table' = table /\ draft' = draft /\ moved' = moved /\ pc' = pc /\ call' = call
        /\ shift' = shift /\ sale' = sale /\ todo' = todo /\ totals' = totals
    BY <1>1 DEF vars, locals
  <2>2. Unborn' /\ LiveKept' /\ BookedOnce' /\ StockReconciles' /\ DebtReconciles'
    BY <2>1 DEF Books, Unborn, Existed, LiveKept, BookedOnce, StockReconciles, GoodsAccounted,
                DebtReconciles, DeletedOnce
  <2>3. Claimed'
    BY <2>1 DEF Books, Claimed, Claim, Claims, ClaimOf, Kind, Existed
  <2>4. \A r \in Req : Course(r)' /\ Papers(r)' /\ Created(r)' /\ Deleted(r)'
    BY <2>1 DEF Books, Course, Papers, Created, Deleted, Kind, Locked, Creating, Deleting, Gone,
                Existed
  <2>5. ASSUME NEW r \in Req PROVE Closed(r)' /\ Carried(r)' /\ Credit(r)'
    <3>1. Closed(r)'
      <4>1. Closed(r) /\ Closing(r)' = Closing(r)
        BY <2>1 DEF Books, Closing
      <4> QED
        BY <2>1, <4>1 DEF Closed
    <3>2. Carried(r)'
      BY <2>1 DEF Books, Carried, Deleting, Gone
    <3>3. Credit(r)'
      BY <2>1 DEF Books, Credit, Locked, PastDebt, DebtDelta
    <3> QED
      BY <3>1, <3>2, <3>3
  <2> QED
    BY <2>2, <2>3, <2>4, <2>5 DEF Books
<1>2. ASSUME NEW r \in Req, Receive(r) \/ Step(r) \/ Fail(r) PROVE Books'
  <2>1. \A q \in Req : Mine(q)
    BY DEF Books, Mine
  <2>2. \A q \in Req : Mine(q)'
    BY InvSound, <1>2, <2>1, OwnBooks, OthersBooks DEF Books
  <2>3. Unborn' /\ LiveKept'
    BY InvSound, <1>2, <2>1, UnbornStep, LiveKeptStep DEF Books
  <2>4. Claimed'
    BY <1>2, <2>1, ClaimedStep DEF Books
  <2>5. BookedOnce'
    BY <1>2, <2>1, <2>4, BookedOnceStep DEF Books
  <2>6. StockReconciles' /\ DebtReconciles'
    BY <1>2, <2>1, StockStep, DebtStep DEF Books
  <2> QED
    BY <2>2, <2>3, <2>4, <2>5, <2>6 DEF Books, Mine
<1> QED
  BY <1>1, <1>2 DEF Next

LEMMA BooksInvariance == Spec => []Books
BY Invariance, BooksInit, BooksStep, PTL DEF Spec

(* For any requests, products and bodies: what is in the shop and what the *)
(* existing sales hold always add up to what was there, however sales,     *)
(* deletions and failures interleave, unless two requests have both        *)
(* deleted one sale.                                                       *)
THEOREM StockAlwaysReconciles == Spec => []StockReconciles
<1>1. Books => StockReconciles
  BY DEF Books
<1> QED
  BY <1>1, BooksInvariance, PTL

(* For any requests and clients: the debt column of a client who is not    *)
(* deleted is always what the existing sales left unpaid, on top of what   *)
(* he owed before, with the same exception.                                *)
THEOREM DebtAlwaysReconciles == Spec => []DebtReconciles
<1>1. Books => DebtReconciles
  BY DEF Books
<1> QED
  BY <1>1, BooksInvariance, PTL

(* However many requests open and close shifts at once: an open shift is   *)
(* booked nowhere, a closed one exactly once and for the sales it totals,  *)
(* and no sale reaches the safe twice.                                     *)
THEOREM ShiftsBookedOnce == Spec => []BookedOnce
<1>1. Books => BookedOnce
  BY DEF Books
<1> QED
  BY <1>1, BooksInvariance, PTL

(* A closed shift never changes, and once the requests that had found it   *)
(* open have ended no sale enters or leaves it.                            *)
THEOREM ClosedShiftsStayFrozen == Spec => ClosedShiftFrozen
<1>1. Inv /\ Books /\ [Next]_vars =>
        [\A s \in Id :
           /\ Kind(s, "shift") /\ table[s].status = "closed" => table'[s] = table[s]
           /\ Sealed(s) => Sealed(s)' /\ SalesOf(s)' = SalesOf(s)]_vars
  <2> SUFFICES ASSUME Inv, Books, NEW r \in Req, Receive(r) \/ Step(r) \/ Fail(r), NEW s \in Id
               PROVE  /\ Kind(s, "shift") /\ table[s].status = "closed" => table'[s] = table[s]
                      /\ Sealed(s) => Sealed(s)' /\ SalesOf(s)' = SalesOf(s)
    BY DEF Next
  <2>1. Mine(r) /\ Unborn
    BY DEF Books, Mine
  <2> QED
    BY <2>1, ClosedStays, SealedStays
<1> QED
  BY <1>1, Invariance, BooksInvariance, PTL DEF Spec, ClosedShiftFrozen
=============================================================================
