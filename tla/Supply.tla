------------------------------- MODULE Supply -------------------------------
(***************************************************************************)
(* The goods side of the shop apart from the sales: StockTransferService,  *)
(* PurchaseOrderService and SupplierPaymentService, which move goods under *)
(* row locks, and the catalogue (ProductService and SupplierService),      *)
(* which works on the pool.                                                *)
(*                                                                         *)
(* The row named after a request is the transfer, order or payment that it *)
(* inserts, an order with its items, each with the entry it makes in the   *)
(* safe: `booked' is the amount of that entry, a cash expense. Amounts of  *)
(* requests are counted in parts, those of rows in units.                  *)
(***************************************************************************)
EXTENDS Sequences, FiniteSetsExt, Products, Decimal

CONSTANTS
  Supplier, \* the suppliers
  Past,     \* the names of the rows made before the requests arrive
  Item,     \* the names of the items of inventory checks: <<check, product>>
  Cost,     \* the cost price of every product, a column
  InitRow,  \* the database the requests find
  Body      \* the validated request bodies the users may send

VARIABLES
  pc,       \* the statement each request is at
  call,     \* the body of each request
  todo      \* the movements or counts its loops have still to make

locals == <<call, todo>>
vars == <<table, draft, product, moved, pc, locals>>
goods == <<product, moved>>

Id == Req \cup Past
Row == Product \cup Supplier \cup Id \cup Item

-----------------------------------------------------------------------------
\* One movement of one product: what it adds to the shop and to the warehouse.
Move == [product : Product, shop : Int, warehouse : Int]

SupplierRow == [kind : {"supplier"}, debt : Int, live : BOOLEAN]

OrderRow == [kind : {"order"}, supplier : Supplier, moves : Seq(Move), total : Nat,
             paid : Nat, booked : Nat, status : {"paid", "partial", "unpaid"}]

\* A payment in money, or by goods that go back: then moves is not empty.
PaymentRow == [kind : {"payment"}, supplier : Supplier, order : Id \cup {NoRow},
               moves : Seq(Move), amount : Nat, booked : Nat]

TransferRow == [kind : {"transfer"}, moves : Seq(Move)]

Place == {"shop", "warehouse"}

CheckRow == [kind : {"check"}, location : Place, status : {"in_progress", "completed"}]

\* The product and the check of an item are its name.
ItemRow == [kind : {"item"}, expected : Int, actual : Int \cup {NoRow}]

PaperRow == OrderRow \cup PaymentRow \cup TransferRow \cup CheckRow

Version(x) ==
  CASE x \in Product  -> {NoRow} \cup ProductRow
    [] x \in Supplier -> {NoRow} \cup SupplierRow
    [] x \in Item     -> {NoRow} \cup ItemRow
    [] OTHER            -> {NoRow} \cup PaperRow

Rows(f) ==
  /\ f = [x \in DOMAIN f |-> f[x]]
  /\ DOMAIN f \subseteq Row
  /\ \A x \in DOMAIN f : f[x] \in Version(x)

\* A transfer takes from one place what it adds to the other, an order only
\* adds, goods returned to a supplier leave the shop.
TransferBody ==
  {b \in [op : {"transfer"}, moves : Seq(Move)] :
     /\ Len(b.moves) = 1
     /\ b.moves[1].shop # 0 /\ b.moves[1].shop + b.moves[1].warehouse = 0}

OrderBody ==
  {b \in [op : {"order"}, supplier : Supplier, moves : Seq(Move) \ {<<>>}, total : Nat,
          paid : Nat] :
     \A i \in DOMAIN b.moves :
       /\ b.moves[i].shop >= 0 /\ b.moves[i].warehouse >= 0
       /\ (b.moves[i].shop = 0) # (b.moves[i].warehouse = 0)}

PaymentBody ==
  {b \in [op : {"payment"}, supplier : Supplier, order : Id \cup {NoRow}, moves : Seq(Move),
          amount : Nat] :
     \/ b.moves = <<>> /\ b.amount > 0
     \/ Len(b.moves) = 1 /\ b.moves[1].shop < 0 /\ b.moves[1].warehouse = 0}

\* An update names the quantities it sets; the others are pointers that are nil.
UpdateBody == [op : {"update"}, product : Product, set : SUBSET {"shop", "warehouse"},
               shop : Nat, warehouse : Nat]

\* The name, the phone and the notes of a supplier are not modelled.
RenameBody == [op : {"rename"}, supplier : Supplier]

DeleteBody == [op : {"delete"}, row : Product \cup Supplier]

\* A new product comes with its first quantities, a new supplier without debt.
CreateBody ==
  {b \in [op : {"create"}, name : Product \cup Supplier, row : ProductRow \cup SupplierRow] :
     /\ b.row.live
     /\ IF b.name \in Product
          THEN b.row.kind = "product" /\ b.row.shop >= 0 /\ b.row.warehouse >= 0
          ELSE b.row.kind = "supplier" /\ b.row.debt = 0}

CheckBody == [op : {"check"}, location : Place]

\* How many pieces of the product of an item there are.
Count == [item : Item, qty : Int]

CountBody == [op : {"count"}, check : Id, counts : Seq(Count), complete : BOOLEAN]

NoCall == [op |-> "none"]

ASSUME NamesAssumption ==
  /\ IsFiniteSet(Id) /\ IsFiniteSet(Item)
  /\ Product \cap Supplier = {} /\ Product \cap Id = {} /\ Supplier \cap Id = {}
  /\ Req \cap Past = {}
  /\ Item \subseteq Id \X Product /\ Item \cap (Product \cup Supplier \cup Id) = {}
  /\ NoRow \notin Row \cup Int \cup ProductRow \cup SupplierRow \cup ItemRow \cup PaperRow

ASSUME CostAssumption == Cost \in [Product -> Nat]

ASSUME BodyAssumption ==
  Body \subseteq TransferBody \cup OrderBody \cup PaymentBody \cup CreateBody \cup UpdateBody
             \cup RenameBody \cup DeleteBody \cup CheckBody \cup CountBody

ASSUME InitRowAssumption ==
  /\ Rows(InitRow) /\ DOMAIN InitRow = Row
  /\ \A p \in Product : InitRow[p] = NoRow \/ (InitRow[p].shop >= 0 /\ InitRow[p].warehouse >= 0)
  /\ \A r \in Req : InitRow[r] = NoRow
  /\ \A x \in Item : InitRow[x] # NoRow =>
       InitRow[x[1]] # NoRow /\ InitRow[x[1]].kind = "check" /\ InitRow[x[2]] # NoRow

Kind(x, k) == table[x] # NoRow /\ table[x].kind = k

\* What a payment is worth: the amount of the body, or the goods at cost price.
AmountOf(b) ==
  IF b.moves = <<>> THEN b.amount ELSE Parts * (Cost[b.moves[1].product] * (-b.moves[1].shop))

-----------------------------------------------------------------------------
InFlight(r) == pc[r] \notin {"idle", "ok", "failed"}

Goto(r, statement) == pc' = [pc EXCEPT ![r] = statement]

\* The handler returns: its variables are gone.
Leave(r, outcome) ==
  /\ Goto(r, outcome)
  /\ product' = [product EXCEPT ![r] = NoRow]
  /\ todo' = [todo EXCEPT ![r] = <<>>]
  /\ UNCHANGED call

\* An error return, with the deferred Rollback.
Refuse(r) ==
  /\ Rollback(r)
  /\ moved' = [moved EXCEPT ![r] = Still]
  /\ Leave(r, "failed")

Fail(r) == InFlight(r) /\ Refuse(r)

\* The rows a body names.
Named(b) ==
  CASE b.op \in {"transfer", "order", "payment"} ->
         {b.moves[i].product : i \in DOMAIN b.moves}
         \cup (IF b.op = "transfer" THEN {} ELSE {b.supplier})
         \cup (IF b.op = "payment" /\ b.order \in Req THEN {b.order} ELSE {})
    [] b.op = "update" -> {b.product}
    [] b.op = "rename" -> {b.supplier}
    [] b.op = "delete" -> {b.row}
    [] b.op = "create" -> {}

\* The server chooses the name of a row (uuid.New): a body cannot name it before
\* the row is there, and no two creations choose the same.
Nameable(b) ==
  /\ \A x \in Named(b) : table[x] # NoRow
  /\ b.op = "create" =>
       table[b.name] = NoRow /\ \A q \in Req : call[q].op = "create" => call[q].name # b.name

\* A request of this module: the inventory checks have one of their own.
Receive(r) ==
  /\ pc[r] = "idle"
  /\ \E b \in {c \in Body \ (CheckBody \cup CountBody) : Nameable(c)} :
       /\ call' = [call EXCEPT ![r] = b]
       /\ todo' = [todo EXCEPT ![r] =
                     IF b.op \in {"transfer", "order", "payment"} THEN b.moves ELSE <<>>]
       /\ Goto(r, CASE b.op = "create" -> "create"
                    [] b.op = "update" -> "get"
                    [] b.op = "rename" -> "find"
                    [] b.op = "delete" -> "delete"
                    [] b.op = "payment" /\ b.moves = <<>> -> "debt"
                    [] OTHER -> "lock")
  /\ UNCHANGED <<db, goods>>

-----------------------------------------------------------------------------
(* The movements, one product after the other.                             *)

LockProduct(r) ==
  /\ pc[r] = "lock"
  /\ LET p == Head(todo[r]).product
     IN \/ /\ GetByIDForUpdate(r, p)
           /\ Goto(r, "move")
           /\ UNCHANGED <<moved, locals>>
        \/ /\ ProductNotFound(r, p)
           /\ Refuse(r)

\* Mutation of Enough: only the shop is looked at.
EnoughShopOnly(r, m) == product[r].shop + m.shop >= 0

\* The place the goods leave has them, in the row read under the lock.
Enough(r, m) == product[r].shop + m.shop >= 0 /\ product[r].warehouse + m.warehouse >= 0

\* Where the service goes when the movements still to make are rest.
AfterMoves(r, rest) ==
  CASE rest # <<>> -> "lock"
    [] rest = <<>> /\ call[r].op = "payment" -> "debt"
    [] OTHER -> "insert"

MoveGoods(r) ==
  /\ pc[r] = "move"
  /\ LET m == Head(todo[r])
     IN \/ /\ Enough(r, m)
           /\ UpdateStock(r, m.product, product[r].shop + m.shop,
                          product[r].warehouse + m.warehouse)
           /\ todo' = [todo EXCEPT ![r] = Tail(@)]
           /\ Goto(r, AfterMoves(r, Tail(todo[r])))
           /\ UNCHANGED <<product, call>>
        \/ /\ ~Enough(r, m)
           /\ Refuse(r)

-----------------------------------------------------------------------------
(* The inserts and the money.                                              *)

\* RecalcStatus, of the columns; Create does the same for a new order with the
\* amounts before they are rounded.
Status(paid, total) ==
  IF paid >= total THEN "paid" ELSE IF paid > 0 THEN "partial" ELSE "unpaid"

\* stRepo.Create, the last statement of a transfer.
InsertTransfer(r) ==
  /\ pc[r] = "insert"
  /\ call[r].op = "transfer"
  /\ Write(r, [x \in {r} |-> [kind |-> "transfer", moves |-> call[r].moves]])
  /\ Goto(r, "commit")
  /\ UNCHANGED <<goods, locals>>

\* The amount paid is compared only now, with the goods already moved; then the
\* order, its items and the entry in the safe.
InsertOrder(r) ==
  /\ pc[r] = "insert"
  /\ call[r].op = "order"
  /\ LET b == call[r]
     IN \/ /\ b.paid <= b.total
           /\ Write(r, [x \in {r} |->
                [kind |-> "order", supplier |-> b.supplier, moves |-> b.moves,
                 total |-> Round(b.total), paid |-> Round(b.paid), booked |-> Round(b.paid),
                 status |-> Status(b.paid, b.total)]])
           /\ Goto(r, IF b.paid < b.total THEN "debt" ELSE "commit")
           /\ UNCHANGED <<goods, locals>>
        \/ /\ b.paid > b.total
           /\ Refuse(r)

\* Mutation of DebtDelta: an order adds its total, whatever was paid.
DebtDeltaTotal(r) == IF call[r].op = "order" THEN call[r].total ELSE -AmountOf(call[r])

DebtDelta(r) ==
  IF call[r].op = "order" THEN call[r].total - call[r].paid ELSE -AmountOf(call[r])

\* supplierRepo.UpdateDebt; a deleted supplier keeps the debt he has.
UpdateDebt(r) ==
  /\ pc[r] = "debt"
  /\ LET s == call[r].supplier
     IN \/ /\ Seen(r, s).live
           /\ Write(r, [x \in {s} |-> [Seen(r, s) EXCEPT !.debt = Plus(@, DebtDelta(r))]])
        \/ /\ ~Seen(r, s).live
           /\ UNCHANGED db
  /\ Goto(r, CASE call[r].op = "order" -> "commit"
               [] call[r].op = "payment" /\ call[r].order # NoRow -> "paid"
               [] OTHER -> "pay")
  /\ UNCHANGED <<goods, locals>>

\* Mutation of PaidOrder: UpdatePaidAmount without RecalcStatus.
PaidOrderNoStatus(o, amount) == [o EXCEPT !.paid = Plus(@, amount)]

\* Order o with this amount more paid.
PaidOrder(o, amount) ==
  [o EXCEPT !.paid = Plus(@, amount), !.status = Status(Plus(o.paid, amount), o.total)]

\* UpdatePaidAmount, then RecalcStatus on the row that is now locked. Whose
\* order it is and what of it is left to pay is not looked at.
PayOrder(r) ==
  /\ pc[r] = "paid"
  /\ LET o == call[r].order
     IN IF Kind(o, "order")
          THEN Write(r, [x \in {o} |-> PaidOrder(Seen(r, o), AmountOf(call[r]))])
          ELSE UNCHANGED db
  /\ Goto(r, "pay")
  /\ UNCHANGED <<goods, locals>>

\* spRepo.Create; the foreign key wants the order to exist.
InsertPayment(r) ==
  /\ pc[r] = "pay"
  /\ LET b == call[r]
     IN \/ /\ b.order # NoRow => Kind(b.order, "order")
           /\ Write(r, [x \in {r} |->
                [kind |-> "payment", supplier |-> b.supplier, order |-> b.order,
                 moves |-> b.moves, amount |-> Round(AmountOf(b)),
                 booked |-> IF b.moves = <<>> THEN Round(b.amount) ELSE 0]])
           /\ Goto(r, "commit")
           /\ UNCHANGED <<goods, locals>>
        \/ /\ b.order # NoRow /\ ~Kind(b.order, "order")
           /\ Refuse(r)

CommitTx(r) ==
  /\ pc[r] = "commit"
  /\ Commit(r)
  /\ Leave(r, "ok")
  /\ UNCHANGED moved

-----------------------------------------------------------------------------
(* The catalogue, on the pool.                                             *)

\* productRepo.Create, supplierRepo.Create. A second product with the article
\* number of a first is one of the errors that Fail stands for.
CreateRow(r) ==
  /\ pc[r] = "create"
  /\ LET x == call[r].name
         row == call[r].row
     IN /\ Autocommit(r, x, row)
        /\ moved' = IF x \in Product
             THEN [moved EXCEPT ![r][x] = [shop |-> row.shop, warehouse |-> row.warehouse]]
             ELSE moved
  /\ Leave(r, "ok")

\* productRepo.GetByID: no lock.
GetProduct(r) ==
  /\ pc[r] = "get"
  /\ LET p == call[r].product
     IN \/ /\ table[p].live
           /\ product' = [product EXCEPT ![r] = table[p]]
           /\ Goto(r, "put")
           /\ UNCHANGED <<db, moved, locals>>
        \/ /\ ~table[p].live
           /\ Refuse(r)

\* The row Update writes: the row it has read, with what the body sets.
Updated(r) ==
  [product[r] EXCEPT !.shop = IF "shop" \in call[r].set THEN call[r].shop ELSE @,
                     !.warehouse = IF "warehouse" \in call[r].set THEN call[r].warehouse ELSE @]

\* Mutation of StillLive: the UPDATE has no condition on is_deleted.
StillLiveAny(x) == TRUE

\* The condition AND is_deleted = false of an UPDATE, on the row once it is free.
StillLive(x) == table[x].live

\* productRepo.Update: every column, the two quantities included.
PutProduct(r) ==
  /\ pc[r] = "put"
  /\ LET p == call[r].product
     IN \/ /\ StillLive(p)
           /\ Autocommit(r, p, Updated(r))
           /\ moved' = [moved EXCEPT ![r][p] =
                          [shop |-> Updated(r).shop - table[p].shop,
                           warehouse |-> Updated(r).warehouse - table[p].warehouse]]
           /\ Leave(r, "ok")
        \/ /\ Free(r, p)
           /\ ~StillLive(p)
           /\ Refuse(r)

\* supplierRepo.GetByID: no lock.
GetSupplier(r) ==
  /\ pc[r] = "find"
  /\ \/ /\ table[call[r].supplier].live
        /\ Goto(r, "rename")
        /\ UNCHANGED <<db, goods, locals>>
     \/ /\ ~table[call[r].supplier].live
        /\ Refuse(r)

\* supplierRepo.Update: the columns of the form only. The debt is the one of the
\* row that is found once it is free.
PutSupplier(r) ==
  /\ pc[r] = "rename"
  /\ LET s == call[r].supplier
     IN \/ /\ StillLive(s)
           /\ Autocommit(r, s, table[s])
           /\ Leave(r, "ok")
           /\ UNCHANGED moved
        \/ /\ Free(r, s)
           /\ ~StillLive(s)
           /\ Refuse(r)

\* SoftDelete of a product or a supplier, whatever is in stock or owed.
SoftDelete(r) ==
  /\ pc[r] = "delete"
  /\ LET x == call[r].row
     IN \/ /\ StillLive(x)
           /\ Autocommit(r, x, [table[x] EXCEPT !.live = FALSE])
           /\ Leave(r, "ok")
           /\ UNCHANGED moved
        \/ /\ Free(r, x)
           /\ ~StillLive(x)
           /\ Refuse(r)

-----------------------------------------------------------------------------
Init ==
  /\ table = InitRow
  /\ draft = [r \in Req |-> NoDraft]
  /\ product = [r \in Req |-> NoRow]
  /\ moved = [r \in Req |-> Still]
  /\ pc = [r \in Req |-> "idle"]
  /\ call = [r \in Req |-> NoCall]
  /\ todo = [r \in Req |-> <<>>]

Step(r) ==
  \/ LockProduct(r) \/ MoveGoods(r)
  \/ InsertTransfer(r) \/ InsertOrder(r) \/ UpdateDebt(r) \/ PayOrder(r) \/ InsertPayment(r)
  \/ CommitTx(r)
  \/ CreateRow(r) \/ GetProduct(r) \/ PutProduct(r) \/ GetSupplier(r) \/ PutSupplier(r)
  \/ SoftDelete(r)

Next == \E r \in Req : Receive(r) \/ Step(r) \/ Fail(r)

Spec == Init /\ [][Next]_vars

-----------------------------------------------------------------------------
(* Properties.                                                             *)

Statement ==
  {"idle", "lock", "move", "insert", "debt", "paid", "pay", "commit",
   "create", "get", "put", "find", "rename", "delete",
   "list", "header", "items", "count", "read", "item", "set", "complete", "ok", "failed"}

(* Every row, committed or not, and every local of a handler has the type  *)
(* the schema and the Go declarations give it.                             *)
TypeOK ==
  /\ Rows(table) /\ DOMAIN table = Row
  /\ draft = [r \in Req |-> draft[r]]
  /\ \A r \in Req : Rows(draft[r])
  /\ product \in [Req -> ProductRow \cup {NoRow}]
  /\ moved \in [Req -> [Product -> Movement]]
  /\ pc \in [Req -> Statement]
  /\ call \in [Req -> Body \cup {NoCall}]
  /\ todo \in [Req -> Seq(Move \cup Count)]

(* Neither the shop nor the warehouse is ever below zero, committed or in  *)
(* a transaction: transfers and returns to suppliers check under the lock, *)
(* and an update that writes back what it has read cannot break it either. *)
NoOversell ==
  /\ \A p \in Product : Kind(p, "product") => table[p].shop >= 0 /\ table[p].warehouse >= 0
  /\ \A r \in Req : \A p \in Locked(r) \cap Product :
       draft[r][p].shop >= 0 /\ draft[r][p].warehouse >= 0

MadeBy(t, kinds) == {x \in Id : t[x] # NoRow /\ t[x].kind \in kinds}

\* What the orders from s and the payments to him leave owing in t.
OwedIn(t, s) ==
  SumFunction([x \in Id |->
    IF x \notin MadeBy(t, {"order", "payment"}) \/ t[x].supplier # s THEN 0
    ELSE IF t[x].kind = "order" THEN t[x].total - t[x].booked ELSE -t[x].amount])

\* What the payments for order o in t come to.
PaidFor(t, o) ==
  SumFunction([x \in Id |->
    IF x \in MadeBy(t, {"payment"}) /\ t[x].order = o THEN t[x].amount ELSE 0])

PaymentsFor(t, o) == {x \in MadeBy(t, {"payment"}) : t[x].order = o}

\* The foreign keys of the papers the requests find are there, and their orders
\* agree with their payments.
ASSUME PaperAssumption ==
  \A x \in MadeBy(InitRow, {"order", "payment", "transfer"}) :
    LET row == InitRow[x] IN
    /\ \A i \in DOMAIN row.moves : InitRow[row.moves[i].product] # NoRow
    /\ row.kind \in {"order", "payment"} => InitRow[row.supplier] # NoRow
    /\ row.kind = "payment" /\ row.order # NoRow => row.order \in MadeBy(InitRow, {"order"})
    /\ row.kind = "order" =>
         /\ row.paid = row.booked + PaidFor(InitRow, x)
         /\ PaymentsFor(InitRow, x) # {} => row.status = Status(row.paid, row.total)

\* What an order leaves unpaid or a payment pays off, in parts.
Worth(b) == IF b.op = "order" THEN b.total - b.paid ELSE AmountOf(b)

\* The debt and the record may round a request apart: where what it is worth ends in
\* half a unit, which the debt rounds in a sum, and where the total and the paid
\* amount of an order, rounded one by one, differ by something else.
Apart(b) ==
  \/ IsHalf(Worth(b))
  \/ b.op = "order" /\ Round(Worth(b)) # Round(b.total) - Round(b.paid)

\* The recorded orders from s and payments to him of that kind.
Inexact(s) ==
  {r \in Req : /\ pc[r] = "ok" /\ call[r].op \in {"order", "payment"}
              /\ call[r].supplier = s /\ Apart(call[r])}

(* What the shop owes a supplier who is not deleted is what his orders     *)
(* left unpaid less the payments to him: the running total moves in the    *)
(* transactions that record them. It drifts from the records, which are    *)
(* rounded one by one, by at most a unit for every request that the two    *)
(* round apart, and for no other reason.                                   *)
DebtReconciles ==
  \A s \in Supplier : Kind(s, "supplier") /\ table[s].live =>
    LET ahead == IF InitRow[s] = NoRow THEN 0 ELSE InitRow[s].debt - OwedIn(InitRow, s)
        drift == table[s].debt - OwedIn(table, s) - ahead
    IN -Cardinality(Inexact(s)) <= drift /\ drift <= Cardinality(Inexact(s))

\* The status of an order before any payment is made in its name.
FirstStatus(o) ==
  IF o \in Req THEN Status(call[o].paid, call[o].total) ELSE InitRow[o].status

(* An order's paid amount is to the unit what the safe paid when it was    *)
(* made and the payments in its name since. Its status agrees with the two *)
(* amounts of its row at every commit of such a payment, though two        *)
(* statements write them, and before the first with the amounts of the     *)
(* request, which were not rounded yet.                                    *)
PaidReconciles ==
  \A o \in MadeBy(table, {"order"}) :
    /\ table[o].paid = table[o].booked + PaidFor(table, o)
    /\ table[o].status = IF PaymentsFor(table, o) = {} THEN FirstStatus(o)
                         ELSE Status(table[o].paid, table[o].total)

(* A deletion is final: no request, not even one that had read the product *)
(* before or was waiting for its lock, ever changes a deleted product or   *)
(* supplier again.                                                         *)
DeletedIsFinal ==
  [][\A x \in Product \cup Supplier :
       (table[x] # NoRow /\ ~table[x].live) => table'[x] = table[x]]_vars

\* Of a product that is not there yet there is nothing.
InStock(row) ==
  IF row = NoRow THEN [shop |-> 0, warehouse |-> 0]
  ELSE [shop |-> row.shop, warehouse |-> row.warehouse]

(* Transfers, orders and payments move their goods as Stock promises, each *)
(* at its commit, by what it computed.                                     *)
Goods ==
  INSTANCE Stock WITH
    stock <- [p \in Product |-> InStock(table[p])],
    moved <- [r \in Req |-> IF pc[r] = "ok" THEN moved[r] ELSE Still]

MovesAtomically == Goods!Spec

(* The design asks for "`SELECT ... FOR UPDATE` on product rows during     *)
(* stock-modifying operations": an update that sets no quantity (a new     *)
(* price, say) moves no goods.                                             *)
UpdateMovesOnlyWhatItSets ==
  \A r \in Req : (pc[r] = "ok" /\ call[r].op = "update") =>
    \A p \in Product :
      /\ "shop" \notin call[r].set => moved[r][p].shop = 0
      /\ "warehouse" \notin call[r].set => moved[r][p].warehouse = 0
=============================================================================
