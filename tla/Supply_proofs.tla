--------------------------- MODULE Supply_proofs ---------------------------
(***************************************************************************)
(* Safety of the goods services for every set of requests, products,       *)
(* suppliers, checks and bodies, and any number of parts to a unit, under  *)
(* InventoryChecks' CheckSpec (which allows all that Supply's Spec         *)
(* allows): types, row locks, no oversell, counted items of completed      *)
(* checks, final deletions and the implementation of Stock, from the       *)
(* invariant Inv; the books of goods, of supplier debts and of orders,     *)
(* from the invariant Accounts.                                            *)
(***************************************************************************)
EXTENDS InventoryChecks, Sums_proofs

(***************************************************************************)
(* The inductive invariant. Course says what a request knows at each of    *)
(* its statements, Exclusive that a row is locked by one transaction at a  *)
(* time, Quiet that a request outside its transaction holds nothing,       *)
(* Drafts which rows a transaction may have written and what is in them,   *)
(* Ledger that a locked product differs from its committed version by what *)
(* the transaction has moved, and Items what checks and their items have   *)
(* to do with each other.                                                  *)
(***************************************************************************)
Is(x) == table[x] # NoRow

Moving == {"transfer", "order", "payment"}

Course(r) ==
  LET b == call[r] IN
  /\ IF pc[r] = "idle" THEN b = NoCall ELSE b \in Body
  /\ pc[r] # "idle" /\ b.op \notin {"check", "count"} => \A x \in Named(b) : Is(x)
  /\ pc[r] \in {"lock", "move"} =>
       /\ b.op \in Moving /\ todo[r] # <<>>
       /\ \A i \in DOMAIN todo[r] : todo[r][i] \in Move /\ todo[r][i].product \in Named(b)
  /\ pc[r] = "move" => LET p == Head(todo[r]).product
                       IN p \in Locked(r) /\ product[r] = draft[r][p]
  /\ pc[r] = "insert" => b.op \in {"transfer", "order"}
  /\ pc[r] = "debt" => b.op \in {"order", "payment"}
  /\ pc[r] = "paid" => b.op = "payment" /\ b.order # NoRow
  /\ pc[r] = "pay" => b.op = "payment"
  /\ pc[r] = "create" => b.op = "create" /\ ~Is(b.name)
  /\ pc[r] \in {"get", "put"} => b.op = "update"
  /\ pc[r] = "put" => product[r] \in ProductRow /\ product[r].shop >= 0 /\ product[r].warehouse >= 0
  /\ pc[r] \in {"find", "rename"} => b.op = "rename"
  /\ pc[r] = "delete" => b.op = "delete"
  /\ pc[r] \in {"list", "header", "items"} => b.op = "check"
  /\ pc[r] \in {"header", "items"} =>
       \A i \in DOMAIN todo[r] :
         todo[r][i] \in Count /\ todo[r][i].item[1] = r /\ Is(todo[r][i].item[2])
  /\ pc[r] \in {"count", "read", "item", "set", "complete"} => b.op = "count"
  /\ pc[r] \in {"read", "item", "set", "complete"} => b.complete
  /\ pc[r] # "idle" /\ b.op = "count" => Known(b.check)
  /\ pc[r] = "count" => todo[r] # <<>> /\ \A i \in DOMAIN todo[r] : todo[r][i] \in Count
  /\ pc[r] \in {"item", "set"} =>
       todo[r] # <<>> /\ \A i \in DOMAIN todo[r] : todo[r][i] \in Count /\ Is(todo[r][i].item[2])
  /\ pc[r] = "set" => LET p == Head(todo[r]).item[2]
                      IN p \in Locked(r) /\ product[r] = draft[r][p]
  /\ pc[r] \in {"item", "set", "complete"} \/ (pc[r] = "commit" /\ b.op = "count" /\ b.complete) =>
       \A x \in ItemsOf(b.check) : table[x].actual # NoRow
  /\ pc[r] = "items" \/ (pc[r] = "commit" /\ b.op = "check") => Kind(r, "check")
  /\ pc[r] = "commit" => b.op \in Moving \cup {"check", "count"}

\* The row named r is there only when r has inserted it.
Unborn(r) ==
  Is(r) => pc[r] = "ok" \/ (call[r].op = "check" /\ pc[r] \in {"items", "commit", "failed"})

Distinct ==
  \A q, r \in Req : (q # r /\ call[q].op = "create" /\ call[r].op = "create") =>
    call[q].name # call[r].name

Exclusive == \A q, r \in Req : q # r => Locked(q) \cap Locked(r) = {}

Outside == {"idle", "create", "get", "put", "find", "rename", "delete", "list", "header", "items",
            "ok", "failed"}

Quiet(r) == pc[r] \in Outside => draft[r] = NoDraft

\* Version w of a product is version v plus movement m.
Moves(v, m, w) ==
  /\ w.shop = v.shop + m.shop
  /\ w.warehouse = v.warehouse + m.warehouse

Drafted(r, x) ==
  /\ draft[r][x] # NoRow
  /\ x \in Product \cup Supplier => Is(x) /\ table[x].live /\ draft[r][x].live
  /\ x \in Product => draft[r][x].shop >= 0 /\ draft[r][x].warehouse >= 0
  /\ x \in Item =>
       IF Is(x) THEN draft[r][x].actual # NoRow
       ELSE call[r].op = "check" /\ pc[r] = "commit" /\ x[1] = r /\ Is(x[2])
  /\ x \in Id =>
       \/ /\ x = r /\ draft[r][r].kind # "check" /\ call[r].op \in Moving
          /\ pc[r] = "commit" \/ (pc[r] = "debt" /\ call[r].op = "order")
       \/ /\ call[r].op = "payment" /\ x = call[r].order /\ Kind(x, "order")
          /\ draft[r][x].kind = "order"
       \/ /\ call[r].op = "count" /\ call[r].complete /\ pc[r] = "commit" /\ x = call[r].check
          /\ Kind(x, "check") /\ draft[r][x].kind = "check"

Drafts(r) == \A x \in Locked(r) : Drafted(r, x)

Ledger(r) ==
  \A p \in Product :
    IF p \in Locked(r)
      THEN Moves(table[p], moved[r][p], draft[r][p])
      ELSE pc[r] # "ok" => moved[r][p] = [shop |-> 0, warehouse |-> 0]

Items ==
  /\ \A x \in Item : Is(x) => Kind(x[1], "check") /\ Is(x[2]) /\ Known(x[1])
  /\ \A c \in Id : Kind(c, "check") /\ table[c].status = "completed" => Known(c)

Inv ==
  /\ TypeOK
  /\ Exclusive
  /\ Distinct
  /\ NoOversell
  /\ Items
  /\ CompletedIsCounted
  /\ \A r \in Req : Course(r) /\ Unborn(r) /\ Quiet(r) /\ Drafts(r) /\ Ledger(r)

RowsOK ==
  /\ Rows(table) /\ DOMAIN table = Row
  /\ draft = [r \in Req |-> draft[r]]
  /\ \A r \in Req : Rows(draft[r])

-----------------------------------------------------------------------------
(* The versions a row may have, by the kind of its name.                   *)

LEMMA VersionOf ==
  /\ \A p \in Product : p \in Row /\ Version(p) = {NoRow} \cup ProductRow
  /\ \A s \in Supplier : s \in Row /\ Version(s) = {NoRow} \cup SupplierRow
  /\ \A x \in Item : x \in Row /\ Version(x) = {NoRow} \cup ItemRow
  /\ \A x \in Id : x \in Row /\ Version(x) = {NoRow} \cup PaperRow
  /\ Req \subseteq Id
BY NamesAssumption DEF Version, Row, Id

LEMMA VersionKind ==
  ASSUME NEW x \in Row, NEW v \in Version(x), v # NoRow
  PROVE  /\ x \in Product => v \in ProductRow /\ v.kind = "product"
         /\ x \in Supplier => v \in SupplierRow /\ v.kind = "supplier"
         /\ x \in Item => v \in ItemRow /\ v.kind = "item"
         /\ x \in Id => v \in PaperRow
BY VersionOf DEF ProductRow, SupplierRow, ItemRow

LEMMA Names ==
  /\ NoRow \notin ProductRow /\ NoRow \notin SupplierRow /\ NoRow \notin ItemRow
  /\ NoRow \notin PaperRow /\ NoRow \notin Int /\ NoRow \notin Id
  /\ \A x \in Item : x[1] \in Id /\ x[2] \in Product /\ x = <<x[1], x[2]>>
  /\ \A p \in Product : p \notin Supplier /\ p \notin Id /\ p \notin Item
  /\ \A s \in Supplier : s \notin Id /\ s \notin Item
  /\ \A x \in Item : x \notin Id
BY NamesAssumption DEF Row

-----------------------------------------------------------------------------
(* The database operations.                                                *)

LEMMA SeenType ==
  ASSUME RowsOK, NEW r \in Req, NEW x \in Row
  PROVE  Seen(r, x) \in Version(x)
BY DEF RowsOK, Rows, Seen, Locked

(* f, of all requests, becomes g, and only in what it is for r.            *)
Changes(f, g, r) ==
  /\ g = [q \in Req |-> g[q]]
  /\ \A q \in Req \ {r} : g[q] = f[q]

LEMMA ChangesOne ==
  ASSUME NEW f, f = [q \in Req |-> f[q]], NEW r \in Req, NEW v
  PROVE  Changes(f, [f EXCEPT ![r] = v], r) /\ Changes(f, f, r)
BY DEF Changes

(* Only the draft of r changes when r writes, and it gets the new versions. *)
LEMMA WriteEffect ==
  ASSUME RowsOK, NEW r \in Req, NEW new, Write(r, new)
  PROVE  /\ table' = table
         /\ Changes(draft, draft', r)
         /\ Locked(r)' = Locked(r) \cup DOMAIN new
         /\ \A x \in Locked(r)' :
              draft'[r][x] = IF x \in DOMAIN new THEN new[x] ELSE draft[r][x]
         /\ draft'[r] = [x \in Locked(r)' |-> draft'[r][x]]
BY DEF RowsOK, Write, Locked, Changes

LEMMA WriteTypes ==
  ASSUME RowsOK, NEW r \in Req, NEW new, Rows(new), Write(r, new)
  PROVE  Rows(draft'[r])
<1>1. Rows(draft[r])
  BY DEF RowsOK
<1>2. /\ DOMAIN draft'[r] = DOMAIN draft[r] \cup DOMAIN new
      /\ \A x \in DOMAIN draft'[r] :
           draft'[r][x] = IF x \in DOMAIN new THEN new[x] ELSE draft[r][x]
      /\ draft'[r] = [x \in DOMAIN draft'[r] |-> draft'[r][x]]
  BY WriteEffect DEF Locked
<1>3. DOMAIN draft'[r] \subseteq Row
  BY <1>1, <1>2 DEF Rows
<1>4. \A x \in DOMAIN draft'[r] : draft'[r][x] \in Version(x)
  BY <1>1, <1>2 DEF Rows
<1>5. QED
  BY <1>2, <1>3, <1>4 DEF Rows

(* One row is written.                                                     *)
LEMMA WriteOne ==
  ASSUME RowsOK, NEW r \in Req, NEW x \in Row, NEW v \in Version(x),
         Write(r, [y \in {x} |-> v])
  PROVE  /\ table' = table
         /\ Rows(draft'[r])
         /\ Locked(r)' = Locked(r) \cup {x}
         /\ draft'[r][x] = v
         /\ \A y \in Locked(r) \ {x} : draft'[r][y] = draft[r][y]
<1>1. PICK new : new = [y \in {x} |-> v]
  OBVIOUS
<1>2. Write(r, new) /\ DOMAIN new = {x} /\ new[x] = v
  BY <1>1
<1>3. Rows(new)
  BY <1>1 DEF Rows
<1>4. Rows(draft'[r])
  BY <1>2, <1>3, WriteTypes
<1> QED
  BY <1>2, <1>4, WriteEffect

LEMMA RollbackEffect ==
  ASSUME RowsOK, NEW r \in Req, Rollback(r)
  PROVE  /\ table' = table
         /\ Changes(draft, draft', r)
         /\ draft'[r] = NoDraft /\ Rows(draft'[r])
         /\ Locked(r)' = {}
BY DEF RowsOK, Rollback, Locked, NoDraft, Changes, Rows

LEMMA CommitEffect ==
  ASSUME RowsOK, NEW r \in Req, Commit(r)
  PROVE  /\ table' = [x \in Row |-> Seen(r, x)]
         /\ Changes(draft, draft', r)
         /\ draft'[r] = NoDraft /\ Rows(draft'[r])
         /\ Locked(r)' = {}
BY DEF RowsOK, Commit, Locked, NoDraft, Changes, Rows

-----------------------------------------------------------------------------
(* A step of one request changes nothing that belongs to another.          *)

Act(r) == Receive(r) \/ ReceiveCheck(r) \/ Step(r) \/ CheckStep(r) \/ Fail(r)

Own(q) == <<draft[q], product[q], moved[q], pc[q], call[q], todo[q]>>

\* Only what belongs to r changes.
OwnChange(r) ==
  /\ Changes(draft, draft', r) /\ Changes(product, product', r) /\ Changes(moved, moved', r)
  /\ Changes(pc, pc', r) /\ Changes(call, call', r) /\ Changes(todo, todo', r)

Arrays ==
  /\ draft = [q \in Req |-> draft[q]] /\ product = [q \in Req |-> product[q]]
  /\ moved = [q \in Req |-> moved[q]] /\ pc = [q \in Req |-> pc[q]]
  /\ call = [q \in Req |-> call[q]] /\ todo = [q \in Req |-> todo[q]]

LEMMA ArraysType == TypeOK => Arrays /\ RowsOK
BY DEF TypeOK, Arrays, RowsOK

LEMMA RefuseIsLocal ==
  ASSUME Arrays, NEW r \in Req, Refuse(r)
  PROVE  OwnChange(r)
BY DEF Refuse, Rollback, Leave, Goto, Arrays, OwnChange, Changes

LEMMA WriteIsLocal ==
  ASSUME Arrays, NEW r \in Req, NEW new, Write(r, new)
  PROVE  Changes(draft, draft', r)
BY DEF Write, Arrays, Changes

LEMMA UpdateStockIsLocal ==
  ASSUME Arrays, NEW r \in Req, NEW p, NEW n, NEW m, UpdateStock(r, p, n, m)
  PROVE  Changes(draft, draft', r) /\ Changes(moved, moved', r)
<1>1. Changes(draft, draft', r)
  BY WriteIsLocal DEF UpdateStock
<1> QED
  BY <1>1 DEF UpdateStock, Arrays, Changes

LEMMA StepIsLocal ==
  ASSUME Arrays, NEW r \in Req, Act(r)
  PROVE  OwnChange(r)
<1>1. CASE Refuse(r) \/ Fail(r)
  BY <1>1, RefuseIsLocal DEF Fail
<1>2. CASE Receive(r) \/ ReceiveCheck(r)
  BY <1>2 DEF Receive, ReceiveCheck, Goto, Arrays, OwnChange, Changes, db, goods
<1>3. CASE LockProduct(r) \/ LockCounted(r)
  <2>1. ASSUME ~Refuse(r) PROVE Changes(draft, draft', r)
    BY <1>3, <2>1, WriteIsLocal DEF LockProduct, LockCounted, GetByIDForUpdate, LockRow
  <2> QED
    BY <1>1, <1>3, <2>1 DEF LockProduct, LockCounted, GetByIDForUpdate, Goto, Arrays, OwnChange,
                            Changes, locals
<1>4. CASE MoveGoods(r) \/ SetStock(r)
  <2>1. ASSUME ~Refuse(r) PROVE Changes(draft, draft', r) /\ Changes(moved, moved', r)
    BY <1>4, <2>1, UpdateStockIsLocal DEF MoveGoods, SetStock
  <2> QED
    BY <1>1, <1>4, <2>1 DEF MoveGoods, SetStock, Goto, Arrays, OwnChange, Changes
<1>5. CASE InsertTransfer(r) \/ InsertOrder(r) \/ InsertPayment(r) \/ InsertItems(r)
  <2>1. ASSUME ~Refuse(r) PROVE Changes(draft, draft', r)
    BY <1>5, <2>1, WriteIsLocal DEF InsertTransfer, InsertOrder, InsertPayment, InsertItems
  <2> QED
    BY <1>1, <1>5, <2>1 DEF InsertTransfer, InsertOrder, InsertPayment, InsertItems, Goto,
                            Arrays, OwnChange, Changes, locals, goods
<1>6. CASE UpdateDebt(r) \/ PayOrder(r) \/ CountItem(r) \/ CompleteCheck(r)
  <2>1. Changes(draft, draft', r)
    BY <1>6, WriteIsLocal DEF UpdateDebt, PayOrder, CountItem, CompleteCheck, db, Arrays, Changes
  <2> QED
    BY <1>6, <2>1 DEF UpdateDebt, PayOrder, CountItem, CompleteCheck, Goto, Arrays, OwnChange,
                      Changes, locals, goods
<1>7. CASE CommitTx(r)
  BY <1>7 DEF CommitTx, Commit, Leave, Goto, Arrays, OwnChange, Changes
<1>8. CASE CreateRow(r)
  <2>1. Changes(moved, moved', r)
    BY <1>8 DEF CreateRow, Arrays, Changes
  <2> QED
    BY <1>8, <2>1 DEF CreateRow, Autocommit, Leave, Goto, Arrays, OwnChange, Changes
<1>9. CASE PutProduct(r)
  <2>1. ASSUME ~Refuse(r) PROVE Changes(moved, moved', r)
    BY <1>9, <2>1 DEF PutProduct, Arrays, Changes
  <2> QED
    BY <1>1, <1>9, <2>1 DEF PutProduct, Autocommit, Leave, Goto, Arrays, OwnChange, Changes
<1>10. CASE GetProduct(r) \/ GetSupplier(r)
  BY <1>1, <1>10 DEF GetProduct, GetSupplier, Goto, Arrays, OwnChange, Changes, db, goods, locals
<1>11. CASE PutSupplier(r) \/ SoftDelete(r)
  BY <1>1, <1>11 DEF PutSupplier, SoftDelete, Autocommit, Leave, Goto, Arrays, OwnChange, Changes
<1>12. CASE ListProducts(r) \/ InsertHeader(r)
  BY <1>12 DEF ListProducts, InsertHeader, Autocommit, Goto, Arrays, OwnChange, Changes, db, goods,
              locals
<1>13. CASE ReadItems(r)
  BY <1>1, <1>13 DEF ReadItems, Goto, Arrays, OwnChange, Changes, db, goods
<1> QED
  BY <1>1, <1>2, <1>3, <1>4, <1>5, <1>6, <1>7, <1>8, <1>9, <1>10, <1>11, <1>12, <1>13
     DEF Act, Step, CheckStep

-----------------------------------------------------------------------------
(* What a step does to the committed rows.                                 *)

LEMMA BodyType ==
  ASSUME NEW b \in Body
  PROVE  /\ b.op \in {"transfer", "order", "payment", "create", "update", "rename", "delete",
                      "check", "count"}
         /\ b.op = "transfer" => b \in TransferBody
         /\ b.op = "order" => b \in OrderBody
         /\ b.op = "payment" => b \in PaymentBody
         /\ b.op = "create" => b \in CreateBody
         /\ b.op = "update" => b \in UpdateBody
         /\ b.op = "rename" => b \in RenameBody
         /\ b.op = "delete" => b \in DeleteBody
         /\ b.op = "check" => b \in CheckBody
         /\ b.op = "count" => b \in CountBody
BY BodyAssumption DEF TransferBody, OrderBody, PaymentBody, CreateBody, UpdateBody, RenameBody,
                      DeleteBody, CheckBody, CountBody

(* The bodies on the pool name rows that are there.                        *)
LEMMA NamedRows ==
  ASSUME NEW r \in Req, Course(r), pc[r] # "idle"
  PROVE  /\ call[r] \in Body
         /\ call[r].op = "create" =>
              /\ call[r].name \in Product \cup Supplier
              /\ call[r].row \in Version(call[r].name) /\ call[r].row # NoRow
              /\ call[r].row.live
              /\ call[r].name \in Product => call[r].row.shop >= 0 /\ call[r].row.warehouse >= 0
         /\ call[r].op = "update" =>
              /\ call[r].product \in Product /\ Is(call[r].product)
              /\ call[r].shop \in Nat /\ call[r].warehouse \in Nat
         /\ call[r].op = "rename" => call[r].supplier \in Supplier /\ Is(call[r].supplier)
         /\ call[r].op = "delete" => call[r].row \in Product \cup Supplier /\ Is(call[r].row)
         /\ call[r].op \in {"order", "payment"} =>
              call[r].supplier \in Supplier /\ Is(call[r].supplier)
<1>1. call[r] \in Body
  BY DEF Course
<1>2. ASSUME call[r].op = "create"
      PROVE  /\ call[r].name \in Product \cup Supplier
             /\ call[r].row \in Version(call[r].name) /\ call[r].row # NoRow
             /\ call[r].row.live
             /\ call[r].name \in Product => call[r].row.shop >= 0 /\ call[r].row.warehouse >= 0
  <2>1. call[r] \in CreateBody
    BY <1>1, <1>2, BodyType
  <2>2. call[r].name \in Product \cup Supplier /\ call[r].row \in ProductRow \cup SupplierRow
    BY <2>1 DEF CreateBody
  <2>3. IF call[r].name \in Product
          THEN call[r].row.kind = "product" /\ call[r].row.shop >= 0 /\ call[r].row.warehouse >= 0
          ELSE call[r].row.kind = "supplier"
    BY <2>1 DEF CreateBody
  <2>4. IF call[r].name \in Product THEN call[r].row \in ProductRow ELSE call[r].row \in SupplierRow
    BY <2>2, <2>3 DEF ProductRow, SupplierRow
  <2>5. call[r].row.live
    BY <2>1 DEF CreateBody
  <2> QED
    BY <2>2, <2>3, <2>4, <2>5, VersionOf, Names
<1>3. call[r].op = "update" =>
        /\ call[r].product \in Product /\ Is(call[r].product)
        /\ call[r].shop \in Nat /\ call[r].warehouse \in Nat
  BY <1>1, BodyType DEF Course, Named, UpdateBody
<1>4. call[r].op = "rename" => call[r].supplier \in Supplier /\ Is(call[r].supplier)
  BY <1>1, BodyType DEF Course, Named, RenameBody
<1>5. call[r].op = "delete" => call[r].row \in Product \cup Supplier /\ Is(call[r].row)
  BY <1>1, BodyType DEF Course, Named, DeleteBody
<1>6. call[r].op \in {"order", "payment"} => call[r].supplier \in Supplier /\ Is(call[r].supplier)
  BY <1>1, BodyType DEF Course, Named, OrderBody, PaymentBody
<1> QED
  BY <1>1, <1>2, <1>3, <1>4, <1>5, <1>6

LEMMA TableKept ==
  ASSUME NEW r \in Req, Act(r), ~CommitTx(r), ~CreateRow(r), ~PutProduct(r), ~PutSupplier(r),
         ~SoftDelete(r), ~InsertHeader(r)
  PROVE  table' = table
<1> USE DEF db, goods, Refuse, Rollback, Write
<1>1. CASE Receive(r) \/ ReceiveCheck(r) \/ GetProduct(r) \/ GetSupplier(r) \/ ListProducts(r)
           \/ ReadItems(r) \/ Fail(r)
  BY <1>1 DEF Receive, ReceiveCheck, GetProduct, GetSupplier, ListProducts, ReadItems, Fail
<1>2. CASE LockProduct(r) \/ LockCounted(r) \/ MoveGoods(r) \/ SetStock(r)
  BY <1>2 DEF LockProduct, LockCounted, GetByIDForUpdate, LockRow, MoveGoods, SetStock, UpdateStock
<1>3. CASE InsertTransfer(r) \/ InsertOrder(r) \/ InsertPayment(r) \/ InsertItems(r)
  BY <1>3 DEF InsertTransfer, InsertOrder, InsertPayment, InsertItems
<1>4. CASE UpdateDebt(r) \/ PayOrder(r) \/ CountItem(r) \/ CompleteCheck(r)
  BY <1>4 DEF UpdateDebt, PayOrder, CountItem, CompleteCheck
<1> QED
  BY <1>1, <1>2, <1>3, <1>4 DEF Act, Step, CheckStep

\* What may happen to the row x at a step of r.
Filed(r, x) ==
  /\ CommitTx(r) /\ pc[r] = "commit" /\ pc'[r] = "ok" /\ x \in Locked(r)
  /\ table'[x] = draft[r][x]

Natural(x, v) == x \in Product => v.shop >= 0 /\ v.warehouse >= 0

Made(r, x) ==
  /\ CreateRow(r) /\ pc[r] = "create" /\ call[r].op = "create" /\ x = call[r].name
  /\ x \in Product \cup Supplier /\ ~Is(x)
  /\ table'[x] \in Version(x) \ {NoRow} /\ Natural(x, table'[x]) /\ table'[x].live

Headed(r, x) ==
  /\ InsertHeader(r) /\ x = r /\ ~Is(r) /\ pc[r] = "header" /\ pc'[r] = "items"
  /\ call[r].op = "check" /\ call'[r] = call[r]
  /\ table'[x] \in CheckRow /\ table'[x].status = "in_progress"

Put(r, x) ==
  /\ x \in Product \cup Supplier /\ Is(x) /\ table[x].live /\ Free(r, x) /\ ~CommitTx(r)
  /\ table'[x] \in Version(x) \ {NoRow} /\ Natural(x, table'[x])

LEMMA RowChange ==
  ASSUME Inv, NEW r \in Req, Act(r), NEW x \in Row
  PROVE  table'[x] = table[x] \/ Filed(r, x) \/ Made(r, x) \/ Headed(r, x) \/ Put(r, x)
<1>1. RowsOK /\ Course(r) /\ Unborn(r) /\ Arrays
  BY ArraysType DEF Inv
<1>2. CASE CommitTx(r)
  <2>1. table'[x] = Seen(r, x)
    BY <1>1, <1>2, CommitEffect DEF CommitTx
  <2>2. pc[r] = "commit" /\ pc'[r] = "ok"
    BY <1>1, <1>2 DEF CommitTx, Leave, Goto, Arrays
  <2> QED
    BY <1>2, <2>1, <2>2 DEF Seen, Filed
<1> USE DEF RowsOK, Goto, Rows
<1>3. CASE CreateRow(r) /\ table'[x] # table[x]
  <2>1. /\ pc[r] = "create" /\ table' = [table EXCEPT ![call[r].name] = call[r].row]
        /\ call[r].op = "create" /\ ~Is(call[r].name)
    BY <1>1, <1>3 DEF CreateRow, Autocommit, Course
  <2>2. x = call[r].name /\ table'[x] = call[r].row
    BY <1>1, <1>3, <2>1
  <2> QED
    BY <1>1, <1>3, <2>1, <2>2, NamedRows DEF Made, Natural
<1>4. CASE InsertHeader(r) /\ table'[x] # table[x]
  <2>1. /\ pc[r] = "header" /\ pc'[r] = "items" /\ call'[r] = call[r]
        /\ table' = [table EXCEPT ![r] = [kind |-> "check", location |-> call[r].location,
                                          status |-> "in_progress"]]
    BY <1>1, <1>4 DEF InsertHeader, Autocommit, locals, Arrays
  <2>2. x = r /\ table'[x] = [kind |-> "check", location |-> call[r].location,
                              status |-> "in_progress"]
    BY <1>1, <1>4, <2>1
  <2>3. call[r].op = "check" /\ call[r].location \in Place
    BY <1>1, <2>1, BodyType DEF Course, CheckBody
  <2> QED
    BY <1>1, <1>4, <2>1, <2>2, <2>3 DEF Headed, CheckRow, Unborn
<1>5. CASE PutProduct(r) /\ table'[x] # table[x]
  <2>1. ~Refuse(r)
    BY <1>5 DEF Refuse, Rollback
  <2>2. /\ pc[r] = "put" /\ table[call[r].product].live /\ Free(r, call[r].product)
        /\ table' = [table EXCEPT ![call[r].product] = Updated(r)]
    BY <1>5, <2>1 DEF PutProduct, Autocommit, StillLive
  <2>3. /\ call[r].product \in Product /\ Is(call[r].product)
        /\ call[r].shop \in Nat /\ call[r].warehouse \in Nat
        /\ product[r] \in ProductRow /\ product[r].shop >= 0 /\ product[r].warehouse >= 0
    BY <1>1, <2>2, NamedRows DEF Course
  <2>4. /\ Updated(r) \in ProductRow /\ Updated(r).shop >= 0 /\ Updated(r).warehouse >= 0
    <3>1. PICK n, w : /\ n = IF "shop" \in call[r].set THEN call[r].shop ELSE product[r].shop
                      /\ w = IF "warehouse" \in call[r].set
                               THEN call[r].warehouse ELSE product[r].warehouse
      OBVIOUS
    <3>2. n \in Int /\ n >= 0 /\ w \in Int /\ w >= 0
      BY <2>3, <3>1 DEF ProductRow
    <3>3. Updated(r) = [product[r] EXCEPT !.shop = n, !.warehouse = w]
      BY <2>3, <3>1 DEF Updated, ProductRow
    <3> QED
      BY <2>3, <3>2, <3>3 DEF ProductRow
  <2>5. x = call[r].product /\ table'[x] = Updated(r)
    BY <1>1, <1>5, <2>2
  <2>6. ~CommitTx(r)
    BY <2>2 DEF CommitTx
  <2> QED
    BY <2>2, <2>3, <2>4, <2>5, <2>6, VersionOf, Names DEF Put, Natural
<1>6. CASE SoftDelete(r) /\ table'[x] # table[x]
  <2>1. ~Refuse(r)
    BY <1>6 DEF Refuse, Rollback
  <2>2. /\ pc[r] = "delete" /\ table[call[r].row].live /\ Free(r, call[r].row)
        /\ table' = [table EXCEPT ![call[r].row] = [table[call[r].row] EXCEPT !.live = FALSE]]
    BY <1>6, <2>1 DEF SoftDelete, Autocommit, StillLive
  <2>3. x = call[r].row /\ table'[x] = [table[x] EXCEPT !.live = FALSE]
    BY <1>1, <1>6, <2>2
  <2>4. x \in Product \cup Supplier /\ Is(x)
    BY <1>1, <2>2, <2>3, NamedRows DEF Course
  <2>5. ~CommitTx(r)
    BY <2>2 DEF CommitTx
  <2>6. CASE x \in Product
    <3>1. table[x] \in ProductRow /\ table[x].kind = "product"
      BY <1>1, <2>4, <2>6, VersionKind DEF Is
    <3>2. table[x].shop >= 0 /\ table[x].warehouse >= 0
      BY <2>4, <2>6, <3>1 DEF Inv, NoOversell, Kind, Is
    <3>3. table'[x] \in ProductRow /\ table'[x].shop >= 0 /\ table'[x].warehouse >= 0
      BY <2>3, <3>1, <3>2 DEF ProductRow
    <3> QED
      BY <2>2, <2>3, <2>4, <2>5, <2>6, <3>3, VersionOf, Names DEF Put, Natural
  <2>7. CASE x \in Supplier
    <3>1. table[x] \in SupplierRow
      BY <1>1, <2>4, <2>7, VersionKind DEF Is
    <3>2. table'[x] \in SupplierRow
      BY <2>3, <3>1 DEF SupplierRow
    <3> QED
      BY <2>2, <2>3, <2>4, <2>5, <2>7, <3>2, VersionOf, Names DEF Put, Natural
  <2> QED
    BY <2>4, <2>6, <2>7
<1>7. CASE PutSupplier(r)
  BY <1>1, <1>7 DEF PutSupplier, Autocommit, Refuse, Rollback
<1> QED
  BY <1>2, <1>3, <1>4, <1>5, <1>6, <1>7, TableKept

(* A row that is there stays there, of its kind.                           *)
LEMMA RowsStay ==
  ASSUME Inv, NEW r \in Req, Act(r), NEW x \in Row, Is(x)
  PROVE  table'[x] # NoRow /\ table'[x].kind = table[x].kind
<1>1. RowsOK /\ table[x] \in Version(x) /\ table[x] # NoRow
  BY ArraysType DEF Inv, RowsOK, Rows, Is
<1>2. CASE table'[x] = table[x]
  BY <1>1, <1>2
<1>3. CASE Filed(r, x)
  <2>1. x \in Locked(r) /\ table'[x] = draft[r][x]
    BY <1>3 DEF Filed
  <2>2. draft[r][x] # NoRow /\ draft[r][x] \in Version(x)
    BY <1>1, <2>1 DEF Inv, Drafts, Drafted, RowsOK, Rows, Locked
  <2>3. CASE x \notin Id
    BY <1>1, <2>1, <2>2, <2>3, VersionKind DEF Row
  <2>4. CASE x \in Id
    <3>1. ~(x = r /\ call[r].op \in Moving)
      BY <1>3 DEF Inv, Unborn, Filed, Moving, Is
    <3> QED
      BY <2>1, <2>2, <2>4, <3>1 DEF Inv, Drafts, Drafted, Kind
  <2> QED
    BY <2>3, <2>4
<1>4. CASE Put(r, x)
  <2>1. x \notin Id /\ table'[x] \in Version(x) /\ table'[x] # NoRow
    BY <1>4, Names DEF Put
  <2> QED
    BY <1>1, <2>1, VersionKind DEF Row
<1>5. ~Made(r, x) /\ ~Headed(r, x)
  BY DEF Made, Headed, Is
<1> QED
  BY <1>2, <1>3, <1>4, <1>5, RowChange

(* The rows that another transaction has locked stay as they are.          *)
LEMMA LockedStay ==
  ASSUME Inv, NEW r \in Req, Act(r), NEW q \in Req \ {r}, NEW x \in Locked(q)
  PROVE  table'[x] = table[x]
<1>1. x \in Row
  BY ArraysType DEF Inv, RowsOK, Rows, Locked
<1>2. ~Filed(r, x)
  BY DEF Filed, Inv, Exclusive
<1>3. ~Put(r, x)
  BY DEF Put, Free
<1>4. ~Made(r, x)
  BY DEF Made, Inv, Drafts, Drafted, Is
<1>5. ASSUME Headed(r, x) PROVE FALSE
  <2>1. x = r /\ ~Is(x) /\ x \in Id /\ x # q
    BY <1>5, VersionOf DEF Headed
  <2>2. x = call[q].order \/ x = call[q].check
    BY <2>1 DEF Inv, Drafts, Drafted
  <2> QED
    BY <2>1, <2>2 DEF Inv, Drafts, Drafted, Kind, Is
<1> QED
  BY <1>1, <1>2, <1>3, <1>4, <1>5, RowChange

-----------------------------------------------------------------------------
(* What a request knows stays true while the others work.                  *)

Types(r) ==
  /\ Rows(draft[r])
  /\ product[r] \in ProductRow \cup {NoRow}
  /\ moved[r] \in [Product -> Movement]
  /\ pc[r] \in Statement
  /\ call[r] \in Body \cup {NoCall}
  /\ todo[r] \in Seq(Move \cup Count)

Mine(r) == Types(r) /\ Course(r) /\ Unborn(r) /\ Quiet(r) /\ Drafts(r) /\ Ledger(r)

LEMMA InvMine == ASSUME Inv, NEW r \in Req PROVE Mine(r) /\ RowsOK /\ Arrays
BY ArraysType DEF Inv, Mine, Types, TypeOK

(* Only a request that has not answered yet takes a step.                  *)
LEMMA Running == ASSUME NEW r \in Req, Act(r) PROVE pc[r] \notin {"ok", "failed"}
BY DEF Act, Receive, ReceiveCheck, Step, CheckStep, Fail, InFlight, LockProduct, MoveGoods,
       InsertTransfer, InsertOrder, UpdateDebt, PayOrder, InsertPayment, CommitTx, CreateRow,
       GetProduct, PutProduct, GetSupplier, PutSupplier, SoftDelete, ListProducts, InsertHeader,
       InsertItems, CountItem, ReadItems, LockCounted, SetStock, CompleteCheck

LEMMA KnownStays ==
  ASSUME Inv, NEW r \in Req, Act(r), NEW c \in Id, Known(c)
  PROVE  Known(c)' /\ c # r
BY Running, StepIsLocal, InvMine, NamesAssumption DEF Known, Id, OwnChange, Changes

(* The name a request has for a new row is nobody else's.                  *)
LEMMA NameStaysFree ==
  ASSUME Inv, NEW r \in Req, Act(r), NEW q \in Req \ {r}, call[q].op = "create", ~Is(call[q].name),
         call[q].name \in Product \cup Supplier
  PROVE  ~Is(call[q].name)'
<1>1. PICK x \in Product \cup Supplier : x = call[q].name
  OBVIOUS
<1>2. x \in Row /\ x \notin Id /\ ~Is(x)
  BY <1>1, VersionOf, Names
<1>3. ~Filed(r, x)
  BY <1>2 DEF Filed, Inv, Drafts, Drafted
<1>4. ~Made(r, x)
  BY <1>1 DEF Made, Inv, Distinct
<1>5. ~Headed(r, x) /\ ~Put(r, x)
  BY <1>2, VersionOf DEF Headed, Put
<1>6. table'[x] = table[x]
  BY <1>2, <1>3, <1>4, <1>5, RowChange
<1>7. call'[q] = call[q]
  BY StepIsLocal, InvMine DEF OwnChange, Changes
<1> QED
  BY <1>1, <1>2, <1>6, <1>7 DEF Is

LEMMA OthersUnborn ==
  ASSUME Inv, NEW r \in Req, Act(r), NEW q \in Req \ {r}
  PROVE  Unborn(q)'
<1>1. q \in Row /\ q \in Id
  BY VersionOf
<1>2. pc'[q] = pc[q] /\ call'[q] = call[q]
  BY StepIsLocal, InvMine DEF OwnChange, Changes
<1>3. CASE Filed(r, q)
  BY <1>1, <1>2, <1>3 DEF Filed, Inv, Drafts, Drafted, Kind, Is, Unborn
<1>4. ~Made(r, q) /\ ~Put(r, q) /\ ~Headed(r, q)
  BY <1>1, Names DEF Made, Put, Headed
<1>5. CASE table'[q] = table[q]
  BY <1>2, <1>5 DEF Inv, Unborn, Is
<1> QED
  BY <1>1, <1>3, <1>4, <1>5, RowChange

(* The items of a check that is known are all there, and counts stay.      *)
LEMMA ItemsKept ==
  ASSUME Inv, NEW r \in Req, Act(r), NEW x \in Item, x[1] # r, table'[x] # NoRow
  PROVE  /\ Is(x)
         /\ table[x].actual # NoRow => table'[x].actual # NoRow
<1>1. x \in Row /\ x \notin Id /\ x \notin Product \cup Supplier
  BY VersionOf, Names
<1>2. CASE Filed(r, x)
  <2>1. x \in Locked(r) /\ table'[x] = draft[r][x]
    BY <1>2 DEF Filed
  <2>2. IF Is(x) THEN draft[r][x].actual # NoRow ELSE x[1] = r
    BY <2>1 DEF Inv, Drafts, Drafted
  <2> QED
    BY <2>1, <2>2
<1>3. ~Made(r, x) /\ ~Put(r, x) /\ ~Headed(r, x)
  BY <1>1, VersionOf DEF Made, Put, Headed
<1> QED
  BY <1>1, <1>2, <1>3, RowChange DEF Is

LEMMA CountsKept ==
  ASSUME Inv, NEW r \in Req, Act(r), NEW c, c # r, \A x \in ItemsOf(c) : table[x].actual # NoRow
  PROVE  \A x \in ItemsOf(c)' : table'[x].actual # NoRow
BY ItemsKept DEF ItemsOf, Is

LEMMA NamedInRow ==
  ASSUME NEW b \in Body, b.op \notin {"check", "count"}
  PROVE  Named(b) \subseteq Row
<1>1. CASE b.op \in {"transfer", "order", "payment"}
  <2>1. b.moves \in Seq(Move)
    BY <1>1, BodyType DEF TransferBody, OrderBody, PaymentBody
  <2>2. \A i \in DOMAIN b.moves : b.moves[i].product \in Row
    <3>1. \A i \in DOMAIN b.moves : b.moves[i] \in Move
      BY <2>1
    <3> QED
      BY <3>1, VersionOf DEF Move
  <2>3. b.op # "transfer" => b.supplier \in Row
    BY <1>1, BodyType, VersionOf DEF OrderBody, PaymentBody
  <2>4. b.op = "payment" /\ b.order \in Req => b.order \in Row
    BY VersionOf
  <2> QED
    BY <1>1, <2>2, <2>3, <2>4 DEF Named
<1>2. CASE b.op \in {"create", "update", "rename", "delete"}
  BY <1>2, BodyType, VersionOf DEF Named, UpdateBody, RenameBody, DeleteBody
<1> QED
  BY <1>1, <1>2, BodyType

LEMMA OthersCourse ==
  ASSUME Inv, NEW r \in Req, Act(r), NEW q \in Req \ {r}
  PROVE  Course(q)'
<1>1. /\ draft'[q] = draft[q] /\ product'[q] = product[q] /\ pc'[q] = pc[q] /\ call'[q] = call[q]
      /\ todo'[q] = todo[q]
  BY StepIsLocal, InvMine DEF OwnChange, Changes
<1>2. Course(q) /\ Types(q)
  BY InvMine DEF Mine
<1>3. \A x \in Row : Is(x) => Is(x)'
  BY RowsStay DEF Is
<1>4. ASSUME pc[q] # "idle", call[q].op \notin {"check", "count"}
      PROVE \A x \in Named(call[q]) : Is(x)'
  BY <1>2, <1>3, <1>4, NamedInRow DEF Course
<1>5. pc[q] = "create" => ~Is(call[q].name)'
  <2>1. CASE pc[q] = "create"
    BY <1>2, <2>1, NamedRows, NameStaysFree DEF Course
  <2> QED
    BY <2>1
<1>6. pc[q] \in {"header", "items"} => \A i \in DOMAIN todo[q] : table'[todo[q][i].item[2]] # NoRow
  <2>1. ASSUME pc[q] \in {"header", "items"}, NEW i \in DOMAIN todo[q]
        PROVE table'[todo[q][i].item[2]] # NoRow
    <3>1. todo[q][i] \in Count /\ Is(todo[q][i].item[2])
      BY <1>2, <2>1 DEF Course
    <3> QED
      BY <1>3, <3>1, Names, VersionOf DEF Count, Is
  <2> QED
    BY <2>1
<1>7. pc[q] \in {"item", "set"} => \A i \in DOMAIN todo[q] : table'[todo[q][i].item[2]] # NoRow
  <2>1. ASSUME pc[q] \in {"item", "set"}, NEW i \in DOMAIN todo[q]
        PROVE table'[todo[q][i].item[2]] # NoRow
    <3>1. todo[q][i] \in Count /\ Is(todo[q][i].item[2])
      BY <1>2, <2>1 DEF Course
    <3> QED
      BY <1>3, <3>1, Names, VersionOf DEF Count, Is
  <2> QED
    BY <2>1
<1>8. ASSUME pc[q] # "idle", call[q].op = "count" PROVE Known(call[q].check)' /\ call[q].check # r
  <2>1. PICK c : c = call[q].check
    OBVIOUS
  <2>2. c \in Id /\ Known(c)
    BY <1>2, <1>8, <2>1, BodyType DEF Course, CountBody
  <2>3. Known(c)' /\ c # r
    BY <2>2, KnownStays
  <2> QED
    BY <1>1, <2>1, <2>3 DEF Known
<1>9. ASSUME pc[q] \in {"item", "set", "complete"}
             \/ (pc[q] = "commit" /\ call[q].op = "count" /\ call[q].complete)
      PROVE \A x \in ItemsOf(call[q].check)' : table'[x].actual # NoRow
  <2>1. pc[q] # "idle" /\ call[q].op = "count"
    BY <1>2, <1>9 DEF Course
  <2>2. PICK c : c = call[q].check
    OBVIOUS
  <2>3. \A x \in ItemsOf(c) : table[x].actual # NoRow
    BY <1>2, <1>9, <2>2 DEF Course
  <2>4. \A x \in ItemsOf(c)' : table'[x].actual # NoRow
    BY <1>8, <2>1, <2>2, <2>3, CountsKept
  <2> QED
    BY <1>1, <2>2, <2>4 DEF ItemsOf
<1>10. Kind(q, "check") => table'[q] # NoRow /\ table'[q].kind = "check"
  BY RowsStay, VersionOf DEF Kind, Is
<1>11. Locked(q)' = Locked(q)
  BY <1>1 DEF Locked
<1> QED
  BY <1>1, <1>2, <1>4, <1>5, <1>6, <1>7, <1>8, <1>9, <1>10, <1>11 DEF Course, Is, Kind

LEMMA OthersDrafts ==
  ASSUME Inv, NEW r \in Req, Act(r), NEW q \in Req \ {r}
  PROVE  Quiet(q)' /\ Drafts(q)' /\ Ledger(q)'
<1>1. draft'[q] = draft[q] /\ pc'[q] = pc[q] /\ call'[q] = call[q] /\ moved'[q] = moved[q]
  BY StepIsLocal, InvMine DEF OwnChange, Changes
<1>2. Quiet(q) /\ Drafts(q) /\ Ledger(q)
  BY InvMine DEF Mine
<1>3. Locked(q)' = Locked(q)
  BY <1>1 DEF Locked
<1>4. \A x \in Locked(q) : table'[x] = table[x]
  BY LockedStay
<1>5. \A x \in Item : Is(x[2]) => Is(x[2])'
  BY RowsStay, Names, VersionOf DEF Is
<1>6. Quiet(q)' /\ Ledger(q)'
  BY <1>1, <1>2, <1>3, <1>4 DEF Quiet, Ledger
<1>7. Drafts(q)'
  BY <1>1, <1>2, <1>3, <1>4, <1>5 DEF Drafts, Drafted, Is, Kind
<1> QED
  BY <1>6, <1>7

LEMMA OthersMine ==
  ASSUME Inv, NEW r \in Req, Act(r), NEW q \in Req \ {r}
  PROVE  Mine(q)'
<1>1. Types(q)'
  BY StepIsLocal, InvMine DEF OwnChange, Changes, Mine, Types
<1> QED
  BY <1>1, OthersCourse, OthersUnborn, OthersDrafts DEF Mine

-----------------------------------------------------------------------------
(* What a request knows after a step of its own: the refusals and the      *)
(* requests that come in.                                                  *)

LEMMA TailOf ==
  ASSUME NEW S, NEW s \in Seq(S), s # <<>>
  PROVE  /\ 1 \in DOMAIN s /\ Head(s) = s[1] /\ Tail(s) \in Seq(S)
         /\ \A i \in DOMAIN Tail(s) : i + 1 \in DOMAIN s /\ Tail(s)[i] = s[i + 1]
         /\ Tail(s) = <<>> <=> Len(s) = 1
<1>1. Len(s) \in Nat /\ Len(s) > 0 /\ DOMAIN s = 1..Len(s)
  OBVIOUS
<1>2. Tail(s) \in Seq(S) /\ Len(Tail(s)) = Len(s) - 1
  OBVIOUS
<1>3. \A i \in 1..(Len(s) - 1) : Tail(s)[i] = s[i + 1]
  BY <1>1
<1>4. DOMAIN Tail(s) = 1..(Len(s) - 1)
  BY <1>2
<1>5. Tail(s) = <<>> <=> Len(s) = 1
  BY <1>1, <1>2
<1> QED
  BY <1>1, <1>2, <1>3, <1>4, <1>5

(* The part of Course that does not depend on the statement.               *)
Grounded(r) ==
  /\ call[r] \in Body
  /\ call[r].op \notin {"check", "count"} => \A x \in Named(call[r]) : Is(x)
  /\ call[r].op = "count" => Known(call[r].check)

LEMMA OwnGrounded ==
  ASSUME Inv, NEW r \in Req, Act(r), pc[r] # "idle", call'[r] = call[r]
  PROVE  Grounded(r) /\ Grounded(r)'
<1>1. Course(r) /\ call[r] \in Body
  BY InvMine DEF Mine, Course
<1>2. \A x \in Row : Is(x) => Is(x)'
  BY RowsStay DEF Is
<1>3. ASSUME call[r].op \notin {"check", "count"} PROVE \A x \in Named(call[r]) : Is(x) /\ Is(x)'
  BY <1>1, <1>2, <1>3, NamedInRow DEF Course
<1>4. ASSUME call[r].op = "count" PROVE Known(call[r].check) /\ Known(call[r].check)'
  <2>1. PICK c : c = call[r].check
    OBVIOUS
  <2>2. c \in Id /\ Known(c)
    BY <1>1, <1>4, <2>1, BodyType DEF Course, CountBody
  <2>3. Known(c)'
    BY <2>2, KnownStays
  <2> QED
    BY <2>1, <2>2, <2>3 DEF Known
<1> QED
  BY <1>1, <1>3, <1>4 DEF Grounded

LEMMA OwnUnborn ==
  ASSUME Inv, NEW r \in Req, table'[r] = table[r], call'[r] = call[r],
         pc[r] \notin {"ok", "failed", "items", "commit"}
  PROVE  Unborn(r)' /\ ~Is(r)
BY InvMine DEF Mine, Unborn, Is

LEMMA RefuseMine ==
  ASSUME Inv, NEW r \in Req, Act(r), Refuse(r), pc[r] # "idle"
  PROVE  Mine(r)'
<1>1. Mine(r) /\ RowsOK /\ Arrays
  BY InvMine
<1>2. /\ pc'[r] = "failed" /\ call'[r] = call[r] /\ product'[r] = NoRow /\ todo'[r] = <<>>
      /\ moved'[r] = Still /\ table' = table
  BY <1>1 DEF Refuse, Rollback, Leave, Goto, Arrays
<1>3. draft'[r] = NoDraft /\ Rows(draft'[r]) /\ Locked(r)' = {}
  BY <1>1, RollbackEffect DEF Refuse
<1>4. Types(r)'
  <2>1. Still \in [Product -> Movement]
    BY DEF Still, Movement
  <2> QED
    BY <1>1, <1>2, <1>3, <2>1 DEF Types, Mine, Statement
<1>5. Course(r)'
  BY <1>2, OwnGrounded DEF Course, Grounded, Outside
<1>6. Unborn(r)'
  BY <1>1, <1>2, Running DEF Mine, Unborn, Is
<1>7. Quiet(r)' /\ Drafts(r)' /\ Ledger(r)'
  BY <1>2, <1>3 DEF Quiet, Drafts, Ledger, Still
<1> QED
  BY <1>4, <1>5, <1>6, <1>7 DEF Mine

(* Nothing is locked, nothing has been moved.                              *)
LEMMA IdleRest ==
  ASSUME Inv, NEW r \in Req, pc[r] \in Outside, table' = table, draft'[r] = draft[r],
         moved'[r] = moved[r], pc[r] # "ok"
  PROVE  Quiet(r)' /\ Drafts(r)' /\ Ledger(r)'
<1>1. Locked(r) = {} /\ Locked(r)' = {} /\ draft[r] = NoDraft
  BY InvMine DEF Mine, Quiet, Locked, NoDraft
<1> QED
  BY <1>1, InvMine DEF Mine, Quiet, Drafts, Ledger

LEMMA ReceiveMine ==
  ASSUME Inv, NEW r \in Req, Receive(r)
  PROVE  Mine(r)'
<1>1. Mine(r) /\ RowsOK /\ Arrays
  BY InvMine
<1>2. PICK b \in Body \ (CheckBody \cup CountBody) :
        /\ Nameable(b)
        /\ call' = [call EXCEPT ![r] = b]
        /\ todo' = [todo EXCEPT ![r] =
                      IF b.op \in {"transfer", "order", "payment"} THEN b.moves ELSE <<>>]
        /\ Goto(r, CASE b.op = "create" -> "create"
                     [] b.op = "update" -> "get"
                     [] b.op = "rename" -> "find"
                     [] b.op = "delete" -> "delete"
                     [] b.op = "payment" /\ b.moves = <<>> -> "debt"
                     [] OTHER -> "lock")
  BY DEF Receive
<1>3. /\ pc[r] = "idle" /\ table' = table /\ draft' = draft /\ product' = product
      /\ moved' = moved
  BY DEF Receive, db, goods
<1>4. /\ call'[r] = b /\ b.op \in {"transfer", "order", "payment", "create", "update", "rename", "delete"}
      /\ todo'[r] = IF b.op \in {"transfer", "order", "payment"} THEN b.moves ELSE <<>>
  BY <1>1, <1>2, BodyType DEF Arrays
<1>5. pc'[r] = CASE b.op = "create" -> "create"
                 [] b.op = "update" -> "get"
                 [] b.op = "rename" -> "find"
                 [] b.op = "delete" -> "delete"
                 [] b.op = "payment" /\ b.moves = <<>> -> "debt"
                 [] OTHER -> "lock"
  BY <1>1, <1>2 DEF Goto, Arrays
<1>6. b.op \in Moving => b.moves \in Seq(Move) /\ (b.op # "payment" => b.moves # <<>>)
  BY <1>4, BodyType DEF Moving, TransferBody, OrderBody, PaymentBody
<1>7. todo'[r] \in Seq(Move \cup Count)
  BY <1>4, <1>6 DEF Moving
<1>8. Types(r)'
  BY <1>1, <1>3, <1>4, <1>5, <1>7 DEF Types, Mine, Statement
<1>9. (\A x \in Named(b) : Is(x)') /\ (b.op = "create" => ~Is(b.name)')
  BY <1>2, <1>3 DEF Nameable, Is
<1>10. pc'[r] = "lock" =>
         /\ b.op \in Moving /\ todo'[r] # <<>>
         /\ \A i \in DOMAIN todo'[r] : todo'[r][i] \in Move /\ todo'[r][i].product \in Named(b)
  <2>1. ASSUME pc'[r] = "lock" PROVE b.op \in Moving /\ b.moves # <<>> /\ todo'[r] = b.moves
    BY <1>4, <1>5, <1>6, <2>1 DEF Moving
  <2>2. ASSUME b.op \in Moving
        PROVE  \A i \in DOMAIN b.moves : b.moves[i] \in Move /\ b.moves[i].product \in Named(b)
    BY <1>4, <1>6, <2>2 DEF Named, Moving
  <2> QED
    BY <2>1, <2>2
<1>11. /\ pc'[r] \in {"create", "get", "find", "delete", "debt", "lock"}
       /\ pc'[r] = "create" => b.op = "create"
       /\ pc'[r] = "get" => b.op = "update"
       /\ pc'[r] = "find" => b.op = "rename"
       /\ pc'[r] = "delete" => b.op = "delete"
       /\ pc'[r] = "debt" => b.op = "payment"
  BY <1>4, <1>5
<1>12. Course(r)'
  BY <1>4, <1>9, <1>10, <1>11 DEF Course, Is
<1>13. Unborn(r)'
  BY <1>1, <1>3 DEF Mine, Course, Unborn, Is, NoCall
<1>14. Quiet(r)' /\ Drafts(r)' /\ Ledger(r)'
  BY <1>3, IdleRest DEF Outside
<1> QED
  BY <1>8, <1>12, <1>13, <1>14 DEF Mine

LEMMA ReceiveCheckMine ==
  ASSUME Inv, NEW r \in Req, ReceiveCheck(r)
  PROVE  Mine(r)'
<1>1. Mine(r) /\ RowsOK /\ Arrays
  BY InvMine
<1>2. PICK b \in Body \cap (CheckBody \cup CountBody) :
        /\ NameableCheck(b)
        /\ call' = [call EXCEPT ![r] = b]
        /\ todo' = [todo EXCEPT ![r] = IF b.op = "count" THEN b.counts ELSE <<>>]
        /\ Goto(r, IF b.op = "count" THEN AfterCounts(b, b.counts) ELSE "list")
  BY DEF ReceiveCheck
<1>3. /\ pc[r] = "idle" /\ table' = table /\ draft' = draft /\ product' = product
      /\ moved' = moved
  BY DEF ReceiveCheck, db, goods
<1>4. /\ call'[r] = b
      /\ b.op = "check" \/ (b.op = "count" /\ b \in CountBody)
      /\ todo'[r] = IF b.op = "count" THEN b.counts ELSE <<>>
  BY <1>1, <1>2 DEF Arrays, CheckBody, CountBody
<1>5. pc'[r] = IF b.op = "count" THEN AfterCounts(b, b.counts) ELSE "list"
  BY <1>1, <1>2 DEF Goto, Arrays
<1>6. b.op = "count" =>
        /\ b.counts \in Seq(Count) /\ b.check \in Id /\ b.complete \in BOOLEAN
        /\ pc'[r] \in {"count", "read", "commit"}
        /\ pc'[r] = "count" => b.counts # <<>>
        /\ pc'[r] = "read" => b.complete
        /\ pc'[r] = "commit" => ~b.complete
  BY <1>4, <1>5 DEF CountBody, AfterCounts
<1>7. todo'[r] \in Seq(Move \cup Count)
  BY <1>4, <1>6
<1>8. Types(r)'
  BY <1>1, <1>3, <1>4, <1>5, <1>6, <1>7 DEF Types, Mine, Statement
<1>9. b.op = "count" => Known(b.check)'
  <2>1. ASSUME b.op = "count" PROVE Known(b.check)'
    <3>1. Known(b.check) /\ b.check # r
      BY <1>2, <1>3, <2>1, NamesAssumption DEF NameableCheck, Known
    <3>2. pc'[b.check] = pc[b.check] \/ b.check \in Past
      BY <1>1, <1>2, <1>6, <2>1, <3>1 DEF Goto, Arrays, Id
    <3> QED
      BY <3>1, <3>2 DEF Known
  <2> QED
    BY <2>1
<1>10. Course(r)'
  <2>1. CASE b.op = "check"
    BY <1>3, <1>4, <1>5, <2>1 DEF Course
  <2>2. CASE b.op = "count"
    <3>1. \A i \in DOMAIN b.counts : b.counts[i] \in Count
      BY <1>6, <2>2
    <3> QED
      BY <1>3, <1>4, <1>6, <1>9, <2>2, <3>1 DEF Course
  <2> QED
    BY <1>4, <2>1, <2>2
<1>11. Unborn(r)'
  BY <1>1, <1>3 DEF Mine, Course, Unborn, Is, NoCall
<1>12. Quiet(r)' /\ Drafts(r)' /\ Ledger(r)'
  BY <1>3, IdleRest DEF Outside
<1> QED
  BY <1>8, <1>10, <1>11, <1>12 DEF Mine

-----------------------------------------------------------------------------
(* The steps inside a transaction.                                         *)

(* A draft stays what it was while its request goes on.                    *)
LEMMA DraftKept ==
  ASSUME Inv, NEW r \in Req, table' = table, call'[r] = call[r], pc[r] # "commit",
         pc[r] = "debt" /\ call[r].op = "order" => pc'[r] = "commit",
         NEW x, Drafted(r, x), draft'[r][x] = draft[r][x]
  PROVE  Drafted(r, x)'
BY DEF Drafted, Is, Kind

(* One row has a new draft, and what is counted as moved fits it.          *)
LEMMA WriteKeeps ==
  ASSUME Inv, NEW r \in Req, NEW x \in Row, NEW v \in Version(x),
         Write(r, [y \in {x} |-> v]), call'[r] = call[r],
         pc[r] # "commit", pc'[r] \notin Outside,
         pc[r] = "debt" /\ call[r].op = "order" => pc'[r] = "commit",
         Drafted(r, x)',
         pc[r] # "ok",
         \A p \in Product \ {x} : moved'[r][p] = moved[r][p],
         x \in Product => Moves(table[x], moved'[r][x], v)
  PROVE  Rows(draft'[r]) /\ Quiet(r)' /\ Drafts(r)' /\ Ledger(r)'
<1>1. /\ table' = table
      /\ Rows(draft'[r])
      /\ Locked(r)' = Locked(r) \cup {x}
      /\ draft'[r][x] = v
      /\ \A y \in Locked(r) \ {x} : draft'[r][y] = draft[r][y]
  BY InvMine, WriteOne
<1>2. ASSUME NEW y \in Locked(r)' PROVE Drafted(r, y)'
  <2>1. CASE y = x
    BY <2>1
  <2>2. CASE y # x
    <3>1. Drafted(r, y) /\ draft'[r][y] = draft[r][y]
      BY <1>1, <1>2, <2>2, InvMine DEF Mine, Drafts
    <3> QED
      BY <1>1, <3>1, DraftKept
  <2> QED
    BY <2>1, <2>2
<1>3. Drafts(r)'
  BY <1>2 DEF Drafts
<1>4. Ledger(r)
  BY InvMine DEF Mine
<1>5. Ledger(r)'
  BY <1>1, <1>4 DEF Ledger
<1> QED
  BY <1>1, <1>3, <1>5 DEF Quiet

LEMMA NothingWritten ==
  ASSUME Inv, NEW r \in Req, draft' = draft, table' = table, moved'[r] = moved[r],
         call'[r] = call[r], pc[r] # "commit", pc'[r] \notin Outside,
         pc[r] = "debt" /\ call[r].op = "order" => pc'[r] = "commit",
         pc[r] # "ok"
  PROVE  Rows(draft'[r]) /\ Quiet(r)' /\ Drafts(r)' /\ Ledger(r)'
<1>1. Mine(r)
  BY InvMine
<1>2. Locked(r)' = Locked(r)
  BY DEF Locked
<1>3. Drafts(r)'
  BY <1>1, <1>2, DraftKept DEF Mine, Drafts
<1> QED
  BY <1>1, <1>2, <1>3 DEF Mine, Types, Quiet, Ledger

(* What a statement sees of a row that is there.                           *)
LEMMA SeenRow ==
  ASSUME Inv, NEW r \in Req, NEW x \in Row, Is(x)
  PROVE  /\ Seen(r, x) \in Version(x) /\ Seen(r, x) # NoRow
         /\ x \in Product => /\ Seen(r, x) \in ProductRow
                             /\ Seen(r, x).shop >= 0 /\ Seen(r, x).warehouse >= 0
         /\ x \in Supplier => Seen(r, x) \in SupplierRow
         /\ x \in Product \cup Supplier /\ Seen(r, x).live => table[x].live
<1>1. Mine(r) /\ RowsOK
  BY InvMine
<1>2. Seen(r, x) \in Version(x) /\ Seen(r, x) # NoRow
  BY <1>1, SeenType DEF Mine, Drafts, Drafted, Seen, Is
<1>3. ASSUME x \in Product PROVE Seen(r, x).shop >= 0 /\ Seen(r, x).warehouse >= 0
  <2>1. Kind(x, "product")
    BY <1>1, <1>3, VersionKind DEF Kind, Is, RowsOK, Rows
  <2> QED
    BY <1>1, <1>3, <2>1 DEF Mine, Drafts, Drafted, Seen, Inv, NoOversell
<1>4. x \in Product \cup Supplier /\ Seen(r, x).live => table[x].live
  BY <1>1 DEF Mine, Drafts, Drafted, Seen
<1> QED
  BY <1>2, <1>3, <1>4, VersionKind

(* The row lock and the read of a product.                                 *)
LEMMA LockOne ==
  ASSUME Inv, NEW r \in Req, NEW p \in Product, Is(p), GetByIDForUpdate(r, p),
         call'[r] = call[r], moved'[r] = moved[r], pc[r] \notin {"ok", "commit", "debt"},
         pc'[r] \notin Outside
  PROVE  /\ Rows(draft'[r]) /\ Quiet(r)' /\ Drafts(r)' /\ Ledger(r)'
         /\ p \in Locked(r)' /\ product'[r] = draft'[r][p]
         /\ product'[r] \in ProductRow /\ table' = table
<1>1. Mine(r) /\ RowsOK /\ Arrays /\ p \in Row
  BY InvMine, VersionOf
<1>2. PICK v : v = Seen(r, p)
  OBVIOUS
<1>3. v \in Version(p) /\ v \in ProductRow /\ v # NoRow /\ v.shop >= 0 /\ v.warehouse >= 0
  BY <1>1, <1>2, SeenRow
<1>4. v.live /\ table[p].live
  BY <1>1, <1>2, SeenRow DEF GetByIDForUpdate
<1>5. Write(r, [y \in {p} |-> v])
  <2>1. [y \in {p} |-> v] = [y \in {p} |-> Seen(r, y)]
    BY <1>2
  <2> QED
    BY <2>1 DEF GetByIDForUpdate, LockRow
<1>6. /\ table' = table
      /\ Locked(r)' = Locked(r) \cup {p}
      /\ draft'[r][p] = v
  <2>1. RowsOK /\ v \in Version(p) /\ p \in Row
    BY <1>1, <1>3
  <2> QED
    BY <1>5, <2>1, WriteOne, ZenonT(60)
<1>7. product'[r] = v
  BY <1>1, <1>2 DEF GetByIDForUpdate, Arrays
<1>8. Drafted(r, p)'
  BY <1>3, <1>4, <1>6, Names DEF Drafted, Is
<1>9. Moves(table[p], moved'[r][p], v)
  <2>1. CASE p \in Locked(r)
    BY <1>1, <1>2, <2>1 DEF Mine, Ledger, Seen
  <2>2. CASE p \notin Locked(r)
    <3>1. v = table[p] /\ moved[r][p] = [shop |-> 0, warehouse |-> 0]
      BY <1>1, <1>2, <2>2 DEF Mine, Ledger, Seen
    <3> QED
      BY <1>3, <3>1 DEF Moves, ProductRow
  <2> QED
    BY <2>1, <2>2
<1> QED
  BY <1>1, <1>3, <1>5, <1>6, <1>7, <1>8, <1>9, WriteKeeps

(* The write of new quantities of a product, from the row that was read    *)
(* under the lock.                                                         *)
LEMMA StockOne ==
  ASSUME Inv, NEW r \in Req, NEW p \in Locked(r), p \in Product, product[r] = draft[r][p],
         NEW n \in Nat, NEW w \in Nat, UpdateStock(r, p, n, w),
         call'[r] = call[r], pc[r] \notin {"ok", "commit", "debt"}, pc'[r] \notin Outside
  PROVE  /\ Rows(draft'[r]) /\ Quiet(r)' /\ Drafts(r)' /\ Ledger(r)'
         /\ moved'[r] \in [Product -> Movement] /\ table' = table
<1>1. Mine(r) /\ RowsOK /\ Arrays /\ p \in Row
  BY InvMine, VersionOf
<1>2. Drafted(r, p) /\ Seen(r, p) = draft[r][p] /\ draft[r][p] \in ProductRow
  BY <1>1, SeenType, VersionOf DEF Mine, Drafts, Drafted, Seen
<1>3. PICK v : v = [draft[r][p] EXCEPT !.shop = n, !.warehouse = w]
  OBVIOUS
<1>4. v \in ProductRow /\ v.shop = n /\ v.warehouse = w /\ v.live = draft[r][p].live
  <2>1. PICK d \in ProductRow : d = draft[r][p]
    BY <1>2
  <2>2. v = [kind |-> d.kind, shop |-> n, warehouse |-> w, live |-> d.live]
    BY <1>3, <2>1 DEF ProductRow
  <2>3. d.kind = "product" /\ d.live \in BOOLEAN /\ n \in Int /\ w \in Int
    BY <2>1 DEF ProductRow
  <2>4. v \in ProductRow
    BY <2>2, <2>3 DEF ProductRow
  <2> QED
    BY <2>1, <2>2, <2>4
<1>5. Write(r, [y \in {p} |-> v])
  BY <1>2, <1>3 DEF UpdateStock
<1>6. v \in Version(p) /\ v # NoRow
  BY <1>1, <1>4, VersionOf, Names
<1>7. /\ table' = table
      /\ Locked(r)' = Locked(r) \cup {p}
      /\ draft'[r][p] = v
  <2>1. RowsOK /\ v \in Version(p) /\ p \in Row
    BY <1>1, <1>6
  <2> QED
    BY <1>5, <2>1, WriteOne, ZenonT(60)
<1>8. Drafted(r, p)'
  BY <1>2, <1>4, <1>6, <1>7, Names DEF Drafted, Is
<1>9. moved[r] \in [Product -> Movement] /\ product[r] \in ProductRow
  BY <1>1, <1>2 DEF Mine, Types
<1>10. PICK m : m = [shop |-> moved[r][p].shop + n - product[r].shop,
                     warehouse |-> moved[r][p].warehouse + w - product[r].warehouse]
  OBVIOUS
<1>11. moved' = [moved EXCEPT ![r][p] = m]
  BY <1>1, <1>10 DEF UpdateStock
<1>12. moved'[r] = [moved[r] EXCEPT ![p] = m]
  BY <1>1, <1>11 DEF Arrays
<1>13. m \in Movement /\ moved[r][p] \in Movement
  BY <1>9, <1>10 DEF Movement, ProductRow
<1>14. moved'[r] \in [Product -> Movement] /\ moved'[r][p] = m
       /\ \A y \in Product \ {p} : moved'[r][y] = moved[r][y]
  BY <1>9, <1>12, <1>13
<1>15. Moves(table[p], m, v)
  <2>1. Moves(table[p], moved[r][p], draft[r][p])
    BY <1>1 DEF Mine, Ledger
  <2>2. table[p] \in ProductRow
    BY <1>1, <1>2, VersionKind DEF RowsOK, Rows, Drafted, Is
  <2> QED
    BY <1>4, <1>9, <1>10, <1>13, <2>1, <2>2 DEF Moves, Movement, ProductRow
<1> QED
  BY <1>1, <1>5, <1>6, <1>7, <1>8, <1>14, <1>15, WriteKeeps

LEMMA LockProductMine ==
  ASSUME Inv, NEW r \in Req, LockProduct(r), ~Refuse(r)
  PROVE  Mine(r)'
<1>1. Mine(r) /\ RowsOK /\ Arrays /\ Act(r)
  BY InvMine DEF Act, Step
<1>2. PICK p : p = Head(todo[r]).product
  OBVIOUS
<1>3. /\ pc[r] = "lock" /\ GetByIDForUpdate(r, p) /\ moved' = moved /\ call' = call /\ todo' = todo
      /\ pc'[r] = "move"
  BY <1>1, <1>2 DEF LockProduct, Goto, locals, Arrays
<1>4. /\ call[r].op \in Moving /\ todo[r] # <<>>
      /\ \A i \in DOMAIN todo[r] : todo[r][i] \in Move /\ todo[r][i].product \in Named(call[r])
  BY <1>1, <1>3 DEF Mine, Course
<1>5. Grounded(r) /\ Grounded(r)'
  BY <1>1, <1>3, OwnGrounded
<1>6. 1 \in DOMAIN todo[r] /\ Head(todo[r]) = todo[r][1]
  BY <1>1, <1>4, TailOf DEF Mine, Types
<1>7. p \in Product /\ Is(p)
  BY <1>2, <1>4, <1>5, <1>6 DEF Move, Grounded, Moving
<1>8. /\ Rows(draft'[r]) /\ Quiet(r)' /\ Drafts(r)' /\ Ledger(r)'
      /\ p \in Locked(r)' /\ product'[r] = draft'[r][p]
      /\ product'[r] \in ProductRow /\ table' = table
  BY <1>3, <1>7, LockOne DEF Outside
<1>9. Types(r)'
  BY <1>1, <1>3, <1>8 DEF Mine, Types, Statement
<1>10. Course(r)'
  BY <1>2, <1>3, <1>4, <1>5, <1>8 DEF Course, Grounded
<1>11. Unborn(r)'
  BY <1>3, <1>8, OwnUnborn
<1> QED
  BY <1>8, <1>9, <1>10, <1>11 DEF Mine

LEMMA MoveGoodsMine ==
  ASSUME Inv, NEW r \in Req, MoveGoods(r), ~Refuse(r)
  PROVE  Mine(r)'
<1>1. Mine(r) /\ RowsOK /\ Arrays /\ Act(r)
  BY InvMine DEF Act, Step
<1>2. PICK m : m = Head(todo[r])
  OBVIOUS
<1>3. PICK rest : rest = Tail(todo[r])
  OBVIOUS
<1>4. /\ pc[r] = "move" /\ Enough(r, m)
      /\ UpdateStock(r, m.product, product[r].shop + m.shop, product[r].warehouse + m.warehouse)
      /\ call' = call /\ product' = product
      /\ todo'[r] = rest /\ pc'[r] = AfterMoves(r, rest)
  BY <1>1, <1>2, <1>3 DEF MoveGoods, Goto, Arrays
<1>5. /\ call[r].op \in Moving /\ todo[r] # <<>>
      /\ \A i \in DOMAIN todo[r] : todo[r][i] \in Move /\ todo[r][i].product \in Named(call[r])
      /\ m.product \in Locked(r) /\ product[r] = draft[r][m.product]
  BY <1>1, <1>2, <1>4 DEF Mine, Course
<1>6. Grounded(r) /\ Grounded(r)'
  BY <1>1, <1>4, OwnGrounded
<1>7. /\ 1 \in DOMAIN todo[r] /\ m = todo[r][1] /\ rest \in Seq(Move \cup Count)
      /\ \A i \in DOMAIN rest : i + 1 \in DOMAIN todo[r] /\ rest[i] = todo[r][i + 1]
  BY <1>1, <1>2, <1>3, <1>5, TailOf DEF Mine, Types
<1>8. m \in Move /\ m.product \in Product /\ m.shop \in Int /\ m.warehouse \in Int
  BY <1>5, <1>7 DEF Move
<1>9. draft[r][m.product] \in ProductRow
  BY <1>1, <1>5, <1>8, SeenType, VersionOf DEF Mine, Drafts, Drafted, Seen
<1>10. PICK n \in Nat, w \in Nat :
         n = product[r].shop + m.shop /\ w = product[r].warehouse + m.warehouse
  BY <1>4, <1>5, <1>8, <1>9 DEF Enough, ProductRow
<1>11. UpdateStock(r, m.product, n, w)
  BY <1>4, <1>10
<1>12. pc'[r] \in {"lock", "debt", "insert"}
       /\ (pc'[r] = "lock" => rest # <<>>)
       /\ (pc'[r] = "debt" => call[r].op = "payment")
       /\ (pc'[r] = "insert" => call[r].op \in {"transfer", "order"})
  BY <1>4, <1>5 DEF AfterMoves, Moving
<1>13. /\ Rows(draft'[r]) /\ Quiet(r)' /\ Drafts(r)' /\ Ledger(r)'
       /\ moved'[r] \in [Product -> Movement] /\ table' = table
  BY <1>4, <1>5, <1>8, <1>11, <1>12, StockOne DEF Outside
<1>14. Types(r)'
  BY <1>1, <1>4, <1>7, <1>12, <1>13 DEF Mine, Types, Statement
<1>15. \A i \in DOMAIN rest : rest[i] \in Move /\ rest[i].product \in Named(call[r])
  BY <1>5, <1>7
<1>16. Course(r)'
  BY <1>4, <1>5, <1>6, <1>12, <1>13, <1>15 DEF Course, Grounded, Moving
<1>17. Unborn(r)'
  BY <1>4, <1>13, OwnUnborn
<1> QED
  BY <1>13, <1>14, <1>16, <1>17 DEF Mine

-----------------------------------------------------------------------------
(* The papers and the money.                                               *)

(* A request writes its own row.                                           *)
LEMMA OwnPaper ==
  ASSUME Inv, NEW r \in Req, NEW v \in PaperRow, Write(r, [y \in {r} |-> v]), Act(r),
         UNCHANGED <<goods, locals>>, call[r].op \in Moving, v.kind # "check",
         pc[r] \in {"insert", "pay"},
         pc'[r] = "commit" \/ (pc'[r] = "debt" /\ call[r].op = "order")
  PROVE  Mine(r)'
<1>1. Mine(r) /\ RowsOK /\ r \in Row /\ v \in Version(r) /\ v # NoRow
  BY InvMine, VersionOf, Names
<1>2. product' = product /\ moved' = moved /\ call' = call /\ todo' = todo
  BY DEF goods, locals
<1>3. /\ table' = table
      /\ Locked(r)' = Locked(r) \cup {r}
      /\ draft'[r][r] = v
  BY <1>1, WriteOne, ZenonT(60)
<1>4. r \notin Product /\ r \notin Supplier /\ r \notin Item
  BY VersionOf, Names
<1>5. Drafted(r, r)'
  BY <1>1, <1>2, <1>3, <1>4 DEF Drafted
<1>6. Rows(draft'[r]) /\ Quiet(r)' /\ Drafts(r)' /\ Ledger(r)'
  BY <1>1, <1>2, <1>4, <1>5, WriteKeeps, ZenonT(60) DEF Outside
<1>7. Types(r)'
  BY <1>1, <1>2, <1>6 DEF Mine, Types, Statement
<1>8. Grounded(r)'
  BY <1>2, OwnGrounded
<1>9. Course(r)'
  BY <1>2, <1>8 DEF Course, Grounded, Moving
<1>10. Unborn(r)'
  BY <1>2, <1>3, OwnUnborn
<1> QED
  BY <1>6, <1>7, <1>9, <1>10 DEF Mine

LEMMA InsertTransferMine ==
  ASSUME Inv, NEW r \in Req, InsertTransfer(r)
  PROVE  Mine(r)'
<1>1. Mine(r) /\ Arrays /\ Act(r) /\ pc[r] = "insert" /\ call[r].op = "transfer"
  BY InvMine DEF Act, Step, InsertTransfer
<1>2. PICK v : v = [kind |-> "transfer", moves |-> call[r].moves]
  OBVIOUS
<1>3. call[r].moves \in Seq(Move)
  BY <1>1, BodyType DEF Mine, Course, TransferBody
<1>4. v \in PaperRow /\ v.kind = "transfer"
  BY <1>2, <1>3 DEF PaperRow, TransferRow
<1>5. Write(r, [x \in {r} |-> v]) /\ UNCHANGED <<goods, locals>> /\ pc'[r] = "commit"
  BY <1>1, <1>2 DEF InsertTransfer, Goto, Arrays
<1> QED
  BY <1>1, <1>4, <1>5, OwnPaper, ZenonT(60) DEF Moving

LEMMA InsertOrderMine ==
  ASSUME Inv, NEW r \in Req, InsertOrder(r), ~Refuse(r)
  PROVE  Mine(r)'
<1>1. Mine(r) /\ Arrays /\ Act(r) /\ pc[r] = "insert" /\ call[r].op = "order"
  BY InvMine DEF Act, Step, InsertOrder
<1>2. PICK b : b = call[r]
  OBVIOUS
<1>3. PICK v : v = [kind |-> "order", supplier |-> b.supplier, moves |-> b.moves,
                    total |-> Round(b.total), paid |-> Round(b.paid), booked |-> Round(b.paid),
                    status |-> Status(b.paid, b.total)]
  OBVIOUS
<1>4. b \in OrderBody
  BY <1>1, <1>2, BodyType DEF Mine, Course
<1>5. b.supplier \in Supplier /\ b.moves \in Seq(Move)
      /\ Round(b.total) \in Nat /\ Round(b.paid) \in Nat
      /\ Status(b.paid, b.total) \in {"paid", "partial", "unpaid"}
  BY <1>4, RoundType DEF OrderBody, Status
<1>6. v \in OrderRow /\ v.kind = "order"
  BY <1>3, <1>5 DEF OrderRow
<1>7. /\ Write(r, [x \in {r} |-> v]) /\ UNCHANGED <<goods, locals>>
      /\ pc'[r] \in {"debt", "commit"}
  BY <1>1, <1>2, <1>3 DEF InsertOrder, Goto, Arrays
<1>8. v \in PaperRow /\ v.kind # "check"
  BY <1>6 DEF PaperRow
<1> QED
  BY <1>1, <1>7, <1>8, OwnPaper, ZenonT(60) DEF Moving

LEMMA AmountType ==
  ASSUME NEW b \in PaymentBody
  PROVE  AmountOf(b) \in Nat
<1>1. CASE b.moves = <<>>
  BY <1>1 DEF PaymentBody, AmountOf
<1>2. CASE b.moves # <<>>
  <2>1. b.moves \in Seq(Move) /\ Len(b.moves) = 1 /\ b.moves[1].shop < 0
    BY <1>2 DEF PaymentBody
  <2>2. b.moves[1] \in Move
    BY <2>1
  <2>3. PICK c \in Nat, n \in Nat : c = Cost[b.moves[1].product] /\ n = -b.moves[1].shop
    BY <2>1, <2>2, CostAssumption DEF Move
  <2>4. c * n \in Nat /\ Parts * (c * n) \in Nat
    BY <2>3, PartsAssumption
  <2> QED
    BY <1>2, <2>3, <2>4 DEF AmountOf
<1> QED
  BY <1>1, <1>2

LEMMA InsertPaymentMine ==
  ASSUME Inv, NEW r \in Req, InsertPayment(r), ~Refuse(r)
  PROVE  Mine(r)'
<1>1. Mine(r) /\ Arrays /\ Act(r) /\ pc[r] = "pay"
  BY InvMine DEF Act, Step, InsertPayment
<1>2. PICK b : b = call[r]
  OBVIOUS
<1>3. b \in PaymentBody /\ b.op = "payment"
  BY <1>1, <1>2, BodyType DEF Mine, Course
<1>4. PICK v : v = [kind |-> "payment", supplier |-> b.supplier, order |-> b.order,
                    moves |-> b.moves, amount |-> Round(AmountOf(b)),
                    booked |-> IF b.moves = <<>> THEN Round(b.amount) ELSE 0]
  OBVIOUS
<1>5. /\ b.supplier \in Supplier /\ b.order \in Id \cup {NoRow} /\ b.moves \in Seq(Move)
      /\ Round(b.amount) \in Nat /\ Round(AmountOf(b)) \in Nat
  BY <1>3, AmountType, RoundType DEF PaymentBody
<1>6. v \in PaymentRow /\ v.kind = "payment"
  BY <1>3, <1>4, <1>5 DEF PaymentRow
<1>7. Write(r, [x \in {r} |-> v]) /\ UNCHANGED <<goods, locals>> /\ pc'[r] = "commit"
  BY <1>1, <1>2, <1>4 DEF InsertPayment, Goto, Arrays
<1>8. v \in PaperRow /\ v.kind # "check"
  BY <1>6 DEF PaperRow
<1> QED
  BY <1>1, <1>2, <1>3, <1>7, <1>8, OwnPaper, ZenonT(60) DEF Moving

LEMMA DeltaType ==
  ASSUME NEW r \in Req, call[r] \in Body, call[r].op \in {"order", "payment"}
  PROVE  DebtDelta(r) \in Int /\ call[r].supplier \in Supplier
<1>1. CASE call[r].op = "order"
  BY <1>1, BodyType DEF OrderBody, DebtDelta
<1>2. CASE call[r].op = "payment"
  <2>1. call[r] \in PaymentBody
    BY <1>2, BodyType
  <2>2. AmountOf(call[r]) \in Nat
    BY <2>1, AmountType
  <2> QED
    BY <1>2, <2>1, <2>2 DEF PaymentBody, DebtDelta
<1> QED
  BY <1>1, <1>2

LEMMA UpdateDebtMine ==
  ASSUME Inv, NEW r \in Req, UpdateDebt(r)
  PROVE  Mine(r)'
<1>1. Mine(r) /\ RowsOK /\ Arrays /\ Act(r) /\ pc[r] = "debt"
  BY InvMine DEF Act, Step, UpdateDebt
<1>2. PICK s : s = call[r].supplier
  OBVIOUS
<1>3. product' = product /\ moved' = moved /\ call' = call /\ todo' = todo
  BY DEF UpdateDebt, goods, locals
<1>4. call[r].op \in {"order", "payment"} /\ call[r] \in Body
  BY <1>1 DEF Mine, Course
<1>5. Grounded(r)' /\ Grounded(r)
  BY <1>1, <1>3, OwnGrounded
<1>6. /\ s \in Supplier /\ Is(s) /\ s \in Row /\ s \notin Product /\ s \notin Id /\ s \notin Item
      /\ DebtDelta(r) \in Int
  <2>1. Is(s)
    BY <1>2, <1>4, <1>5 DEF Grounded, Named
  <2> QED
    BY <1>2, <1>4, <2>1, DeltaType, VersionOf, Names
<1>7. pc'[r] = CASE call[r].op = "order" -> "commit"
                 [] call[r].op = "payment" /\ call[r].order # NoRow -> "paid"
                 [] OTHER -> "pay"
  BY <1>1 DEF UpdateDebt, Goto, Arrays
<1>8. /\ pc'[r] \in {"commit", "paid", "pay"}
      /\ (pc'[r] = "commit" <=> call[r].op = "order")
      /\ (pc'[r] = "paid" => call[r].op = "payment" /\ call[r].order # NoRow)
      /\ (pc'[r] = "pay" => call[r].op = "payment")
  BY <1>4, <1>7
<1>9. /\ table' = table
      /\ Rows(draft'[r]) /\ Quiet(r)' /\ Drafts(r)' /\ Ledger(r)'
  <2>1. CASE Seen(r, s).live
    <3>1. PICK v : v = [Seen(r, s) EXCEPT !.debt = Plus(@, DebtDelta(r))]
      OBVIOUS
    <3>2. Seen(r, s) \in SupplierRow /\ table[s].live
      BY <1>6, <2>1, SeenRow
    <3>3. v \in SupplierRow /\ v.live
      <4>1. Plus(Seen(r, s).debt, DebtDelta(r)) \in Int
        BY <1>6, <3>2, PlusIs DEF SupplierRow
      <4> QED
        BY <2>1, <3>1, <3>2, <4>1 DEF SupplierRow
    <3>4. Write(r, [x \in {s} |-> v])
      BY <1>2, <2>1, <3>1 DEF UpdateDebt
    <3>5. v \in Version(s) /\ v # NoRow
      BY <1>6, <3>3, VersionOf, Names
    <3>6. /\ table' = table
          /\ Locked(r)' = Locked(r) \cup {s}
          /\ draft'[r][s] = v
      BY <1>1, <1>6, <3>4, <3>5, WriteOne, ZenonT(60)
    <3>7. Drafted(r, s)'
      BY <1>6, <3>2, <3>3, <3>5, <3>6 DEF Drafted, Is
    <3>8. Rows(draft'[r]) /\ Quiet(r)' /\ Drafts(r)' /\ Ledger(r)'
      BY <1>1, <1>3, <1>6, <1>8, <3>4, <3>5, <3>7, WriteKeeps, ZenonT(60) DEF Outside
    <3> QED
      BY <3>6, <3>8
  <2>2. CASE ~Seen(r, s).live
    <3>1. draft' = draft /\ table' = table
      BY <1>2, <2>2 DEF UpdateDebt, db
    <3> QED
      BY <1>1, <1>3, <1>8, <3>1, NothingWritten DEF Outside
  <2> QED
    BY <2>1, <2>2
<1>10. Types(r)'
  BY <1>1, <1>3, <1>8, <1>9 DEF Mine, Types, Statement
<1>11. Course(r)'
  BY <1>3, <1>4, <1>5, <1>8 DEF Course, Grounded, Moving
<1>12. Unborn(r)'
  BY <1>1, <1>3, <1>9, OwnUnborn
<1> QED
  BY <1>9, <1>10, <1>11, <1>12 DEF Mine

(* The order that a payment names, as the payment sees it.                 *)
LEMMA SeenOrder ==
  ASSUME Inv, NEW r \in Req, pc[r] \in {"debt", "paid", "pay"}, call[r].op = "payment",
         Kind(call[r].order, "order"), call[r].order \in Id
  PROVE  Seen(r, call[r].order) \in OrderRow /\ call[r].order # r
<1>1. Mine(r) /\ RowsOK
  BY InvMine
<1>2. PICK o \in Id : o = call[r].order
  OBVIOUS
<1>3. o \in Row /\ Is(o) /\ o # r
  BY <1>1, <1>2, VersionOf DEF Kind, Is, Mine, Unborn
<1>4. Seen(r, o).kind = "order"
  BY <1>1, <1>2, <1>3 DEF Mine, Drafts, Drafted, Seen, Kind
<1>5. Seen(r, o) \in PaperRow
  BY <1>1, <1>3, SeenRow, VersionOf
<1>6. Seen(r, o) \in OrderRow
  BY <1>4, <1>5 DEF PaperRow, PaymentRow, TransferRow, CheckRow
<1> QED
  BY <1>2, <1>3, <1>6

LEMMA PayOrderMine ==
  ASSUME Inv, NEW r \in Req, PayOrder(r)
  PROVE  Mine(r)'
<1>1. Mine(r) /\ RowsOK /\ Arrays /\ Act(r) /\ pc[r] = "paid"
  BY InvMine DEF Act, Step, PayOrder
<1>2. PICK o : o = call[r].order
  OBVIOUS
<1>3. product' = product /\ moved' = moved /\ call' = call /\ todo' = todo /\ pc'[r] = "pay"
  BY <1>1 DEF PayOrder, goods, locals, Goto, Arrays
<1>4. call[r] \in PaymentBody /\ call[r].op = "payment" /\ o # NoRow
  BY <1>1, <1>2, BodyType DEF Mine, Course
<1>5. o \in Id /\ o \in Row /\ o \notin Product /\ o \notin Supplier /\ o \notin Item
  BY <1>2, <1>4, VersionOf, Names DEF PaymentBody
<1>6. Grounded(r)'
  BY <1>1, <1>3, OwnGrounded
<1>7. /\ table' = table
      /\ Rows(draft'[r]) /\ Quiet(r)' /\ Drafts(r)' /\ Ledger(r)'
  <2>1. CASE Kind(o, "order")
    <3>1. Seen(r, o) \in OrderRow /\ o # r
      BY <1>1, <1>2, <1>4, <1>5, <2>1, SeenOrder
    <3>2. AmountOf(call[r]) \in Nat
      BY <1>4, AmountType
    <3>3. PICK v : v = PaidOrder(Seen(r, o), AmountOf(call[r]))
      OBVIOUS
    <3>4. v \in OrderRow /\ v.kind = "order"
      <4>1. PICK d \in OrderRow, n \in Nat : d = Seen(r, o) /\ n = AmountOf(call[r])
        BY <3>1, <3>2
      <4>2. PICK p, t : p = Plus(d.paid, n) /\ t = Status(Plus(d.paid, n), d.total)
        OBVIOUS
      <4>3. p \in Nat /\ t \in {"paid", "partial", "unpaid"}
        <5>1. d.paid \in Nat
          BY DEF OrderRow
        <5> QED
          BY <4>1, <4>2, <5>1, PlusNat DEF Status
      <4>4. v = [d EXCEPT !.paid = p, !.status = t]
        BY <3>3, <4>1, <4>2 DEF PaidOrder, OrderRow
      <4> QED
        BY <4>1, <4>3, <4>4 DEF OrderRow
    <3>5. Write(r, [x \in {o} |-> v])
      BY <1>2, <2>1, <3>3 DEF PayOrder
    <3>6. v \in Version(o) /\ v # NoRow
      BY <1>5, <3>4, VersionOf, Names DEF PaperRow
    <3>7. /\ table' = table
          /\ Locked(r)' = Locked(r) \cup {o}
          /\ draft'[r][o] = v
      BY <1>1, <1>5, <3>5, <3>6, WriteOne, ZenonT(60)
    <3>8. Drafted(r, o)'
      BY <1>2, <1>3, <1>4, <1>5, <2>1, <3>4, <3>6, <3>7 DEF Drafted, Kind
    <3>9. Rows(draft'[r]) /\ Quiet(r)' /\ Drafts(r)' /\ Ledger(r)'
      BY <1>1, <1>3, <1>5, <3>5, <3>6, <3>8, WriteKeeps, ZenonT(60) DEF Outside
    <3> QED
      BY <3>7, <3>9
  <2>2. CASE ~Kind(o, "order")
    <3>1. draft' = draft /\ table' = table
      BY <1>2, <2>2 DEF PayOrder, db
    <3> QED
      BY <1>1, <1>3, <3>1, NothingWritten DEF Outside
  <2> QED
    BY <2>1, <2>2
<1>8. Types(r)'
  BY <1>1, <1>3, <1>7 DEF Mine, Types, Statement
<1>9. Course(r)'
  BY <1>3, <1>4, <1>6 DEF Course, Grounded
<1>10. Unborn(r)'
  BY <1>1, <1>3, <1>7, OwnUnborn
<1> QED
  BY <1>7, <1>8, <1>9, <1>10 DEF Mine

-----------------------------------------------------------------------------
(* The commit, and the statements on the pool.                             *)

LEMMA DoneMine ==
  ASSUME Inv, NEW r \in Req, Act(r), Leave(r, "ok"), pc[r] # "idle", draft'[r] = NoDraft,
         moved'[r] \in [Product -> Movement]
  PROVE  Mine(r)'
<1>1. Mine(r) /\ Arrays
  BY InvMine
<1>2. pc'[r] = "ok" /\ call'[r] = call[r] /\ product'[r] = NoRow /\ todo'[r] = <<>>
  BY <1>1 DEF Leave, Goto, Arrays
<1>3. Locked(r)' = {} /\ Rows(draft'[r])
  BY DEF Locked, NoDraft, Rows
<1>4. Types(r)'
  BY <1>1, <1>2, <1>3 DEF Mine, Types, Statement
<1>5. Grounded(r)'
  BY <1>2, OwnGrounded
<1>6. Course(r)' /\ Unborn(r)'
  BY <1>2, <1>5 DEF Course, Grounded, Unborn
<1>7. Quiet(r)' /\ Drafts(r)' /\ Ledger(r)'
  BY <1>2, <1>3 DEF Quiet, Drafts, Ledger
<1> QED
  BY <1>4, <1>6, <1>7 DEF Mine

LEMMA CommitMine ==
  ASSUME Inv, NEW r \in Req, CommitTx(r)
  PROVE  Mine(r)'
<1>1. Mine(r) /\ RowsOK /\ Act(r) /\ pc[r] = "commit"
  BY InvMine DEF Act, Step, CommitTx
<1>2. draft'[r] = NoDraft
  BY <1>1, CommitEffect DEF CommitTx
<1> QED
  BY <1>1, <1>2, DoneMine DEF CommitTx, Mine, Types

\* On the pool r has nothing locked before and after.
LEMMA PoolRest ==
  ASSUME Inv, NEW r \in Req, pc[r] \in Outside \ {"ok"}, draft' = draft
  PROVE  draft'[r] = NoDraft /\ draft[r] = NoDraft
BY InvMine DEF Mine, Quiet

LEMMA CreateRowMine ==
  ASSUME Inv, NEW r \in Req, CreateRow(r)
  PROVE  Mine(r)'
<1>1. Mine(r) /\ Arrays /\ Act(r) /\ pc[r] = "create" /\ call[r].op = "create"
  BY InvMine DEF Act, Step, CreateRow, Mine, Course
<1>2. Leave(r, "ok") /\ draft'[r] = NoDraft
  BY <1>1, PoolRest DEF CreateRow, Autocommit, Outside
<1>3. moved'[r] \in [Product -> Movement]
  <2>1. moved[r] \in [Product -> Movement]
    BY <1>1 DEF Mine, Types
  <2>2. CASE call[r].name \in Product
    <3>1. PICK m : m = [shop |-> call[r].row.shop, warehouse |-> call[r].row.warehouse]
      OBVIOUS
    <3>2. call[r].row \in ProductRow
      BY <1>1, <2>2, NamedRows, VersionOf DEF Mine
    <3>3. m \in Movement
      BY <3>1, <3>2 DEF Movement, ProductRow
    <3>4. moved' = [moved EXCEPT ![r][call[r].name] = m]
      BY <2>2, <3>1 DEF CreateRow
    <3>5. moved'[r] = [moved[r] EXCEPT ![call[r].name] = m]
      BY <1>1, <3>4 DEF Arrays
    <3> QED
      BY <2>1, <3>3, <3>5
  <2>3. CASE call[r].name \notin Product
    BY <2>1, <2>3 DEF CreateRow
  <2> QED
    BY <2>2, <2>3
<1> QED
  BY <1>1, <1>2, <1>3, DoneMine

LEMMA PutProductMine ==
  ASSUME Inv, NEW r \in Req, PutProduct(r), ~Refuse(r)
  PROVE  Mine(r)'
<1>1. Mine(r) /\ RowsOK /\ Arrays /\ Act(r) /\ pc[r] = "put" /\ call[r].op = "update"
  BY InvMine DEF Act, Step, PutProduct, Mine, Course
<1>2. Leave(r, "ok") /\ draft'[r] = NoDraft
  BY <1>1, PoolRest DEF PutProduct, Autocommit, Outside
<1>3. PICK p \in Product : p = call[r].product /\ Is(p) /\ p \in Row
  BY <1>1, NamedRows, VersionOf DEF Mine
<1>4. PICK m : m = [shop |-> Updated(r).shop - table[p].shop,
                    warehouse |-> Updated(r).warehouse - table[p].warehouse]
  OBVIOUS
<1>5. table[p] \in ProductRow
  BY <1>1, <1>3, VersionKind DEF RowsOK, Rows, Is
<1>6. Updated(r).shop \in Int /\ Updated(r).warehouse \in Int
  <2>1. call[r].shop \in Nat /\ call[r].warehouse \in Nat
    BY <1>1, NamedRows DEF Mine
  <2>2. product[r] \in ProductRow
    BY <1>1 DEF Mine, Course
  <2>3. PICK n, w : /\ n = IF "shop" \in call[r].set THEN call[r].shop ELSE product[r].shop
                    /\ w = IF "warehouse" \in call[r].set
                             THEN call[r].warehouse ELSE product[r].warehouse
    OBVIOUS
  <2>4. n \in Int /\ w \in Int
    BY <2>1, <2>2, <2>3 DEF ProductRow
  <2>5. Updated(r) = [product[r] EXCEPT !.shop = n, !.warehouse = w]
    BY <2>2, <2>3 DEF Updated, ProductRow
  <2> QED
    BY <2>2, <2>4, <2>5 DEF ProductRow
<1>7. m \in Movement
  BY <1>4, <1>5, <1>6 DEF Movement, ProductRow
<1>8. moved' = [moved EXCEPT ![r][p] = m]
  BY <1>3, <1>4 DEF PutProduct
<1>9. moved'[r] = [moved[r] EXCEPT ![p] = m]
  BY <1>1, <1>8 DEF Arrays
<1>10. moved'[r] \in [Product -> Movement]
  BY <1>1, <1>7, <1>9 DEF Mine, Types
<1> QED
  BY <1>1, <1>2, <1>10, DoneMine

LEMMA PoolMine ==
  ASSUME Inv, NEW r \in Req, PutSupplier(r) \/ SoftDelete(r), ~Refuse(r)
  PROVE  Mine(r)'
<1>1. Mine(r) /\ Act(r) /\ pc[r] \in {"rename", "delete"}
  BY InvMine DEF Act, Step, PutSupplier, SoftDelete
<1>2. Leave(r, "ok") /\ draft'[r] = NoDraft /\ moved' = moved
  BY <1>1, PoolRest DEF PutSupplier, SoftDelete, Autocommit, Outside
<1> QED
  BY <1>1, <1>2, DoneMine DEF Mine, Types

LEMMA ReadMine ==
  ASSUME Inv, NEW r \in Req, GetProduct(r) \/ GetSupplier(r), ~Refuse(r)
  PROVE  Mine(r)'
<1>1. Mine(r) /\ RowsOK /\ Arrays /\ Act(r)
  BY InvMine DEF Act, Step
<1>2. /\ table' = table /\ draft' = draft /\ moved' = moved /\ call' = call /\ todo' = todo
      /\ pc[r] \in Outside \ {"ok"}
  BY DEF GetProduct, GetSupplier, db, goods, locals, Outside
<1>3. \/ /\ pc[r] = "get" /\ pc'[r] = "put" /\ product'[r] = table[call[r].product]
         /\ table[call[r].product].live
      \/ /\ pc[r] = "find" /\ pc'[r] = "rename" /\ product' = product
  BY <1>1 DEF GetProduct, GetSupplier, Goto, goods, Arrays
<1>4. Grounded(r)'
  BY <1>1, <1>2, <1>3, OwnGrounded
<1>5. pc[r] = "get" =>
        /\ call[r].op = "update"
        /\ product'[r] \in ProductRow /\ product'[r].shop >= 0 /\ product'[r].warehouse >= 0
  <2>1. CASE pc[r] = "get"
    <3>1. PICK p \in Product : p = call[r].product /\ Is(p) /\ p \in Row
      BY <1>1, <2>1, NamedRows, VersionOf DEF Mine, Course
    <3>2. table[p] \in ProductRow /\ table[p].kind = "product"
      BY <1>1, <3>1, VersionKind DEF RowsOK, Rows, Is
    <3>3. table[p].shop >= 0 /\ table[p].warehouse >= 0
      BY <3>1, <3>2 DEF Inv, NoOversell, Kind, Is
    <3> QED
      BY <1>1, <1>3, <2>1, <3>1, <3>2, <3>3 DEF Mine, Course
  <2> QED
    BY <2>1
<1>6. pc[r] = "find" => call[r].op = "rename"
  BY <1>1 DEF Mine, Course
<1>7. Types(r)'
  BY <1>1, <1>2, <1>3, <1>5 DEF Mine, Types, Statement
<1>8. Course(r)'
  BY <1>2, <1>3, <1>4, <1>5, <1>6 DEF Course, Grounded
<1>9. Unborn(r)'
  BY <1>2, <1>3, OwnUnborn
<1>10. Quiet(r)' /\ Drafts(r)' /\ Ledger(r)'
  BY <1>2, IdleRest
<1> QED
  BY <1>7, <1>8, <1>9, <1>10 DEF Mine

-----------------------------------------------------------------------------
(* The inventory checks.                                                   *)

LEMMA SeqOfSet ==
  ASSUME NEW S, IsFiniteSet(S)
  PROVE  SetToSeq(S) \in Seq(S)
<1>1. Cardinality(S) \in Nat /\ ExistsBijection(1..Cardinality(S), S)
  BY FS_CardinalityType
<1>2. PICK g \in Bijection(1..Cardinality(S), S) : TRUE
  BY <1>1 DEF ExistsBijection
<1>3. \E f \in [1..Cardinality(S) -> S] : IsInjective(f)
  BY <1>2 DEF Bijection, Injection, IsInjective
<1>4. SetToSeq(S) \in [1..Cardinality(S) -> S]
  BY <1>3 DEF SetToSeq
<1> QED
  BY <1>1, <1>4

LEMMA ListProductsMine ==
  ASSUME Inv, NEW r \in Req, ListProducts(r)
  PROVE  Mine(r)'
<1>1. Mine(r) /\ RowsOK /\ Arrays /\ Act(r) /\ pc[r] = "list" /\ call[r].op = "check"
  BY InvMine DEF Act, CheckStep, ListProducts, Mine, Course
<1>2. /\ table' = table /\ draft' = draft /\ moved' = moved /\ call' = call /\ product' = product
      /\ pc'[r] = "header"
  BY <1>1 DEF ListProducts, db, goods, Goto, Arrays
<1>3. PICK T : T = {y \in Item : y[1] = r /\ Kind(y[2], "product") /\ table[y[2]].live}
  OBVIOUS
<1>4. PICK f : f = [x \in T |-> [item |-> x, qty |-> table[x[2]][call[r].location]]]
  OBVIOUS
<1>5. PICK S : S = {f[x] : x \in T}
  OBVIOUS
<1>6. IsFiniteSet(S)
  <2>1. IsFiniteSet(T)
    BY <1>3, NamesAssumption, FS_Subset
  <2>2. f \in Surjection(T, S)
    BY <1>4, <1>5 DEF Surjection
  <2> QED
    BY <2>1, <2>2, FS_Surjection
<1>7. todo'[r] = SetToSeq(S)
  <2>1. S = {[item |-> x, qty |-> table[x[2]][call[r].location]] : x \in T}
    BY <1>4, <1>5
  <2> QED
    BY <1>1, <1>3, <2>1 DEF ListProducts, Arrays
<1>8. todo'[r] \in Seq(S)
  BY <1>6, <1>7, SeqOfSet
<1>9. ASSUME NEW c \in S PROVE c \in Count /\ c.item[1] = r /\ Is(c.item[2])
  <2>1. PICK x \in Item : /\ x[1] = r /\ Kind(x[2], "product") /\ table[x[2]].live
                          /\ c = [item |-> x, qty |-> table[x[2]][call[r].location]]
    BY <1>3, <1>4, <1>5
  <2>2. PICK p \in Product : p = x[2] /\ Is(p) /\ p \in Row
    BY <2>1, Names, VersionOf DEF Kind, Is
  <2>3. table[p] \in ProductRow
    BY <1>1, <2>2, VersionKind DEF RowsOK, Rows, Is
  <2>4. call[r].location \in {"shop", "warehouse"}
    BY <1>1, BodyType DEF Mine, Course, CheckBody, Place
  <2>5. table[p][call[r].location] \in Int
    BY <2>3, <2>4 DEF ProductRow
  <2> QED
    BY <2>1, <2>2, <2>5 DEF Count
<1>10. \A i \in DOMAIN todo'[r] :
         todo'[r][i] \in Count /\ todo'[r][i].item[1] = r /\ Is(todo'[r][i].item[2])
  BY <1>8, <1>9
<1>11. todo'[r] \in Seq(Move \cup Count)
  BY <1>8, <1>9
<1>12. Types(r)'
  BY <1>1, <1>2, <1>11 DEF Mine, Types, Statement
<1>13. Grounded(r)'
  BY <1>1, <1>2, OwnGrounded
<1>14. Course(r)'
  BY <1>1, <1>2, <1>10, <1>13 DEF Course, Grounded, Is
<1>15. Unborn(r)'
  BY <1>1, <1>2, OwnUnborn
<1>16. Quiet(r)' /\ Drafts(r)' /\ Ledger(r)'
  BY <1>1, <1>2, IdleRest DEF Outside
<1> QED
  BY <1>12, <1>14, <1>15, <1>16 DEF Mine

LEMMA InsertHeaderMine ==
  ASSUME Inv, NEW r \in Req, InsertHeader(r)
  PROVE  Mine(r)'
<1>1. Mine(r) /\ RowsOK /\ Arrays /\ Act(r) /\ pc[r] = "header" /\ call[r].op = "check"
  BY InvMine DEF Act, CheckStep, InsertHeader, Mine, Course
<1>2. /\ draft' = draft /\ moved' = moved /\ call' = call /\ product' = product /\ todo' = todo
      /\ pc'[r] = "items"
      /\ table' = [table EXCEPT ![r] = [kind |-> "check", location |-> call[r].location,
                                        status |-> "in_progress"]]
  BY <1>1 DEF InsertHeader, Autocommit, goods, locals, Goto, Arrays
<1>3. table'[r] # NoRow /\ table'[r].kind = "check"
  <2>1. PICK v : v = [kind |-> "check", location |-> call[r].location, status |-> "in_progress"]
    OBVIOUS
  <2>2. call[r].location \in Place
    BY <1>1, BodyType DEF Mine, Course, CheckBody
  <2>3. v \in PaperRow /\ v # NoRow
    BY <2>1, <2>2, Names DEF CheckRow, PaperRow
  <2>4. table'[r] = v
    BY <1>1, <1>2, <2>1, VersionOf DEF RowsOK, Rows
  <2> QED
    BY <2>1, <2>3, <2>4
<1>4. \A i \in DOMAIN todo[r] :
        todo[r][i] \in Count /\ todo[r][i].item[1] = r /\ table'[todo[r][i].item[2]] # NoRow
  <2>1. ASSUME NEW i \in DOMAIN todo[r]
        PROVE todo[r][i] \in Count /\ todo[r][i].item[1] = r /\ table'[todo[r][i].item[2]] # NoRow
    <3>1. todo[r][i] \in Count /\ todo[r][i].item[1] = r /\ Is(todo[r][i].item[2])
      BY <1>1 DEF Mine, Course
    <3>2. todo[r][i].item[2] \in Row
      BY <3>1, Names, VersionOf DEF Count
    <3> QED
      BY <1>1, <3>1, <3>2, RowsStay
  <2> QED
    BY <2>1
<1>5. Types(r)'
  BY <1>1, <1>2 DEF Mine, Types, Statement
<1>6. Grounded(r)'
  BY <1>1, <1>2, OwnGrounded
<1>7. Course(r)' /\ Unborn(r)'
  BY <1>1, <1>2, <1>3, <1>4, <1>6 DEF Course, Grounded, Is, Kind, Unborn
<1>8. draft'[r] = NoDraft
  BY <1>1, <1>2, PoolRest DEF Outside
<1>9. \A p \in Product : moved[r][p] = [shop |-> 0, warehouse |-> 0]
  BY <1>1, <1>2, <1>8 DEF Mine, Ledger, Locked, NoDraft
<1>10. Quiet(r)' /\ Drafts(r)' /\ Ledger(r)'
  BY <1>2, <1>8, <1>9 DEF Quiet, Drafts, Ledger, Locked, NoDraft
<1> QED
  BY <1>5, <1>7, <1>10 DEF Mine

LEMMA InsertItemsMine ==
  ASSUME Inv, NEW r \in Req, InsertItems(r)
  PROVE  Mine(r)'
<1>1. Mine(r) /\ RowsOK /\ Arrays /\ Act(r) /\ pc[r] = "items" /\ call[r].op = "check"
      /\ Kind(r, "check")
  BY InvMine DEF Act, CheckStep, InsertItems, Mine, Course
<1>2. /\ moved' = moved /\ call' = call /\ product' = product /\ todo' = todo
      /\ pc'[r] = "commit"
  BY <1>1 DEF InsertItems, goods, locals, Goto, Arrays
<1>3. PICK T : T = {todo[r][i].item : i \in DOMAIN todo[r]}
  OBVIOUS
<1>4. PICK new : new = [x \in T |->
        [kind |-> "item", actual |-> NoRow,
         expected |-> (CHOOSE c \in ToSet(todo[r]) : c.item = x).qty]]
  OBVIOUS
<1>5. Write(r, new)
  BY <1>3, <1>4 DEF InsertItems
<1>6. \A i \in DOMAIN todo[r] :
        todo[r][i] \in Count /\ todo[r][i].item[1] = r /\ Is(todo[r][i].item[2])
  BY <1>1 DEF Mine, Course
<1>7. ASSUME NEW x \in T
      PROVE  /\ x \in Item /\ x \in Row /\ x[1] = r /\ Is(x[2])
             /\ new[x] \in ItemRow
  <2>1. PICK i \in DOMAIN todo[r] : x = todo[r][i].item
    BY <1>3
  <2>2. x \in Item /\ x[1] = r /\ Is(x[2])
    BY <1>6, <2>1 DEF Count
  <2>3. \E c \in ToSet(todo[r]) : c.item = x
    BY <2>1 DEF ToSet
  <2>4. \A c \in ToSet(todo[r]) : c \in Count
    BY <1>6 DEF ToSet
  <2>5. PICK c : c = CHOOSE d \in ToSet(todo[r]) : d.item = x
    OBVIOUS
  <2>6. c \in Count
    BY <2>3, <2>4, <2>5
  <2>7. new[x] = [kind |-> "item", actual |-> NoRow, expected |-> c.qty]
    BY <1>4, <2>5
  <2> QED
    BY <2>2, <2>6, <2>7, VersionOf DEF Count, ItemRow
<1>8. DOMAIN new = T /\ Rows(new)
  BY <1>4, <1>7, VersionOf DEF Rows
<1>9. /\ table' = table
      /\ Locked(r)' = Locked(r) \cup T
      /\ \A x \in Locked(r)' : draft'[r][x] = IF x \in T THEN new[x] ELSE draft[r][x]
      /\ Rows(draft'[r])
  BY <1>1, <1>5, <1>8, WriteEffect, WriteTypes
<1>10. draft[r] = NoDraft /\ Locked(r) = {}
  BY <1>1 DEF Mine, Quiet, Outside, Locked, NoDraft
<1>11. ASSUME NEW x \in Locked(r)' PROVE Drafted(r, x)'
  <2>1. x \in T /\ draft'[r][x] = new[x]
    BY <1>9, <1>10
  <2>2. x \in Item /\ x[1] = r /\ Is(x[2]) /\ new[x] \in ItemRow
    BY <1>7, <2>1
  <2>3. ~Is(x)
    <3>1. ~Known(r)
      BY <1>1, NamesAssumption DEF Known
    <3> QED
      BY <2>2, <3>1 DEF Inv, Items
  <2> QED
    BY <1>1, <1>2, <1>9, <2>1, <2>2, <2>3, Names DEF Drafted, Is
<1>12. Types(r)'
  BY <1>1, <1>2, <1>9 DEF Mine, Types, Statement
<1>13. Grounded(r)'
  BY <1>1, <1>2, OwnGrounded
<1>14. Course(r)' /\ Unborn(r)'
  BY <1>1, <1>2, <1>9, <1>13 DEF Course, Grounded, Kind, Unborn
<1>15. \A p \in Product : p \notin Locked(r)'
  BY <1>7, <1>9, <1>10, Names
<1>16. Quiet(r)' /\ Drafts(r)' /\ Ledger(r)'
  BY <1>1, <1>2, <1>10, <1>11, <1>15 DEF Mine, Quiet, Drafts, Ledger, Outside
<1> QED
  BY <1>12, <1>14, <1>16 DEF Mine

LEMMA CountItemMine ==
  ASSUME Inv, NEW r \in Req, CountItem(r)
  PROVE  Mine(r)'
<1>1. Mine(r) /\ RowsOK /\ Arrays /\ Act(r) /\ pc[r] = "count" /\ call[r].op = "count"
  BY InvMine DEF Act, CheckStep, CountItem, Mine, Course
<1>2. PICK c : c = Head(todo[r])
  OBVIOUS
<1>3. PICK rest : rest = Tail(todo[r])
  OBVIOUS
<1>4. /\ moved' = moved /\ call' = call /\ product' = product /\ todo'[r] = rest
      /\ pc'[r] = AfterCounts(call[r], rest)
  BY <1>1, <1>3 DEF CountItem, goods, Goto, Arrays
<1>5. todo[r] # <<>> /\ \A i \in DOMAIN todo[r] : todo[r][i] \in Count
  BY <1>1 DEF Mine, Course
<1>6. /\ 1 \in DOMAIN todo[r] /\ c = todo[r][1] /\ rest \in Seq(Move \cup Count)
      /\ \A i \in DOMAIN rest : i + 1 \in DOMAIN todo[r] /\ rest[i] = todo[r][i + 1]
  BY <1>1, <1>2, <1>3, <1>5, TailOf DEF Mine, Types
<1>7. PICK x \in Item : x = c.item
  BY <1>5, <1>6 DEF Count
<1>8. c.qty \in Int /\ c.qty # NoRow
  BY <1>5, <1>6, Names DEF Count
<1>9. Grounded(r)' /\ call[r].complete \in BOOLEAN
  BY <1>1, <1>4, OwnGrounded, BodyType DEF Mine, Course, CountBody
<1>10. /\ pc'[r] \in {"count", "read", "commit"}
       /\ (pc'[r] = "count" => rest # <<>>)
       /\ (pc'[r] = "read" => call[r].complete)
       /\ (pc'[r] = "commit" => ~call[r].complete)
  BY <1>4, <1>9 DEF AfterCounts
<1>11. x \in Row /\ x \notin Product /\ x \notin Supplier /\ x \notin Id
  BY VersionOf, Names
<1>12. /\ table' = table
       /\ Rows(draft'[r]) /\ Quiet(r)' /\ Drafts(r)' /\ Ledger(r)'
  <2>1. CASE Seen(r, x) # NoRow
    <3>1. Is(x)
      BY <1>1, <1>7, <2>1 DEF Mine, Drafts, Drafted, Seen, Is
    <3>2. PICK d \in ItemRow : d = Seen(r, x)
      BY <1>7, <1>11, <3>1, SeenRow, VersionOf
    <3>3. PICK v : v = [d EXCEPT !.actual = c.qty]
      OBVIOUS
    <3>4. v \in ItemRow /\ v.actual = c.qty
      BY <1>8, <3>3 DEF ItemRow
    <3>5. Write(r, [y \in {x} |-> v])
      <4>1. [y \in {x} |-> v] = [y \in {c.item} |-> [Seen(r, y) EXCEPT !.actual = c.qty]]
        BY <1>7, <3>2, <3>3
      <4> QED
        BY <1>2, <1>7, <2>1, <4>1 DEF CountItem
    <3>6. v \in Version(x) /\ v # NoRow
      BY <1>7, <3>4, VersionOf, Names
    <3>7. /\ table' = table
          /\ Locked(r)' = Locked(r) \cup {x}
          /\ draft'[r][x] = v
      BY <1>1, <1>11, <3>5, <3>6, WriteOne, ZenonT(60)
    <3>8. Drafted(r, x)'
      BY <1>8, <1>11, <3>1, <3>4, <3>6, <3>7 DEF Drafted, Is
    <3>9. Rows(draft'[r]) /\ Quiet(r)' /\ Drafts(r)' /\ Ledger(r)'
      BY <1>1, <1>4, <1>10, <1>11, <3>5, <3>6, <3>8, WriteKeeps, ZenonT(60) DEF Outside
    <3> QED
      BY <3>7, <3>9
  <2>2. CASE Seen(r, x) = NoRow
    <3>1. draft' = draft /\ table' = table
      BY <1>2, <1>7, <2>2 DEF CountItem, db
    <3> QED
      BY <1>1, <1>4, <1>10, <3>1, NothingWritten DEF Outside
  <2> QED
    BY <2>1, <2>2
<1>13. Types(r)'
  BY <1>1, <1>4, <1>6, <1>10, <1>12 DEF Mine, Types, Statement
<1>14. \A i \in DOMAIN rest : rest[i] \in Count
  BY <1>5, <1>6
<1>15. Course(r)'
  BY <1>1, <1>4, <1>9, <1>10, <1>14 DEF Course, Grounded
<1>16. Unborn(r)'
  BY <1>1, <1>4, <1>12, OwnUnborn
<1> QED
  BY <1>12, <1>13, <1>15, <1>16 DEF Mine

LEMMA ReadItemsMine ==
  ASSUME Inv, NEW r \in Req, ReadItems(r), ~Refuse(r)
  PROVE  Mine(r)'
<1>1. Mine(r) /\ RowsOK /\ Arrays /\ Act(r) /\ pc[r] = "read" /\ call[r].op = "count"
      /\ call[r].complete
  BY InvMine DEF Act, CheckStep, ReadItems, Mine, Course
<1>2. PICK items : items = ItemsOf(call[r].check)
  OBVIOUS
<1>3. PICK order \in SetToSeqs(items) :
        /\ todo' = [todo EXCEPT ![r] =
             [i \in DOMAIN order |-> [item |-> order[i], qty |-> table[order[i]].actual]]]
        /\ Goto(r, IF order = <<>> THEN "complete" ELSE "item")
  BY <1>2 DEF ReadItems
<1>4. PICK rest : rest = [i \in DOMAIN order |-> [item |-> order[i], qty |-> table[order[i]].actual]]
  OBVIOUS
<1>5. /\ moved' = moved /\ call' = call /\ product' = product /\ draft' = draft /\ table' = table
      /\ AllCounted(items)
  BY <1>2 DEF ReadItems, db, goods
<1>6. todo'[r] = rest /\ pc'[r] = IF order = <<>> THEN "complete" ELSE "item"
  BY <1>1, <1>3, <1>4 DEF Goto, Arrays
<1>7. items \subseteq Item /\ IsFiniteSet(items) /\ Cardinality(items) \in Nat
  <2>1. items \subseteq Item
    BY <1>2 DEF ItemsOf
  <2>2. IsFiniteSet(items)
    BY <2>1, NamesAssumption, FS_Subset
  <2> QED
    BY <2>1, <2>2, FS_CardinalityType
<1>8. order \in [1..Cardinality(items) -> items]
  BY DEF SetToSeqs
<1>9. order \in Seq(items)
  BY <1>7, <1>8
<1>10. ASSUME NEW x \in items
       PROVE  x \in Item /\ table[x].actual \in Int /\ Is(x[2])
  <2>1. x \in Item /\ Is(x) /\ x \in Row
    BY <1>2, VersionOf DEF ItemsOf, Is
  <2>2. table[x] \in ItemRow /\ table[x].actual # NoRow
    BY <1>1, <1>5, <2>1, VersionKind DEF RowsOK, Rows, AllCounted, Is
  <2> QED
    BY <2>1, <2>2 DEF ItemRow, Inv, Items
<1>11. \A i \in DOMAIN rest : rest[i] \in Count /\ Is(rest[i].item[2])
  BY <1>4, <1>8, <1>10 DEF Count
<1>12. DOMAIN rest = 1..Cardinality(items)
  BY <1>4, <1>8
<1>13. rest \in Seq(Move \cup Count)
  <2>1. rest \in [1..Cardinality(items) -> Move \cup Count]
    BY <1>4, <1>11, <1>12
  <2> QED
    BY <1>7, <2>1
<1>14. order # <<>> => rest # <<>>
  BY <1>7, <1>8, <1>9, <1>12
<1>15. Types(r)'
  BY <1>1, <1>5, <1>6, <1>13 DEF Mine, Types, Statement
<1>16. Grounded(r)'
  BY <1>1, <1>5, OwnGrounded
<1>17. \A x \in ItemsOf(call[r].check)' : table'[x].actual # NoRow
  BY <1>2, <1>5 DEF AllCounted, ItemsOf
<1>18. Course(r)'
  BY <1>1, <1>5, <1>6, <1>11, <1>14, <1>16, <1>17 DEF Course, Grounded, Is
<1>19. Unborn(r)'
  BY <1>1, <1>5, OwnUnborn
<1>20. Rows(draft'[r]) /\ Quiet(r)' /\ Drafts(r)' /\ Ledger(r)'
  BY <1>1, <1>5, <1>6, NothingWritten DEF Outside
<1> QED
  BY <1>15, <1>18, <1>19, <1>20 DEF Mine

\* The committed items of the check r completes are counted while it works.
LEMMA StillCounted ==
  ASSUME NEW r \in Req, Course(r), pc[r] \in {"item", "set", "complete"}, table' = table,
         call'[r] = call[r]
  PROVE  \A x \in ItemsOf(call[r].check)' : table'[x].actual # NoRow
<1>1. \A x \in ItemsOf(call[r].check) : table[x].actual # NoRow
  BY DEF Course
<1> QED
  BY <1>1 DEF ItemsOf

LEMMA LockCountedMine ==
  ASSUME Inv, NEW r \in Req, LockCounted(r), ~Refuse(r)
  PROVE  Mine(r)'
<1>1. Mine(r) /\ RowsOK /\ Arrays /\ Act(r)
  BY InvMine DEF Act, CheckStep
<1>2. PICK p : p = Head(todo[r]).item[2]
  OBVIOUS
<1>3. /\ pc[r] = "item" /\ GetByIDForUpdate(r, p) /\ moved' = moved /\ call' = call /\ todo' = todo
      /\ pc'[r] = "set"
  BY <1>1, <1>2 DEF LockCounted, Goto, locals, Arrays
<1>4. /\ call[r].op = "count" /\ call[r].complete /\ todo[r] # <<>>
      /\ \A i \in DOMAIN todo[r] : todo[r][i] \in Count /\ Is(todo[r][i].item[2])
  BY <1>1, <1>3 DEF Mine, Course
<1>5. Grounded(r)'
  BY <1>1, <1>3, OwnGrounded
<1>6. 1 \in DOMAIN todo[r] /\ Head(todo[r]) = todo[r][1]
  BY <1>1, <1>4, TailOf DEF Mine, Types
<1>7. p \in Product /\ Is(p)
  BY <1>2, <1>4, <1>6, Names DEF Count
<1>8. /\ Rows(draft'[r]) /\ Quiet(r)' /\ Drafts(r)' /\ Ledger(r)'
      /\ p \in Locked(r)' /\ product'[r] = draft'[r][p]
      /\ product'[r] \in ProductRow /\ table' = table
  BY <1>3, <1>7, LockOne DEF Outside
<1>9. Types(r)'
  BY <1>1, <1>3, <1>8 DEF Mine, Types, Statement
<1>10. \A x \in ItemsOf(call[r].check)' : table'[x].actual # NoRow
  BY <1>1, <1>3, <1>8, StillCounted DEF Mine
<1>11. Course(r)'
  BY <1>2, <1>3, <1>4, <1>5, <1>8, <1>10 DEF Course, Grounded, Is
<1>12. Unborn(r)'
  BY <1>3, <1>8, OwnUnborn
<1> QED
  BY <1>8, <1>9, <1>11, <1>12 DEF Mine

LEMMA SetStockMine ==
  ASSUME Inv, NEW r \in Req, SetStock(r), ~Refuse(r)
  PROVE  Mine(r)'
<1>1. Mine(r) /\ RowsOK /\ Arrays /\ Act(r)
  BY InvMine DEF Act, CheckStep
<1>2. PICK c : c = Head(todo[r])
  OBVIOUS
<1>3. PICK rest : rest = Tail(todo[r])
  OBVIOUS
<1>4. PICK n, w : /\ n = CorrectedQty(product[r], table[call[r].check].location, "shop", c.qty)
                  /\ w = CorrectedQty(product[r], table[call[r].check].location, "warehouse", c.qty)
  OBVIOUS
<1>5. /\ pc[r] = "set" /\ NonNegative(c.qty) /\ UpdateStock(r, c.item[2], n, w)
      /\ call' = call /\ product' = product /\ todo'[r] = rest
      /\ pc'[r] = IF Len(todo[r]) > 1 THEN "item" ELSE "complete"
  BY <1>1, <1>2, <1>3, <1>4 DEF SetStock, Goto, Arrays
<1>6. /\ call[r].op = "count" /\ call[r].complete /\ todo[r] # <<>>
      /\ \A i \in DOMAIN todo[r] : todo[r][i] \in Count /\ Is(todo[r][i].item[2])
      /\ c.item[2] \in Locked(r) /\ product[r] = draft[r][c.item[2]]
  BY <1>1, <1>2, <1>5 DEF Mine, Course
<1>7. Grounded(r)'
  BY <1>1, <1>5, OwnGrounded
<1>8. /\ 1 \in DOMAIN todo[r] /\ c = todo[r][1] /\ rest \in Seq(Move \cup Count)
      /\ \A i \in DOMAIN rest : i + 1 \in DOMAIN todo[r] /\ rest[i] = todo[r][i + 1]
      /\ rest = <<>> <=> Len(todo[r]) = 1
      /\ Len(todo[r]) \in Nat /\ Len(todo[r]) > 0
  <2>1. todo[r] \in Seq(Move \cup Count) /\ todo[r] # <<>>
    BY <1>1, <1>6 DEF Mine, Types
  <2>2. Len(todo[r]) \in Nat /\ Len(todo[r]) > 0
    BY <2>1
  <2> QED
    BY <1>2, <1>3, <2>1, <2>2, TailOf
<1>9. PICK p \in Product : p = c.item[2]
  BY <1>6, <1>8, Names DEF Count
<1>10. draft[r][p] \in ProductRow /\ draft[r][p].shop >= 0 /\ draft[r][p].warehouse >= 0
  BY <1>1, <1>6, <1>9, SeenType, VersionOf DEF Mine, Drafts, Drafted, Seen
<1>11. c.qty \in Int /\ c.qty >= 0
  BY <1>5, <1>6, <1>8 DEF Count, NonNegative
<1>12. n \in Nat /\ w \in Nat
  BY <1>4, <1>6, <1>9, <1>10, <1>11 DEF CorrectedQty, ProductRow
<1>13. pc'[r] \in {"item", "complete"} /\ (pc'[r] = "item" => rest # <<>>)
  <2>1. Len(todo[r]) > 1 => Len(todo[r]) # 1
    <3>1. PICK k \in Nat : k = Len(todo[r])
      BY <1>8, Zenon
    <3> QED
      BY <3>1
  <2>2. rest = <<>> => Len(todo[r]) = 1
    BY <1>8, Zenon
  <2> QED
    BY <1>5, <2>1, <2>2, Zenon
<1>14. /\ Rows(draft'[r]) /\ Quiet(r)' /\ Drafts(r)' /\ Ledger(r)'
       /\ moved'[r] \in [Product -> Movement] /\ table' = table
  BY <1>5, <1>6, <1>9, <1>12, <1>13, StockOne DEF Outside
<1>15. Types(r)'
  BY <1>1, <1>5, <1>8, <1>13, <1>14 DEF Mine, Types, Statement
<1>16. \A i \in DOMAIN rest : rest[i] \in Count /\ Is(rest[i].item[2])
  BY <1>6, <1>8
<1>17. \A x \in ItemsOf(call[r].check)' : table'[x].actual # NoRow
  BY <1>1, <1>5, <1>14, StillCounted DEF Mine
<1>18. Course(r)'
  BY <1>5, <1>6, <1>7, <1>13, <1>14, <1>16, <1>17 DEF Course, Grounded, Is
<1>19. Unborn(r)'
  BY <1>5, <1>14, OwnUnborn
<1> QED
  BY <1>14, <1>15, <1>18, <1>19 DEF Mine

LEMMA CompleteCheckMine ==
  ASSUME Inv, NEW r \in Req, CompleteCheck(r)
  PROVE  Mine(r)'
<1>1. Mine(r) /\ RowsOK /\ Arrays /\ Act(r) /\ pc[r] = "complete" /\ call[r].op = "count"
      /\ call[r].complete /\ call[r] \in Body
  BY InvMine DEF Act, CheckStep, CompleteCheck, Mine, Course
<1>2. PICK c \in Id : c = call[r].check
  BY <1>1, BodyType DEF CountBody
<1>3. product' = product /\ moved' = moved /\ call' = call /\ todo' = todo /\ pc'[r] = "commit"
  BY <1>1 DEF CompleteCheck, goods, locals, Goto, Arrays
<1>4. Grounded(r)' /\ Grounded(r)
  BY <1>1, <1>3, OwnGrounded
<1>5. c \in Row /\ c \notin Product /\ c \notin Supplier /\ c \notin Item /\ c # r
  BY <1>1, <1>2, <1>4, VersionOf, Names, NamesAssumption DEF Grounded, Known
<1>6. /\ table' = table
      /\ Rows(draft'[r]) /\ Quiet(r)' /\ Drafts(r)' /\ Ledger(r)'
  <2>1. CASE Kind(c, "check") /\ table[c].status = "in_progress"
    <3>1. Seen(r, c) = table[c]
      BY <1>1, <1>2, <1>5 DEF Mine, Drafts, Drafted, Seen
    <3>2. table[c] \in PaperRow /\ table[c].kind = "check"
      BY <1>1, <1>2, <1>5, <2>1, VersionKind DEF RowsOK, Rows, Kind
    <3>3. PICK d \in CheckRow : d = table[c]
      BY <3>2 DEF PaperRow, OrderRow, PaymentRow, TransferRow
    <3>4. PICK v : v = [d EXCEPT !.status = "completed"]
      OBVIOUS
    <3>5. v \in CheckRow /\ v.kind = "check"
      BY <3>4 DEF CheckRow
    <3>6. Write(r, [y \in {c} |-> v])
      <4>1. [y \in {c} |-> v] = [y \in {c} |-> [Seen(r, y) EXCEPT !.status = "completed"]]
        BY <3>1, <3>3, <3>4
      <4> QED
        BY <1>2, <2>1, <4>1 DEF CompleteCheck
    <3>7. v \in Version(c) /\ v # NoRow
      BY <1>2, <3>5, VersionOf, Names DEF PaperRow
    <3>8. /\ table' = table
          /\ Locked(r)' = Locked(r) \cup {c}
          /\ draft'[r][c] = v
      BY <1>1, <1>5, <3>6, <3>7, WriteOne, ZenonT(60)
    <3>9. Drafted(r, c)'
      BY <1>1, <1>2, <1>3, <1>5, <2>1, <3>5, <3>7, <3>8 DEF Drafted, Kind
    <3>10. Rows(draft'[r]) /\ Quiet(r)' /\ Drafts(r)' /\ Ledger(r)'
      BY <1>1, <1>3, <1>5, <3>6, <3>7, <3>9, WriteKeeps, ZenonT(60) DEF Outside
    <3> QED
      BY <3>8, <3>10
  <2>2. CASE ~(Kind(c, "check") /\ table[c].status = "in_progress")
    <3>1. draft' = draft /\ table' = table
      BY <1>2, <2>2 DEF CompleteCheck, db
    <3> QED
      BY <1>1, <1>3, <3>1, NothingWritten DEF Outside
  <2> QED
    BY <2>1, <2>2
<1>7. Types(r)'
  BY <1>1, <1>3, <1>6 DEF Mine, Types, Statement
<1>8. \A x \in ItemsOf(call[r].check)' : table'[x].actual # NoRow
  BY <1>1, <1>3, <1>6, StillCounted DEF Mine
<1>9. Course(r)'
  BY <1>1, <1>3, <1>4, <1>8 DEF Course, Grounded
<1>10. Unborn(r)'
  BY <1>1, <1>3, <1>6, OwnUnborn
<1> QED
  BY <1>6, <1>7, <1>9, <1>10 DEF Mine

LEMMA OwnMine ==
  ASSUME Inv, NEW r \in Req, Act(r)
  PROVE  Mine(r)'
<1>1. CASE Refuse(r) /\ pc[r] # "idle"
  BY <1>1, RefuseMine
<1>2. CASE Receive(r) \/ ReceiveCheck(r)
  BY <1>2, ReceiveMine, ReceiveCheckMine
<1>3. CASE Fail(r)
  BY <1>1, <1>3 DEF Fail, InFlight
<1>4. CASE Step(r) /\ ~Refuse(r)
  BY <1>4, LockProductMine, MoveGoodsMine, InsertTransferMine, InsertOrderMine, UpdateDebtMine,
     PayOrderMine, InsertPaymentMine, CommitMine, CreateRowMine, ReadMine, PutProductMine, PoolMine
     DEF Step
<1>5. CASE CheckStep(r) /\ ~Refuse(r)
  BY <1>5, ListProductsMine, InsertHeaderMine, InsertItemsMine, CountItemMine, ReadItemsMine,
     LockCountedMine, SetStockMine, CompleteCheckMine DEF CheckStep
<1>6. Step(r) \/ CheckStep(r) => pc[r] # "idle"
  BY DEF Step, CheckStep, LockProduct, MoveGoods,
       InsertTransfer, InsertOrder, UpdateDebt, PayOrder, InsertPayment, CommitTx, CreateRow,
       GetProduct, PutProduct, GetSupplier, PutSupplier, SoftDelete, ListProducts, InsertHeader,
       InsertItems, CountItem, ReadItems, LockCounted, SetStock, CompleteCheck
<1> QED
  BY <1>1, <1>2, <1>3, <1>4, <1>5, <1>6 DEF Act

-----------------------------------------------------------------------------
(* The parts of the invariant that are about all the requests.             *)

LEMMA FiledRow ==
  ASSUME Inv, NEW r \in Req, NEW x, Filed(r, x)
  PROVE  /\ x \in Row /\ table'[x] \in Version(x) /\ table'[x] # NoRow
         /\ Natural(x, table'[x])
         /\ Drafted(r, x)
<1>1. x \in Locked(r) /\ table'[x] = draft[r][x] /\ Drafted(r, x) /\ RowsOK
  BY InvMine DEF Filed, Mine, Drafts
<1>2. x \in Row /\ draft[r][x] \in Version(x)
  BY <1>1 DEF RowsOK, Rows, Locked
<1> QED
  BY <1>1, <1>2 DEF Drafted, Natural

\* The table keeps its type, and its products are not below zero.
LEMMA TableType ==
  ASSUME Inv, NEW r \in Req, Act(r)
  PROVE  /\ Rows(table') /\ DOMAIN table' = Row
         /\ \A p \in Product : Kind(p, "product")' => table'[p].shop >= 0 /\ table'[p].warehouse >= 0
<1>1. RowsOK /\ Arrays
  BY InvMine
<1>2. table' = [x \in Row |-> table'[x]]
  <2>1. CASE CommitTx(r)
    BY <1>1, <2>1, CommitEffect DEF CommitTx
  <2>2. CASE CreateRow(r) \/ PutProduct(r) \/ PutSupplier(r) \/ SoftDelete(r) \/ InsertHeader(r)
    BY <1>1, <2>2 DEF CreateRow, PutProduct, PutSupplier, SoftDelete, InsertHeader, Autocommit,
                      Refuse, Rollback, RowsOK, Rows
  <2> QED
    BY <1>1, <2>1, <2>2, TableKept DEF RowsOK, Rows
<1>3. ASSUME NEW x \in Row
      PROVE  /\ table'[x] \in Version(x)
             /\ x \in Product /\ Kind(x, "product")' => table'[x].shop >= 0 /\ table'[x].warehouse >= 0
  <2>1. CASE table'[x] = table[x]
    BY <1>1, <2>1 DEF RowsOK, Rows, Inv, NoOversell, Kind
  <2>2. CASE Filed(r, x)
    BY <2>2, FiledRow DEF Natural
  <2>3. CASE Made(r, x)
    BY <2>3 DEF Made, Natural
  <2>4. CASE Headed(r, x)
    BY <2>4, VersionOf, Names DEF Headed, PaperRow
  <2>5. CASE Put(r, x)
    BY <2>5 DEF Put, Natural
  <2> QED
    BY <2>1, <2>2, <2>3, <2>4, <2>5, RowChange
<1> QED
  BY <1>2, <1>3, VersionOf DEF Rows

LEMMA TypeStep ==
  ASSUME Inv, NEW r \in Req, Act(r)
  PROVE  TypeOK'
<1>1. \A q \in Req : Mine(q)'
  BY OwnMine, OthersMine
<1>2. OwnChange(r)
  BY InvMine, StepIsLocal
<1>3. /\ draft' = [q \in Req |-> draft'[q]] /\ product' = [q \in Req |-> product'[q]]
      /\ moved' = [q \in Req |-> moved'[q]] /\ pc' = [q \in Req |-> pc'[q]]
      /\ call' = [q \in Req |-> call'[q]] /\ todo' = [q \in Req |-> todo'[q]]
  BY <1>2 DEF OwnChange, Changes
<1>4. \A q \in Req : Types(q)'
  BY <1>1 DEF Mine
<1>5. Rows(table') /\ DOMAIN table' = Row
  BY TableType
<1>6. /\ \A q \in Req : Rows(draft'[q])
      /\ product' \in [Req -> ProductRow \cup {NoRow}]
      /\ moved' \in [Req -> [Product -> Movement]]
      /\ pc' \in [Req -> Statement]
      /\ call' \in [Req -> Body \cup {NoCall}]
      /\ todo' \in [Req -> Seq(Move \cup Count)]
  BY <1>3, <1>4 DEF Types
<1> QED
  BY <1>3, <1>5, <1>6 DEF TypeOK, Rows

LEMMA NoOversellStep ==
  ASSUME Inv, NEW r \in Req, Act(r)
  PROVE  NoOversell'
<1>1. \A q \in Req : Drafts(q)'
  BY OwnMine, OthersMine DEF Mine
<1>2. \A q \in Req : \A p \in Locked(q)' \cap Product :
        draft'[q][p].shop >= 0 /\ draft'[q][p].warehouse >= 0
  BY <1>1 DEF Drafts, Drafted
<1> QED
  BY <1>2, TableType DEF NoOversell

(* A row that r has locked now and had not before was free.                *)
LEMMA NewLocks ==
  ASSUME Inv, NEW r \in Req, Act(r)
  PROVE  \A x \in Locked(r)' : x \in Locked(r) \/ Free(r, x)
<1>1. Arrays /\ RowsOK
  BY InvMine
<1>2. ASSUME NEW new, Write(r, new) PROVE \A x \in Locked(r)' : x \in Locked(r) \/ Free(r, x)
  <2>1. Locked(r)' = Locked(r) \cup DOMAIN new
    BY <1>1, <1>2, WriteEffect
  <2> QED
    BY <1>2, <2>1 DEF Write
<1>3. CASE draft' = draft \/ Refuse(r) \/ CommitTx(r)
  BY <1>1, <1>3, RollbackEffect, CommitEffect DEF Refuse, CommitTx, Locked
<1>4. CASE Receive(r) \/ ReceiveCheck(r) \/ Fail(r) \/ GetProduct(r) \/ GetSupplier(r)
           \/ ListProducts(r) \/ ReadItems(r) \/ InsertHeader(r) \/ CreateRow(r)
           \/ PutProduct(r) \/ PutSupplier(r) \/ SoftDelete(r)
  BY <1>3, <1>4 DEF Receive, ReceiveCheck, Fail, GetProduct, GetSupplier, ListProducts, ReadItems,
     InsertHeader, CreateRow, PutProduct, PutSupplier, SoftDelete, Autocommit, db
<1>5. CASE LockProduct(r) \/ LockCounted(r)
  BY <1>2, <1>3, <1>5 DEF LockProduct, LockCounted, GetByIDForUpdate, LockRow
<1>6. CASE MoveGoods(r) \/ SetStock(r)
  BY <1>2, <1>3, <1>6 DEF MoveGoods, SetStock, UpdateStock
<1>7. CASE InsertTransfer(r) \/ InsertOrder(r) \/ InsertPayment(r) \/ InsertItems(r)
  BY <1>2, <1>3, <1>7 DEF InsertTransfer, InsertOrder, InsertPayment, InsertItems
<1>8. CASE UpdateDebt(r) \/ PayOrder(r)
  BY <1>2, <1>3, <1>8 DEF UpdateDebt, PayOrder, db
<1>9. CASE CountItem(r) \/ CompleteCheck(r)
  BY <1>2, <1>3, <1>9 DEF CountItem, CompleteCheck, db
<1> QED
  BY <1>3, <1>4, <1>5, <1>6, <1>7, <1>8, <1>9 DEF Act, Step, CheckStep

LEMMA ExclusiveStep ==
  ASSUME Inv, NEW r \in Req, Act(r)
  PROVE  Exclusive'
<1>1. \A q \in Req \ {r} : Locked(q)' = Locked(q)
  BY InvMine, StepIsLocal DEF OwnChange, Changes, Locked
<1>2. \A x \in Locked(r)' : \A q \in Req \ {r} : x \notin Locked(q)
  BY NewLocks DEF Free, Inv, Exclusive
<1> QED
  BY <1>1, <1>2 DEF Inv, Exclusive

LEMMA DistinctStep ==
  ASSUME Inv, NEW r \in Req, Act(r)
  PROVE  Distinct'
<1>1. \A q \in Req \ {r} : call'[q] = call[q]
  BY InvMine, StepIsLocal DEF OwnChange, Changes
<1>2. CASE call'[r] = call[r]
  BY <1>1, <1>2 DEF Inv, Distinct
<1>3. CASE Receive(r)
  <2>1. PICK b : call' = [call EXCEPT ![r] = b] /\ Nameable(b)
    BY <1>3 DEF Receive
  <2>2. call'[r] = b
    BY <2>1, InvMine DEF Arrays
  <2> QED
    BY <1>1, <2>1, <2>2 DEF Inv, Distinct, Nameable
<1>4. CASE ReceiveCheck(r)
  <2>1. PICK b \in CheckBody \cup CountBody : call' = [call EXCEPT ![r] = b]
    BY <1>4 DEF ReceiveCheck
  <2>2. call'[r].op # "create"
    BY <2>1, InvMine DEF Arrays, CheckBody, CountBody
  <2> QED
    BY <1>1, <2>2 DEF Inv, Distinct
<1>5. CASE ~Receive(r) /\ ~ReceiveCheck(r)
  <2>1. call' = call
    BY <1>5 DEF Act, Step, CheckStep, Fail, Refuse, Leave, locals, LockProduct, MoveGoods,
       InsertTransfer, InsertOrder, UpdateDebt, PayOrder, InsertPayment, CommitTx, CreateRow,
       GetProduct, PutProduct, GetSupplier, PutSupplier, SoftDelete, ListProducts, InsertHeader,
       InsertItems, CountItem, ReadItems, LockCounted, SetStock, CompleteCheck
  <2> QED
    BY <1>2, <2>1
<1> QED
  BY <1>2, <1>3, <1>4, <1>5

LEMMA ItemsStep ==
  ASSUME Inv, NEW r \in Req, Act(r)
  PROVE  Items'
<1>1. Mine(r) /\ Items /\ RowsOK /\ Arrays
  BY InvMine DEF Inv
<1>2. \A x \in Row : Is(x) => Is(x)'
  BY RowsStay DEF Is
<1>3. ASSUME NEW x \in Item, Is(x)'
      PROVE  Kind(x[1], "check")' /\ Is(x[2])' /\ Known(x[1])'
  <2>1. x \in Row /\ x \notin Id /\ x[1] \in Id /\ x[1] \in Row /\ x[2] \in Row
        /\ x \notin Product \cup Supplier
    BY VersionOf, Names
  <2>2. CASE Is(x)
    <3>1. Kind(x[1], "check") /\ Is(x[2]) /\ Known(x[1])
      BY <1>1, <2>2 DEF Items
    <3>2. Known(x[1])' /\ Is(x[2])'
      BY <1>2, <2>1, <3>1, KnownStays
    <3> QED
      BY <2>1, <3>1, <3>2, RowsStay DEF Kind, Is
  <2>3. CASE ~Is(x)
    <3>1. Filed(r, x)
      BY <1>3, <2>1, <2>3, RowChange, VersionOf DEF Made, Headed, Put, Is
    <3>2. call[r].op = "check" /\ pc[r] = "commit" /\ x[1] = r /\ Is(x[2]) /\ pc'[r] = "ok"
      BY <2>3, <3>1, FiledRow DEF Drafted, Filed
    <3>3. Kind(x[1], "check")
      BY <1>1, <3>2 DEF Mine, Course
    <3>4. Is(x[2])' /\ Known(x[1])'
      BY <1>2, <2>1, <3>2 DEF Known
    <3> QED
      BY <2>1, <3>3, <3>4, RowsStay DEF Kind, Is
  <2> QED
    BY <2>2, <2>3
<1>4. ASSUME NEW c \in Id, Kind(c, "check")', table'[c].status = "completed"
      PROVE  Known(c)'
  <2>1. c \in Row /\ c \notin Product \cup Supplier /\ c \notin Item
    BY VersionOf, Names
  <2>2. Known(c)
    <3>1. CASE table'[c] = table[c]
      BY <1>1, <1>4, <3>1 DEF Items, Kind
    <3>2. CASE Filed(r, c)
      <4>1. c = call[r].check /\ call[r].op = "count" /\ pc[r] = "commit"
        BY <1>4, <2>1, <3>2, FiledRow DEF Drafted, Filed, Kind
      <4> QED
        BY <1>1, <4>1 DEF Mine, Course
    <3>3. ~Headed(r, c) /\ ~Made(r, c) /\ ~Put(r, c)
      BY <1>4, <2>1 DEF Headed, Made, Put
    <3> QED
      BY <2>1, <3>1, <3>2, <3>3, RowChange
  <2> QED
    BY <2>2, KnownStays
<1> QED
  BY <1>3, <1>4 DEF Items

LEMMA CountedStep ==
  ASSUME Inv, NEW r \in Req, Act(r)
  PROVE  CompletedIsCounted'
<1> SUFFICES ASSUME NEW c \in Id, Kind(c, "check")', table'[c].status = "completed"
             PROVE  \A x \in ItemsOf(c)' : table'[x].actual # NoRow
  BY DEF CompletedIsCounted
<1>1. Mine(r) /\ Items
  BY InvMine DEF Inv
<1>2. c \in Row /\ c \notin Product \cup Supplier /\ c \notin Item
  BY VersionOf, Names
<1>3. Known(c) /\ \A x \in ItemsOf(c) : table[x].actual # NoRow
  <2>1. CASE table'[c] = table[c]
    BY <1>1, <2>1 DEF Items, Kind, Inv, CompletedIsCounted
  <2>2. CASE Filed(r, c)
    <3>1. c = call[r].check /\ call[r].op = "count" /\ call[r].complete /\ pc[r] = "commit"
      BY <1>2, <2>2, FiledRow DEF Drafted, Filed, Kind
    <3> QED
      BY <1>1, <3>1 DEF Mine, Course
  <2>3. ~Headed(r, c) /\ ~Made(r, c) /\ ~Put(r, c)
    BY <1>2 DEF Headed, Made, Put
  <2> QED
    BY <1>2, <2>1, <2>2, <2>3, RowChange
<1> QED
  BY <1>3, KnownStays, CountsKept

-----------------------------------------------------------------------------
(* The invariant.                                                          *)

LEMMA InvInit == Init => Inv
<1> SUFFICES ASSUME Init PROVE Inv
  OBVIOUS
<1>1. table = InitRow /\ Rows(table) /\ DOMAIN table = Row
  BY InitRowAssumption DEF Init
<1>2. \A r \in Req : /\ draft[r] = NoDraft /\ product[r] = NoRow /\ moved[r] = Still
                     /\ pc[r] = "idle" /\ call[r] = NoCall /\ todo[r] = <<>>
  BY DEF Init
<1>3. Rows(NoDraft) /\ \A r \in Req : Locked(r) = {}
  BY <1>2 DEF Rows, NoDraft, Locked
<1>4. Still \in [Product -> Movement]
  BY DEF Still, Movement
<1>5. TypeOK
  BY <1>1, <1>2, <1>3, <1>4 DEF TypeOK, Init, Statement
<1>6. \A p \in Product : Kind(p, "product") => table[p].shop >= 0 /\ table[p].warehouse >= 0
  BY <1>1, InitRowAssumption DEF Kind
<1>7. NoOversell /\ Exclusive
  BY <1>3, <1>6 DEF NoOversell, Exclusive
<1>8. Distinct
  BY <1>2 DEF Distinct, NoCall
<1>9. ASSUME NEW c \in Id, Is(c) PROVE c \in Past
  BY <1>1, <1>9, InitRowAssumption DEF Is, Id
<1>10. Items
  <2>1. ASSUME NEW x \in Item, Is(x) PROVE Kind(x[1], "check") /\ Is(x[2]) /\ Known(x[1])
    BY <1>1, <1>9, <2>1, InitRowAssumption, Names DEF Is, Known, Kind
  <2>2. \A c \in Id : Kind(c, "check") /\ table[c].status = "completed" => Known(c)
    BY <1>9 DEF Kind, Known, Is
  <2> QED
    BY <2>1, <2>2 DEF Items
<1>11. CompletedIsCounted
  BY <1>1, CompletedAssumption DEF CompletedIsCounted, ItemsOf, Kind
<1>12. ASSUME NEW r \in Req PROVE Course(r) /\ Unborn(r) /\ Quiet(r) /\ Drafts(r) /\ Ledger(r)
  <2>1. ~Is(r)
    BY <1>1, InitRowAssumption DEF Is
  <2>2. Course(r)
    BY <1>2 DEF Course
  <2>3. Unborn(r) /\ Quiet(r) /\ Drafts(r) /\ Ledger(r)
    BY <1>2, <1>3, <2>1 DEF Unborn, Quiet, Drafts, Ledger, Still
  <2> QED
    BY <2>2, <2>3
<1> QED
  BY <1>5, <1>7, <1>8, <1>10, <1>11, <1>12 DEF Inv

LEMMA InvStep == Inv /\ [CheckNext]_vars => Inv'
<1> SUFFICES ASSUME Inv, [CheckNext]_vars PROVE Inv'
  OBVIOUS
<1>1. CASE UNCHANGED vars
  <2>1. /\ table' = table /\ draft' = draft /\ product' = product /\ moved' = moved /\ pc' = pc
        /\ call' = call /\ todo' = todo
    BY <1>1 DEF vars, locals
  <2>2. TypeOK' /\ Exclusive' /\ Distinct' /\ NoOversell'
    BY <2>1 DEF Inv, TypeOK, Rows, Exclusive, Distinct, NoOversell, Locked, Kind
  <2>3. Items' /\ CompletedIsCounted'
    BY <2>1 DEF Inv, Items, CompletedIsCounted, ItemsOf, Kind, Is, Known
  <2>4. ASSUME NEW r \in Req PROVE Course(r)'
    <3>1. Course(r)
      BY DEF Inv
    <3> QED
      BY <2>1, <3>1 DEF Course, Is, Kind, Known, Locked, ItemsOf
  <2>5. ASSUME NEW r \in Req PROVE Unborn(r)' /\ Quiet(r)' /\ Drafts(r)' /\ Ledger(r)'
    <3>1. Unborn(r) /\ Quiet(r) /\ Drafts(r) /\ Ledger(r)
      BY DEF Inv
    <3> QED
      BY <2>1, <3>1 DEF Unborn, Quiet, Drafts, Drafted, Ledger, Is, Kind, Locked
  <2> QED
    BY <2>2, <2>3, <2>4, <2>5 DEF Inv
<1>2. ASSUME NEW r \in Req, Act(r) PROVE Inv'
  <2>1. \A q \in Req : Mine(q)'
    BY <1>2, OwnMine, OthersMine
  <2> QED
    BY <1>2, <2>1, TypeStep, ExclusiveStep, DistinctStep, NoOversellStep, ItemsStep, CountedStep
       DEF Inv, Mine
<1> QED
  BY <1>1, <1>2 DEF CheckNext, Act

(* The invariant holds in every reachable state.                           *)
THEOREM Invariance == CheckSpec => []Inv
BY InvInit, InvStep, PTL DEF CheckSpec

(* Supply alone, without the checks, does nothing that CheckSpec does not  *)
(* allow: what follows holds for it as well.                               *)
THEOREM SupplyIsCovered == Spec => CheckSpec
<1>1. [Next]_vars => [CheckNext]_vars
  BY DEF Next, CheckNext
<1> QED
  BY <1>1, PTL DEF Spec, CheckSpec

(* Whatever the requests are and in whatever order they work: every row,   *)
(* committed or in a draft, and every local of a handler has the type the  *)
(* schema and the Go declarations give it.                                 *)
THEOREM TypeCorrect == CheckSpec => []TypeOK
<1>1. Inv => TypeOK
  BY DEF Inv
<1> QED
  BY <1>1, Invariance, PTL

(* No row is ever locked by two open transactions of the goods services.   *)
THEOREM LocksExclusive == CheckSpec => []Exclusive
<1>1. Inv => Exclusive
  BY DEF Inv
<1> QED
  BY <1>1, Invariance, PTL

(* For any number of requests, products and checks: no quantity goes below *)
(* zero, committed or in a draft, although transfers and returns compare   *)
(* it one product at a time, an update writes back what it read before and *)
(* a check sets what was counted.                                          *)
THEOREM NeverOversold == CheckSpec => []NoOversell
<1>1. Inv => NoOversell
  BY DEF Inv
<1> QED
  BY <1>1, Invariance, PTL

(* Every item of a completed check is counted, although Update reads the   *)
(* items on the pool, outside the transaction that completes the check: no *)
(* item joins a check after it is known, and a count is never taken away.  *)
THEOREM CompletedStaysCounted == CheckSpec => []CompletedIsCounted
<1>1. Inv => CompletedIsCounted
  BY DEF Inv
<1> QED
  BY <1>1, Invariance, PTL

-----------------------------------------------------------------------------
(* Deletions.                                                              *)

LEMMA DeletedStays ==
  ASSUME Inv, NEW r \in Req, Act(r), NEW x \in Product \cup Supplier, Is(x), ~table[x].live
  PROVE  table'[x] = table[x]
<1>1. x \in Row /\ x \notin Id
  BY VersionOf, Names
<1>2. ~Filed(r, x)
  BY FiledRow DEF Drafted
<1>3. ~Made(r, x) /\ ~Headed(r, x) /\ ~Put(r, x)
  BY <1>1, VersionOf DEF Made, Headed, Put
<1> QED
  BY <1>1, <1>2, <1>3, RowChange

(* A deleted product or supplier never changes again, not even by a        *)
(* transaction that had locked it or an update that had read it before.    *)
THEOREM DeletionIsFinal == CheckSpec => DeletedIsFinal
<1>1. Inv /\ [CheckNext]_vars =>
        [\A x \in Product \cup Supplier :
           (table[x] # NoRow /\ ~table[x].live) => table'[x] = table[x]]_vars
  BY DeletedStays DEF CheckNext, Act, Is
<1> QED
  BY <1>1, Invariance, PTL DEF CheckSpec, DeletedIsFinal

-----------------------------------------------------------------------------
(* Supply and InventoryChecks implement Stock.                             *)

Shown == [p \in Product |-> InStock(table[p])]
Done == [r \in Req |-> IF pc[r] = "ok" THEN moved[r] ELSE Still]

LEMMA NothingMoved ==
  ASSUME Inv, NEW r \in Req, pc[r] \in Outside \ {"ok"}, NEW p \in Product
  PROVE  moved[r][p] = [shop |-> 0, warehouse |-> 0]
BY InvMine DEF Mine, Quiet, Ledger, Locked, NoDraft

LEMMA InStockType ==
  ASSUME Inv, NEW p \in Product
  PROVE  /\ table[p] = NoRow \/ table[p] \in ProductRow
         /\ InStock(table[p]).shop \in Nat /\ InStock(table[p]).warehouse \in Nat
         /\ InStock(table[p]) \in Goods!Quantity
<1>1. table[p] = NoRow \/ (table[p] \in ProductRow /\ table[p].kind = "product")
  BY InvMine, VersionOf DEF Inv, TypeOK, Rows, ProductRow
<1>2. CASE table[p] = NoRow
  BY <1>2 DEF InStock, Goods!Quantity
<1>3. CASE table[p] \in ProductRow /\ table[p] # NoRow
  <2>1. table[p].shop \in Nat /\ table[p].warehouse \in Nat
    BY <1>1, <1>3 DEF Inv, NoOversell, Kind, ProductRow
  <2> QED
    BY <1>3, <2>1 DEF InStock, Goods!Quantity
<1> QED
  BY <1>1, <1>2, <1>3

LEMMA NextInStock ==
  ASSUME Inv, NEW r \in Req, Act(r), NEW p \in Product
  PROVE  InStock(table'[p]) \in Goods!Quantity
<1>1. table'[p] \in Version(p) /\ Version(p) = {NoRow} \cup ProductRow
  BY TableType, VersionOf DEF Rows
<1>2. CASE table'[p] = NoRow
  BY <1>2 DEF InStock, Goods!Quantity
<1>3. CASE table'[p] \in ProductRow /\ table'[p] # NoRow
  <2>1. table'[p].shop \in Nat /\ table'[p].warehouse \in Nat
    BY <1>3, TableType DEF Kind, ProductRow
  <2> QED
    BY <1>3, <2>1 DEF InStock, Goods!Quantity
<1> QED
  BY <1>1, <1>2, <1>3

(* What a request leaves when it answers is what it has moved.             *)
LEMMA MovedAtOnce ==
  ASSUME Inv, NEW r \in Req, Act(r), NEW p \in Product
  PROVE  IF pc'[r] = "ok" THEN Moves(InStock(table[p]), moved'[r][p], InStock(table'[p]))
         ELSE InStock(table'[p]) = InStock(table[p])
<1>1. RowsOK /\ Arrays /\ Mine(r) /\ p \in Row /\ p \notin Id
  BY InvMine, VersionOf, Names
<1>2. /\ table[p] = NoRow \/ table[p] \in ProductRow
      /\ InStock(table[p]).shop \in Nat /\ InStock(table[p]).warehouse \in Nat
  BY InStockType
<1>3. CASE CommitTx(r)
  <2>1. /\ table'[p] = Seen(r, p) /\ pc'[r] = "ok" /\ moved' = moved /\ pc[r] = "commit"
    BY <1>1, <1>3, CommitEffect DEF CommitTx, Leave, Goto, Arrays
  <2>2. CASE p \in Locked(r)
    <3>1. /\ Moves(table[p], moved[r][p], draft[r][p]) /\ table[p] # NoRow
          /\ draft[r][p] # NoRow
      BY <1>1, <2>2 DEF Mine, Ledger, Drafts, Drafted, Is
    <3> QED
      BY <2>1, <2>2, <3>1 DEF Moves, InStock, Seen
  <2>3. CASE p \notin Locked(r)
    <3>1. moved[r][p] = [shop |-> 0, warehouse |-> 0] /\ table'[p] = table[p]
      BY <1>1, <2>1, <2>3 DEF Mine, Ledger, Seen
    <3> QED
      BY <1>2, <2>1, <3>1 DEF Moves
  <2> QED
    BY <2>2, <2>3
<1>4. CASE CreateRow(r)
  <2>1. /\ pc[r] = "create" /\ pc'[r] = "ok" /\ call[r].op = "create" /\ ~Is(call[r].name)
        /\ table' = [table EXCEPT ![call[r].name] = call[r].row]
    BY <1>1, <1>4 DEF CreateRow, Autocommit, Leave, Goto, Arrays, Mine, Course
  <2>2. moved[r][p] = [shop |-> 0, warehouse |-> 0] /\ moved[r] \in [Product -> Movement]
    BY <1>1, <2>1, NothingMoved DEF Outside, Mine, Types
  <2>3. CASE p = call[r].name
    <3>1. table[p] = NoRow /\ table'[p] = call[r].row
      BY <1>1, <2>1, <2>3 DEF RowsOK, Rows, Is
    <3>2. call[r].row \in ProductRow /\ call[r].row # NoRow
      BY <1>1, <2>1, <2>3, NamedRows, VersionOf DEF Mine
    <3>3. PICK m : m = [shop |-> call[r].row.shop, warehouse |-> call[r].row.warehouse]
      OBVIOUS
    <3>4. moved' = [moved EXCEPT ![r][p] = m]
      BY <1>4, <2>3, <3>3 DEF CreateRow
    <3>5. moved'[r] = [moved[r] EXCEPT ![p] = m]
      BY <1>1, <3>4 DEF Arrays
    <3>6. moved'[r][p] = m
      BY <2>2, <3>5
    <3> QED
      BY <2>1, <3>1, <3>2, <3>3, <3>6 DEF Moves, InStock, ProductRow
  <2>4. CASE p # call[r].name
    <3>1. table'[p] = table[p]
      BY <1>1, <2>1, <2>4 DEF RowsOK, Rows
    <3>2. moved'[r][p] = moved[r][p]
      <4>1. CASE call[r].name \in Product
        <5>1. PICK m : m = [shop |-> call[r].row.shop, warehouse |-> call[r].row.warehouse]
          OBVIOUS
        <5>2. moved' = [moved EXCEPT ![r][call[r].name] = m]
          BY <1>4, <4>1, <5>1 DEF CreateRow
        <5>3. moved'[r] = [moved[r] EXCEPT ![call[r].name] = m]
          BY <1>1, <5>2 DEF Arrays
        <5> QED
          BY <2>2, <2>4, <5>3
      <4>2. CASE call[r].name \notin Product
        BY <1>4, <4>2 DEF CreateRow
      <4> QED
        BY <4>1, <4>2
    <3> QED
      BY <1>2, <2>1, <2>2, <3>1, <3>2 DEF Moves
  <2> QED
    BY <2>3, <2>4
<1>5. CASE PutProduct(r) /\ ~Refuse(r)
  <2>1. /\ pc[r] = "put" /\ pc'[r] = "ok" /\ call[r].op = "update"
        /\ table' = [table EXCEPT ![call[r].product] = Updated(r)]
    BY <1>1, <1>5 DEF PutProduct, Autocommit, Leave, Goto, Arrays, Mine, Course
  <2>2. moved[r][p] = [shop |-> 0, warehouse |-> 0] /\ moved[r] \in [Product -> Movement]
    BY <1>1, <2>1, NothingMoved DEF Outside, Mine, Types
  <2>3. PICK x \in Product : x = call[r].product /\ Is(x)
    BY <1>1, <2>1, NamedRows DEF Mine
  <2>4. PICK m : m = [shop |-> Updated(r).shop - table[x].shop,
                      warehouse |-> Updated(r).warehouse - table[x].warehouse]
    OBVIOUS
  <2>5. moved' = [moved EXCEPT ![r][x] = m]
    BY <1>5, <2>3, <2>4 DEF PutProduct
  <2>6. moved'[r] = [moved[r] EXCEPT ![x] = m]
    BY <1>1, <2>5 DEF Arrays
  <2>7. CASE p = x
    <3>1. table'[p] = Updated(r) /\ moved'[r][p] = m /\ table[p] \in ProductRow /\ table[p] # NoRow
      BY <1>1, <1>2, <2>1, <2>2, <2>3, <2>6, <2>7 DEF RowsOK, Rows, Is
    <3>2. table'[p] # NoRow
      BY <1>1, <2>3, <2>7, RowsStay
    <3>3. table'[p] \in ProductRow
      <4>1. table'[p] \in Version(p)
        BY <1>1, TableType DEF Rows
      <4> QED
        BY <3>2, <4>1, VersionOf
    <3> QED
      BY <2>1, <2>4, <2>7, <3>1, <3>2, <3>3 DEF Moves, InStock, ProductRow
  <2>8. CASE p # x
    BY <1>1, <1>2, <2>1, <2>2, <2>3, <2>6, <2>8 DEF Moves, RowsOK, Rows
  <2> QED
    BY <2>7, <2>8
<1>6. CASE (PutSupplier(r) \/ SoftDelete(r)) /\ ~Refuse(r)
  <2>1. /\ pc[r] \in {"rename", "delete"} /\ pc'[r] = "ok" /\ moved' = moved
    BY <1>1, <1>6 DEF PutSupplier, SoftDelete, Leave, Goto, Arrays
  <2>2. moved[r][p] = [shop |-> 0, warehouse |-> 0]
    BY <2>1, NothingMoved DEF Outside
  <2>3. InStock(table'[p]) = InStock(table[p])
    <3>1. CASE table'[p] = table[p]
      BY <3>1
    <3>2. CASE table'[p] # table[p]
      <4>1. /\ pc[r] = "delete"
            /\ table' = [table EXCEPT ![call[r].row] = [table[call[r].row] EXCEPT !.live = FALSE]]
        <5>1. CASE PutSupplier(r)
          BY <1>1, <1>6, <3>2, <5>1 DEF PutSupplier, Autocommit, RowsOK, Rows
        <5>2. CASE SoftDelete(r)
          BY <1>6, <5>2 DEF SoftDelete, Autocommit
        <5> QED
          BY <1>6, <5>1, <5>2
      <4>2. p = call[r].row /\ table'[p] = [table[p] EXCEPT !.live = FALSE]
        BY <1>1, <3>2, <4>1 DEF RowsOK, Rows
      <4>3. table[p] # NoRow
        BY <1>1, <4>1, <4>2, NamedRows DEF Mine, Course, Is
      <4>4. table'[p] # NoRow
        BY <1>1, <4>3, RowsStay DEF Is
      <4>5. table[p] \in ProductRow
        BY <1>2, <4>3
      <4> QED
        BY <4>2, <4>3, <4>4, <4>5 DEF InStock, ProductRow
    <3> QED
      BY <3>1, <3>2
  <2> QED
    BY <1>2, <2>1, <2>2, <2>3 DEF Moves
<1>7. CASE InsertHeader(r)
  <2>1. pc'[r] = "items" /\ p # r
    BY <1>1, <1>7, VersionOf DEF InsertHeader, Goto, Arrays
  <2>2. table'[p] = table[p]
    BY <1>1, <1>7, <2>1 DEF InsertHeader, Autocommit, RowsOK, Rows
  <2> QED
    BY <2>1, <2>2
<1>8. CASE /\ ~CommitTx(r) /\ ~CreateRow(r) /\ ~(PutProduct(r) /\ ~Refuse(r))
           /\ ~((PutSupplier(r) \/ SoftDelete(r)) /\ ~Refuse(r)) /\ ~InsertHeader(r)
  <2>1. table' = table
    BY <1>8, TableKept DEF Refuse, Rollback
  <2>2. CASE Refuse(r)
    BY <1>1, <2>1, <2>2 DEF Refuse, Leave, Goto, Arrays
  <2>3. CASE ~Refuse(r)
    <3>1. pc'[r] # "ok"
      BY <1>1, <1>8, <2>3 DEF Act, Step, CheckStep, Receive, ReceiveCheck, Fail, LockProduct,
         MoveGoods, InsertTransfer, InsertOrder, UpdateDebt, PayOrder, InsertPayment,
         GetProduct, GetSupplier, ListProducts, InsertItems, CountItem, ReadItems, LockCounted,
         SetStock, CompleteCheck, Goto, Arrays, AfterMoves, AfterCounts
    <3> QED
      BY <2>1, <3>1
  <2> QED
    BY <2>2, <2>3
<1> QED
  BY <1>3, <1>4, <1>5, <1>6, <1>7, <1>8

(* The goods services implement Stock: each request's goods move at one    *)
(* instant, by exactly what its statements computed, or not at all.        *)
THEOREM MovesAreAtomic == CheckSpec => MovesAtomically
<1>1. Init => Goods!Init
  <2> SUFFICES ASSUME Init PROVE Goods!Init
    OBVIOUS
  <2>1. Inv
    BY InvInit
  <2>2. Shown \in [Product -> Goods!Quantity]
    BY <2>1, InStockType DEF Shown
  <2>3. Done = [r \in Req |-> Goods!Still]
    BY DEF Done, Init, Still, Goods!Still
  <2> QED
    BY <2>2, <2>3 DEF Goods!Init, Shown, Done
<1>2. Inv /\ [CheckNext]_vars => [Goods!Next]_<<Shown, Done>>
  <2> SUFFICES ASSUME Inv, [CheckNext]_vars PROVE [Goods!Next]_<<Shown, Done>>
    OBVIOUS
  <2>1. CASE UNCHANGED vars
    BY <2>1 DEF vars, Shown, Done
  <2>2. ASSUME NEW r \in Req, Act(r) PROVE [Goods!Next]_<<Shown, Done>>
    <3>1. \A q \in Req \ {r} : Done'[q] = Done[q]
      BY <2>2, InvMine, StepIsLocal DEF OwnChange, Changes, Done
    <3>2. Done[r] = Still
      BY <2>2, Running DEF Done
    <3>3. CASE pc'[r] = "ok"
      <4>1. Done'[r] = moved'[r]
        BY <3>3 DEF Done
      <4>2. \A p \in Product : InStock(table'[p]) \in Goods!Quantity
        BY <2>2, NextInStock
      <4>3. \A p \in Product : Moves(Shown[p], Done'[r][p], Shown'[p]) /\ Shown'[p] \in Goods!Quantity
        BY <2>2, <3>3, <4>1, <4>2, MovedAtOnce DEF Shown
      <4>4. Goods!Move(r)
        BY <3>1, <3>2, <4>3 DEF Goods!Move, Goods!Still, Still, Moves, Shown, Done
      <4> QED
        BY <4>4 DEF Goods!Next
    <3>4. CASE pc'[r] # "ok"
      <4>1. Shown' = Shown
        BY <2>2, <3>4, MovedAtOnce DEF Shown
      <4>2. Done' = Done
        BY <3>1, <3>2, <3>4 DEF Done
      <4> QED
        BY <4>1, <4>2
    <3> QED
      BY <3>3, <3>4
  <2> QED
    BY <2>1, <2>2 DEF CheckNext, Act
<1> QED
  BY <1>1, <1>2, Invariance, PTL DEF CheckSpec, MovesAtomically, Goods!Spec, Shown, Done

-----------------------------------------------------------------------------
(***************************************************************************)
(* The accounts. On top of Inv, Papers says what a transaction has written *)
(* into its own row and into the order or the check it works for, Credit   *)
(* what it has written into its supplier, Carried what of its movements it *)
(* has made; Foreign and Found say that what a paper names, and what the   *)
(* requests found, is there.                                               *)
(***************************************************************************)
\* The row that a transfer, an order or a payment inserts.
Paper(b) ==
  CASE b.op = "transfer" -> [kind |-> "transfer", moves |-> b.moves]
    [] b.op = "order" ->
         [kind |-> "order", supplier |-> b.supplier, moves |-> b.moves,
          total |-> Round(b.total), paid |-> Round(b.paid), booked |-> Round(b.paid),
          status |-> Status(b.paid, b.total)]
    [] b.op = "payment" ->
         [kind |-> "payment", supplier |-> b.supplier, order |-> b.order, moves |-> b.moves,
          amount |-> Round(AmountOf(b)),
          booked |-> IF b.moves = <<>> THEN Round(b.amount) ELSE 0]

Papers(r) ==
  LET b == call[r] IN
  /\ r \in Locked(r) => draft[r][r] = Paper(b)
  /\ pc[r] = "commit" /\ b.op \in Moving => r \in Locked(r)
  /\ b.op = "payment" =>
       /\ b.order \in Locked(r) =>
            /\ pc[r] \in {"pay", "commit"}
            /\ draft[r][b.order] = PaidOrder(table[b.order], AmountOf(b))
       /\ pc[r] \in {"pay", "commit"} /\ b.order # NoRow /\ Kind(b.order, "order") =>
            b.order \in Locked(r)
       /\ pc[r] = "commit" /\ b.order # NoRow => Kind(b.order, "order")
  /\ b.op = "count" /\ b.check \in Locked(r) =>
       draft[r][b.check] = [table[b.check] EXCEPT !.status = "completed"]

Credited(r) ==
  \/ call[r].op = "payment" /\ pc[r] \in {"paid", "pay", "commit"}
  \/ call[r].op = "order" /\ call[r].paid # call[r].total /\ pc[r] = "commit"

Credit(r) ==
  /\ \A s \in Locked(r) \cap Supplier :
       /\ s = call[r].supplier /\ Credited(r)
       /\ draft[r][s] = [table[s] EXCEPT !.debt = Plus(@, DebtDelta(r))]
  /\ pc[r] = "debt" /\ call[r].op = "order" => r \in Locked(r) /\ call[r].paid # call[r].total
  /\ Credited(r) /\ table[call[r].supplier].live => call[r].supplier \in Locked(r)

\* What r has still to move to or from a place.
ToMove(r, p, place) == IF pc[r] \in {"lock", "move"} THEN MovedBy(todo[r], p, place) ELSE 0

Carried(r) ==
  LET b == call[r] IN
  /\ pc[r] \in {"item", "set"} => \A i \in DOMAIN todo[r] : todo[r][i].item \in ItemsOf(b.check)
  /\ pc[r] \notin {"failed", "ok"} => \A p \in Product : \A place \in Place :
       CASE b.op \in Moving ->
              MovedBy(b.moves, p, place) = moved[r][p][place] + ToMove(r, p, place)
         [] b.op = "count" ->
              moved[r][p][place] # 0 =>
                /\ b.complete /\ place = table[b.check].location
                /\ \E x \in ItemsOf(b.check) : x[2] = p
         [] OTHER -> moved[r][p][place] = 0

\* What row v names is there in t.
Cites(t, v) ==
  /\ \A i \in DOMAIN v.moves : t[v.moves[i].product] # NoRow
  /\ v.kind \in {"order", "payment"} => t[v.supplier] # NoRow
  /\ v.kind = "payment" /\ v.order # NoRow => t[v.order] # NoRow /\ t[v.order].kind = "order"

Foreign == \A x \in MadeBy(table, {"order", "payment", "transfer"}) : Cites(table, table[x])

Found ==
  /\ \A x \in Row : InitRow[x] # NoRow => Is(x)
  /\ \A p \in Product : Is(p) /\ InitRow[p] = NoRow =>
       \E r \in Req : call[r].op = "create" /\ call[r].name = p

Accounts ==
  /\ Foreign
  /\ Found
  /\ PaidReconciles
  /\ DebtReconciles
  /\ StockReconciles
  /\ \A r \in Req : Papers(r) /\ Credit(r) /\ Carried(r)

-----------------------------------------------------------------------------
(* The sums over the papers, term by term.                                 *)

\* What one row adds to what is owed to s, to what is paid for o, and to what
\* has come to a place of p.
OwedBy(v, s) ==
  IF v = NoRow THEN 0
  ELSE IF v.kind \notin {"order", "payment"} THEN 0
  ELSE IF v.supplier # s THEN 0
  ELSE IF v.kind = "order" THEN v.total - v.booked ELSE -v.amount

PaidBy(v, o) ==
  IF v = NoRow THEN 0
  ELSE IF v.kind # "payment" THEN 0
  ELSE IF v.order # o THEN 0 ELSE v.amount

BroughtBy(v, p, place) ==
  IF v = NoRow THEN 0
  ELSE IF v.kind \notin {"order", "payment", "transfer"} THEN 0 ELSE MovedBy(v.moves, p, place)

\* Both rows add the same.
Alike(v, w) ==
  /\ \A s \in Supplier : OwedBy(v, s) = OwedBy(w, s)
  /\ \A o \in Id : PaidBy(v, o) = PaidBy(w, o)
  /\ \A p \in Product : \A place \in Place : BroughtBy(v, p, place) = BroughtBy(w, p, place)

Versioned(t) == \A x \in Id : t[x] \in {NoRow} \cup PaperRow

LEMMA SumTerms ==
  ASSUME NEW t
  PROVE  /\ \A s : OwedIn(t, s) = SumFunction([x \in Id |-> OwedBy(t[x], s)])
         /\ \A o : PaidFor(t, o) = SumFunction([x \in Id |-> PaidBy(t[x], o)])
         /\ \A p, place : MovedIn(t, p, place) =
                            SumFunction([x \in Id |-> BroughtBy(t[x], p, place)])
<1>1. ASSUME NEW s PROVE OwedIn(t, s) = SumFunction([x \in Id |-> OwedBy(t[x], s)])
  <2> DEFINE f == [x \in Id |-> OwedBy(t[x], s)]
             g == [x \in Id |->
                     IF x \notin MadeBy(t, {"order", "payment"}) \/ t[x].supplier # s THEN 0
                     ELSE IF t[x].kind = "order" THEN t[x].total - t[x].booked ELSE -t[x].amount]
  <2>1. f = g
    BY DEF MadeBy, OwedBy
  <2>2. OwedIn(t, s) = SumFunction(g)
    BY DEF OwedIn
  <2> QED
    BY <2>1, <2>2
<1>2. ASSUME NEW o PROVE PaidFor(t, o) = SumFunction([x \in Id |-> PaidBy(t[x], o)])
  <2> DEFINE f == [x \in Id |-> PaidBy(t[x], o)]
             g == [x \in Id |->
                     IF x \in MadeBy(t, {"payment"}) /\ t[x].order = o THEN t[x].amount ELSE 0]
  <2>1. f = g
    BY DEF MadeBy, PaidBy
  <2>2. PaidFor(t, o) = SumFunction(g)
    BY DEF PaidFor
  <2> QED
    BY <2>1, <2>2
<1>3. ASSUME NEW p, NEW place
      PROVE  MovedIn(t, p, place) = SumFunction([x \in Id |-> BroughtBy(t[x], p, place)])
  <2> DEFINE f == [x \in Id |-> BroughtBy(t[x], p, place)]
             g == [x \in Id |->
                     IF x \in MadeBy(t, {"order", "payment", "transfer"})
                       THEN MovedBy(t[x].moves, p, place) ELSE 0]
  <2>1. f = g
    BY DEF MadeBy, BroughtBy
  <2>2. MovedIn(t, p, place) = SumFunction(g)
    BY DEF MovedIn
  <2> QED
    BY <2>1, <2>2
<1> QED
  BY <1>1, <1>2, <1>3

(* The movements of a product on a list: an integer, none on an empty      *)
(* list, and the first one's and the others'.                              *)
LEMMA MovedType ==
  ASSUME NEW moves \in Seq(Move), NEW p, NEW place \in Place
  PROVE  MovedBy(moves, p, place) \in Int
<1> DEFINE f == [i \in DOMAIN moves |-> IF moves[i].product = p THEN moves[i][place] ELSE 0]
<1>1. DOMAIN moves = 1 .. Len(moves) /\ Len(moves) \in Nat
  OBVIOUS
<1>2. IsFiniteSet(DOMAIN moves)
  BY <1>1, FS_Interval
<1>3. f \in [DOMAIN moves -> Int]
  <2>1. \A i \in DOMAIN moves : moves[i] \in Move
    OBVIOUS
  <2>2. \A i \in DOMAIN moves : moves[i][place] \in Int
    BY <2>1 DEF Move, Place
  <2> QED
    BY <2>2
<1> HIDE DEF f
<1>4. SumFunction(f) \in Int
  BY <1>2, <1>3, FunctionSumInt
<1> QED
  BY <1>4 DEF MovedBy, f

LEMMA MovedNone ==
  ASSUME NEW moves \in Seq(Move), NEW p, NEW place, \A i \in DOMAIN moves : moves[i].product # p
  PROVE  MovedBy(moves, p, place) = 0
<1> DEFINE f == [i \in DOMAIN moves |-> IF moves[i].product = p THEN moves[i][place] ELSE 0]
<1>1. DOMAIN moves = 1 .. Len(moves) /\ Len(moves) \in Nat
  OBVIOUS
<1>2. IsFiniteSet(DOMAIN moves)
  BY <1>1, FS_Interval
<1>3. DOMAIN f = DOMAIN moves /\ \A i \in DOMAIN moves : f[i] = 0
  OBVIOUS
<1> HIDE DEF f
<1>4. SumFunction(f) = 0
  BY <1>2, <1>3, FunctionSumZero
<1> QED
  BY <1>4 DEF MovedBy, f

LEMMA MovedTail ==
  ASSUME NEW moves \in Seq(Move), NEW p, NEW place \in Place, moves # <<>>
  PROVE  MovedBy(moves, p, place) = (IF Head(moves).product = p THEN Head(moves)[place] ELSE 0)
                                      + MovedBy(Tail(moves), p, place)
<1> DEFINE n == Len(moves) - 1
           rest == Tail(moves)
           f == [i \in DOMAIN moves |-> IF moves[i].product = p THEN moves[i][place] ELSE 0]
           g == [i \in DOMAIN rest |-> IF rest[i].product = p THEN rest[i][place] ELSE 0]
<1>1. n \in Nat /\ DOMAIN moves = 1 .. n + 1 /\ DOMAIN rest = 1 .. n
  OBVIOUS
<1>2. \A i \in 1 .. n : rest[i] = moves[i + 1] /\ i + 1 \in DOMAIN moves
  OBVIOUS
<1>3. \A i \in DOMAIN moves : moves[i][place] \in Int
  <2>1. \A i \in DOMAIN moves : moves[i] \in Move
    OBVIOUS
  <2> QED
    BY <2>1 DEF Move, Place
<1>4. f \in [1 .. n + 1 -> Int]
  BY <1>1, <1>3
<1>5. g \in [1 .. n -> Int]
  <2>1. \A i \in 1 .. n : rest[i][place] \in Int
    BY <1>2, <1>3
  <2> QED
    BY <1>1, <2>1
<1>6. \A i \in 1 .. n : g[i] = f[i + 1]
  BY <1>1, <1>2
<1>7. f[1] = IF Head(moves).product = p THEN Head(moves)[place] ELSE 0
  BY <1>1
<1> HIDE DEF f, g, n, rest
<1>8. SumFunction(f) = f[1] + SumFunction(g)
  BY <1>1, <1>4, <1>5, <1>6, SumTail
<1>9. MovedBy(moves, p, place) = SumFunction(f) /\ MovedBy(Tail(moves), p, place) = SumFunction(g)
  BY DEF MovedBy, f, g, rest
<1> QED
  BY <1>7, <1>8, <1>9

LEMMA TermTypes ==
  ASSUME NEW v \in {NoRow} \cup PaperRow
  PROVE  /\ \A s : OwedBy(v, s) \in Int
         /\ \A o : PaidBy(v, o) \in Int
         /\ \A p : \A place \in Place : BroughtBy(v, p, place) \in Int
<1>1. CASE v = NoRow
  BY <1>1 DEF OwedBy, PaidBy, BroughtBy
<1>2. CASE v \in OrderRow
  <2>1. v.kind = "order" /\ v.total \in Int /\ v.booked \in Int /\ v.moves \in Seq(Move)
    BY <1>2 DEF OrderRow
  <2> QED
    BY <2>1, MovedType DEF OwedBy, PaidBy, BroughtBy
<1>3. CASE v \in PaymentRow
  <2>1. v.kind = "payment" /\ v.amount \in Int /\ v.moves \in Seq(Move)
    BY <1>3 DEF PaymentRow
  <2> QED
    BY <2>1, MovedType DEF OwedBy, PaidBy, BroughtBy
<1>4. CASE v \in TransferRow
  <2>1. v.kind = "transfer" /\ v.moves \in Seq(Move)
    BY <1>4 DEF TransferRow
  <2> QED
    BY <2>1, MovedType DEF OwedBy, PaidBy, BroughtBy
<1>5. CASE v \in CheckRow
  <2>1. v.kind = "check"
    BY <1>5 DEF CheckRow
  <2> QED
    BY <2>1 DEF OwedBy, PaidBy, BroughtBy
<1> QED
  BY <1>1, <1>2, <1>3, <1>4, <1>5 DEF PaperRow

(* When one paper changes, or some that add the same as before, the sums   *)
(* change by what it adds.                                                 *)
LEMMA PaperSums ==
  ASSUME NEW t, NEW u, Versioned(t), Versioned(u), NEW x \in Id,
         \A y \in Id \ {x} : Alike(t[y], u[y])
  PROVE  /\ \A s \in Supplier : /\ OwedIn(t, s) \in Int
                                /\ OwedIn(u, s) = OwedIn(t, s) - OwedBy(t[x], s) + OwedBy(u[x], s)
         /\ \A o \in Id : /\ PaidFor(t, o) \in Int
                          /\ PaidFor(u, o) = PaidFor(t, o) - PaidBy(t[x], o) + PaidBy(u[x], o)
         /\ \A p \in Product : \A place \in Place :
              /\ MovedIn(t, p, place) \in Int
              /\ MovedIn(u, p, place) = MovedIn(t, p, place) - BroughtBy(t[x], p, place)
                                          + BroughtBy(u[x], p, place)
<1>1. IsFiniteSet(Id)
  BY NamesAssumption
<1>2. ASSUME NEW f \in [Id -> Int], NEW h \in [Id -> Int], \A y \in Id \ {x} : h[y] = f[y]
      PROVE  SumFunction(f) \in Int /\ SumFunction(h) = SumFunction(f) - f[x] + h[x]
  BY <1>1, <1>2, SumChange, FunctionSumInt
<1>3. ASSUME NEW s \in Supplier
      PROVE  /\ OwedIn(t, s) \in Int
             /\ OwedIn(u, s) = OwedIn(t, s) - OwedBy(t[x], s) + OwedBy(u[x], s)
  <2>1. PICK f, h : f = [y \in Id |-> OwedBy(t[y], s)] /\ h = [y \in Id |-> OwedBy(u[y], s)]
    OBVIOUS
  <2>2. f \in [Id -> Int] /\ h \in [Id -> Int]
    BY <2>1, TermTypes DEF Versioned
  <2>3. \A y \in Id \ {x} : h[y] = f[y]
    BY <2>1 DEF Alike
  <2>4. OwedIn(t, s) = SumFunction(f) /\ OwedIn(u, s) = SumFunction(h)
    BY <2>1, SumTerms
  <2>5. SumFunction(f) \in Int /\ SumFunction(h) = SumFunction(f) - f[x] + h[x]
    BY <1>2, <2>2, <2>3
  <2> QED
    BY <2>1, <2>4, <2>5
<1>4. ASSUME NEW o \in Id
      PROVE  /\ PaidFor(t, o) \in Int
             /\ PaidFor(u, o) = PaidFor(t, o) - PaidBy(t[x], o) + PaidBy(u[x], o)
  <2>1. PICK f, h : f = [y \in Id |-> PaidBy(t[y], o)] /\ h = [y \in Id |-> PaidBy(u[y], o)]
    OBVIOUS
  <2>2. f \in [Id -> Int] /\ h \in [Id -> Int]
    BY <2>1, TermTypes DEF Versioned
  <2>3. \A y \in Id \ {x} : h[y] = f[y]
    BY <2>1 DEF Alike
  <2>4. PaidFor(t, o) = SumFunction(f) /\ PaidFor(u, o) = SumFunction(h)
    BY <2>1, SumTerms
  <2>5. SumFunction(f) \in Int /\ SumFunction(h) = SumFunction(f) - f[x] + h[x]
    BY <1>2, <2>2, <2>3
  <2> QED
    BY <2>1, <2>4, <2>5
<1>5. ASSUME NEW p \in Product, NEW place \in Place
      PROVE  /\ MovedIn(t, p, place) \in Int
             /\ MovedIn(u, p, place) = MovedIn(t, p, place) - BroughtBy(t[x], p, place)
                                         + BroughtBy(u[x], p, place)
  <2>1. PICK f, h : /\ f = [y \in Id |-> BroughtBy(t[y], p, place)]
                    /\ h = [y \in Id |-> BroughtBy(u[y], p, place)]
    OBVIOUS
  <2>2. f \in [Id -> Int] /\ h \in [Id -> Int]
    BY <2>1, TermTypes DEF Versioned
  <2>3. \A y \in Id \ {x} : h[y] = f[y]
    BY <2>1 DEF Alike
  <2>4. MovedIn(t, p, place) = SumFunction(f) /\ MovedIn(u, p, place) = SumFunction(h)
    BY <2>1, SumTerms
  <2>5. SumFunction(f) \in Int /\ SumFunction(h) = SumFunction(f) - f[x] + h[x]
    BY <1>2, <2>2, <2>3
  <2> QED
    BY <2>1, <2>4, <2>5
<1> QED
  BY <1>3, <1>4, <1>5

(* Where no term adds anything the sum is nothing.                         *)
LEMMA NoSums ==
  ASSUME NEW t
  PROVE  /\ \A s : (\A x \in Id : OwedBy(t[x], s) = 0) => OwedIn(t, s) = 0
         /\ \A o : (\A x \in Id : PaidBy(t[x], o) = 0) => PaidFor(t, o) = 0
         /\ \A p, place : (\A x \in Id : BroughtBy(t[x], p, place) = 0) => MovedIn(t, p, place) = 0
<1>1. IsFiniteSet(Id)
  BY NamesAssumption
<1>2. ASSUME NEW f, DOMAIN f = Id, \A x \in Id : f[x] = 0 PROVE SumFunction(f) = 0
  BY <1>1, <1>2, FunctionSumZero
<1>3. ASSUME NEW s, \A x \in Id : OwedBy(t[x], s) = 0 PROVE OwedIn(t, s) = 0
  <2>1. PICK f : f = [x \in Id |-> OwedBy(t[x], s)]
    OBVIOUS
  <2> QED
    BY <1>2, <1>3, <2>1, SumTerms
<1>4. ASSUME NEW o, \A x \in Id : PaidBy(t[x], o) = 0 PROVE PaidFor(t, o) = 0
  <2>1. PICK f : f = [x \in Id |-> PaidBy(t[x], o)]
    OBVIOUS
  <2> QED
    BY <1>2, <1>4, <2>1, SumTerms
<1>5. ASSUME NEW p, NEW place, \A x \in Id : BroughtBy(t[x], p, place) = 0
      PROVE  MovedIn(t, p, place) = 0
  <2>1. PICK f : f = [x \in Id |-> BroughtBy(t[x], p, place)]
    OBVIOUS
  <2> QED
    BY <1>2, <1>5, <2>1, SumTerms
<1> QED
  BY <1>3, <1>4, <1>5

-----------------------------------------------------------------------------
(* What a step does to the papers of the table.                            *)

Recorded(r) == CommitTx(r) /\ call[r].op \in Moving

LEMMA CommitSeen ==
  ASSUME Inv, NEW r \in Req, CommitTx(r), NEW x \in Row
  PROVE  /\ table'[x] = Seen(r, x)
         /\ pc[r] = "commit" /\ pc'[r] = "ok" /\ call' = call /\ moved' = moved
         /\ x \in Locked(r) => Filed(r, x)
<1>1. RowsOK /\ Arrays
  BY InvMine
<1>2. /\ table' = [y \in Row |-> Seen(r, y)]
      /\ pc[r] = "commit" /\ pc'[r] = "ok" /\ call' = call /\ moved' = moved
  BY <1>1, CommitEffect DEF CommitTx, Leave, Goto, Arrays
<1> QED
  BY <1>2 DEF Filed, Seen

LEMMA RowVersion ==
  ASSUME Inv, NEW x \in Row
  PROVE  table[x] \in Version(x)
BY InvMine DEF Inv, TypeOK, Rows

\* A paper changes only when its request records it, an order also when a
\* payment for it is recorded, and a check when it is made and completed.
LEMMA PaperChange ==
  ASSUME Inv, NEW r \in Req, Papers(r), Act(r), NEW x \in Id
  PROVE  \/ table'[x] = table[x]
         \/ Recorded(r) /\ x = r /\ ~Is(r) /\ table'[r] = Paper(call[r])
         \/ /\ Recorded(r) /\ x # r /\ call[r].op = "payment" /\ x = call[r].order
            /\ table[x] \in OrderRow /\ table'[x] = PaidOrder(table[x], AmountOf(call[r]))
         \/ ~Is(x) /\ table'[x] \in CheckRow
         \/ /\ table[x] \in CheckRow
            /\ table'[x] = [table[x] EXCEPT !.status = "completed"]
<1>1. x \in Row /\ x \notin Product /\ x \notin Supplier /\ x \notin Item
  BY VersionOf, Names
<1>2. Mine(r)
  BY InvMine
<1>3. CASE Filed(r, x)
  <2>1. /\ CommitTx(r) /\ x \in Locked(r) /\ pc[r] = "commit" /\ table'[x] = draft[r][x]
        /\ Drafted(r, x)
    BY <1>3, FiledRow DEF Filed
  <2>2. CASE x = r /\ draft[r][r].kind # "check" /\ call[r].op \in Moving
    <3>1. ~Is(r)
      BY <1>2, <2>1, <2>2 DEF Mine, Unborn, Moving
    <3>2. draft[r][r] = Paper(call[r])
      BY <2>1, <2>2 DEF Papers
    <3> QED
      BY <2>1, <2>2, <3>1, <3>2 DEF Recorded
  <2>3. CASE call[r].op = "payment" /\ x = call[r].order /\ Kind(x, "order")
    <3>1. x # r
      BY <1>2, <2>1, <2>3 DEF Mine, Unborn, Kind, Is
    <3>2. table[x] \in PaperRow
      BY <1>1, <2>3, RowVersion, VersionOf DEF Kind
    <3>3. table[x] \in OrderRow
      BY <2>3, <3>2 DEF Kind, PaperRow, PaymentRow, TransferRow, CheckRow
    <3>4. table'[x] = PaidOrder(table[x], AmountOf(call[r]))
      BY <2>1, <2>3 DEF Papers
    <3> QED
      BY <2>1, <2>3, <3>1, <3>3, <3>4 DEF Recorded, Moving
  <2>4. CASE call[r].op = "count" /\ x = call[r].check /\ Kind(x, "check")
    <3>1. table[x] \in PaperRow
      BY <1>1, <2>4, RowVersion, VersionOf DEF Kind
    <3>2. table[x] \in CheckRow
      BY <2>4, <3>1 DEF Kind, PaperRow, PaymentRow, TransferRow, OrderRow
    <3> QED
      BY <2>1, <2>4, <3>2 DEF Papers
  <2> QED
    BY <2>1, <2>2, <2>3, <2>4 DEF Drafted
<1>4. ~Made(r, x) /\ ~Put(r, x)
  BY <1>1 DEF Made, Put
<1>5. CASE Headed(r, x)
  BY <1>5 DEF Headed
<1> QED
  BY <1>1, <1>3, <1>4, <1>5, RowChange

LEMMA PaidOrderRow ==
  ASSUME NEW o \in OrderRow, NEW amount \in Nat
  PROVE  /\ PaidOrder(o, amount) \in OrderRow
         /\ PaidOrder(o, amount).paid = o.paid + Round(amount)
         /\ PaidOrder(o, amount).status = Status(o.paid + Round(amount), o.total)
         /\ \A f \in {"kind", "supplier", "moves", "total", "booked"} :
              PaidOrder(o, amount)[f] = o[f]
<1>0. o.paid \in Nat /\ Plus(o.paid, amount) = o.paid + Round(amount) /\ Round(amount) \in Nat
  <2>1. o.paid \in Nat
    BY DEF OrderRow
  <2> QED
    BY <2>1, PlusNat
<1>1. PICK p, t : p = o.paid + Round(amount) /\ t = Status(o.paid + Round(amount), o.total)
  OBVIOUS
<1>2. p \in Nat /\ t \in {"paid", "partial", "unpaid"}
  BY <1>0, <1>1 DEF Status
<1>3. PaidOrder(o, amount) = [o EXCEPT !.paid = p, !.status = t]
  BY <1>0, <1>1 DEF PaidOrder, OrderRow
<1> QED
  BY <1>1, <1>2, <1>3 DEF OrderRow

LEMMA PaperType ==
  ASSUME NEW b \in Body, b.op \in Moving
  PROVE  /\ Paper(b) \in PaperRow /\ Paper(b).kind = b.op /\ Paper(b).moves = b.moves
         /\ b.op = "order" =>
              /\ Paper(b).supplier = b.supplier /\ Paper(b).total = Round(b.total)
              /\ Paper(b).paid = Round(b.paid) /\ Paper(b).booked = Round(b.paid)
              /\ Paper(b).status = Status(b.paid, b.total)
         /\ b.op = "payment" =>
              /\ Paper(b).supplier = b.supplier /\ Paper(b).order = b.order
              /\ Paper(b).amount = Round(AmountOf(b))
<1>1. CASE b.op = "transfer"
  <2>1. Paper(b) = [kind |-> "transfer", moves |-> b.moves]
    BY <1>1 DEF Paper
  <2>2. b.moves \in Seq(Move)
    BY <1>1, BodyType DEF TransferBody
  <2> QED
    BY <1>1, <2>1, <2>2 DEF PaperRow, TransferRow
<1>2. CASE b.op = "order"
  <2>1. PICK v : v = [kind |-> "order", supplier |-> b.supplier, moves |-> b.moves,
                      total |-> Round(b.total), paid |-> Round(b.paid),
                      booked |-> Round(b.paid), status |-> Status(b.paid, b.total)]
    OBVIOUS
  <2>2. Paper(b) = v
    BY <1>2, <2>1 DEF Paper
  <2>3. b \in OrderBody
    BY <1>2, BodyType
  <2>4. b.supplier \in Supplier /\ b.moves \in Seq(Move)
        /\ Round(b.total) \in Nat /\ Round(b.paid) \in Nat
        /\ Status(b.paid, b.total) \in {"paid", "partial", "unpaid"}
    BY <2>3, RoundType DEF OrderBody, Status
  <2>5. v \in OrderRow
    BY <2>1, <2>4 DEF OrderRow
  <2> QED
    BY <1>2, <2>1, <2>2, <2>5 DEF PaperRow
<1>3. CASE b.op = "payment"
  <2>1. PICK v : v = [kind |-> "payment", supplier |-> b.supplier, order |-> b.order,
                      moves |-> b.moves, amount |-> Round(AmountOf(b)),
                      booked |-> IF b.moves = <<>> THEN Round(b.amount) ELSE 0]
    OBVIOUS
  <2>2. Paper(b) = v
    BY <1>3, <2>1 DEF Paper
  <2>3. b \in PaymentBody /\ Round(AmountOf(b)) \in Nat
    BY <1>3, BodyType, AmountType, RoundType
  <2>4. /\ b.supplier \in Supplier /\ b.order \in Id \cup {NoRow} /\ b.moves \in Seq(Move)
        /\ Round(b.amount) \in Nat
    BY <2>3, RoundType DEF PaymentBody
  <2>5. v \in PaymentRow
    BY <2>1, <2>3, <2>4 DEF PaymentRow
  <2> QED
    BY <1>3, <2>1, <2>2, <2>5 DEF PaperRow
<1> QED
  BY <1>1, <1>2, <1>3 DEF Moving

LEMMA CommitBody ==
  ASSUME Inv, NEW r \in Req, Recorded(r)
  PROVE  /\ call[r] \in Body /\ pc[r] = "commit" /\ Act(r)
         /\ call[r].op = "payment" => AmountOf(call[r]) \in Nat
<1>1. call[r] \in Body /\ pc[r] = "commit" /\ Act(r)
  BY InvMine DEF Recorded, CommitTx, Mine, Course, Act, Step
<1> QED
  BY <1>1, BodyType, AmountType

(* The sums change at a commit of a transfer, an order or a payment, by    *)
(* what its own row adds.                                                  *)
LEMMA SumsStep ==
  ASSUME Inv, NEW r \in Req, Papers(r), Act(r)
  PROVE  /\ \A s \in Supplier :
              /\ OwedIn(table, s) \in Int
              /\ OwedIn(table', s) =
                   OwedIn(table, s) + IF Recorded(r) THEN OwedBy(Paper(call[r]), s) ELSE 0
         /\ \A o \in Id :
              /\ PaidFor(table, o) \in Int
              /\ PaidFor(table', o) =
                   PaidFor(table, o) + IF Recorded(r) THEN PaidBy(Paper(call[r]), o) ELSE 0
         /\ \A p \in Product : \A place \in Place :
              /\ MovedIn(table, p, place) \in Int
              /\ MovedIn(table', p, place) =
                   MovedIn(table, p, place)
                     + IF Recorded(r) THEN BroughtBy(Paper(call[r]), p, place) ELSE 0
<1>1. PICK t, u : t = table /\ u = table'
  OBVIOUS
<1>2. Versioned(t) /\ Versioned(u)
  BY <1>1, RowVersion, TableType, VersionOf DEF Versioned, Rows
<1>3. r \in Id
  BY VersionOf
<1>4. ASSUME NEW x \in Id, x # r \/ ~Recorded(r) PROVE Alike(t[x], u[x])
  <2>1. CASE u[x] = t[x]
    BY <2>1 DEF Alike
  <2>2. CASE /\ Recorded(r) /\ x # r /\ call[r].op = "payment" /\ x = call[r].order
             /\ t[x] \in OrderRow /\ u[x] = PaidOrder(t[x], AmountOf(call[r]))
    <3>1. AmountOf(call[r]) \in Nat
      BY <2>2, CommitBody
    <3>2. PICK o, w : o \in OrderRow /\ o = t[x] /\ w = u[x]
      BY <2>2
    <3>3. w \in OrderRow /\ \A f \in {"kind", "supplier", "moves", "total", "booked"} : w[f] = o[f]
      BY <2>2, <3>1, <3>2, PaidOrderRow
    <3>4. w.kind = o.kind /\ w.supplier = o.supplier /\ w.moves = o.moves /\ w.total = o.total
          /\ w.booked = o.booked
      BY <3>3
    <3>5. o.kind = "order" /\ o # NoRow /\ w # NoRow
      BY <3>2, <3>3, Names DEF OrderRow, PaperRow
    <3>6. Alike(o, w)
      BY <3>4, <3>5 DEF Alike, OwedBy, PaidBy, BroughtBy
    <3> QED
      BY <3>2, <3>6
  <2>3. CASE t[x] = NoRow /\ u[x] \in CheckRow
    <3>1. u[x].kind = "check"
      BY <2>3 DEF CheckRow
    <3> QED
      BY <2>3, <3>1 DEF Alike, OwedBy, PaidBy, BroughtBy
  <2>4. CASE t[x] \in CheckRow /\ u[x] = [t[x] EXCEPT !.status = "completed"]
    <3>1. t[x].kind = "check" /\ u[x].kind = "check"
      BY <2>4 DEF CheckRow
    <3> QED
      BY <3>1 DEF Alike, OwedBy, PaidBy, BroughtBy
  <2> QED
    BY <1>1, <1>4, <2>1, <2>2, <2>3, <2>4, PaperChange DEF Is
<1>5. /\ \A s \in Supplier : /\ OwedIn(t, s) \in Int
                             /\ OwedIn(u, s) = OwedIn(t, s) - OwedBy(t[r], s) + OwedBy(u[r], s)
      /\ \A o \in Id : /\ PaidFor(t, o) \in Int
                       /\ PaidFor(u, o) = PaidFor(t, o) - PaidBy(t[r], o) + PaidBy(u[r], o)
      /\ \A p \in Product : \A place \in Place :
           /\ MovedIn(t, p, place) \in Int
           /\ MovedIn(u, p, place) = MovedIn(t, p, place) - BroughtBy(t[r], p, place)
                                       + BroughtBy(u[r], p, place)
  BY <1>2, <1>3, <1>4, PaperSums
<1>6. CASE Recorded(r)
  <2>1. t[r] = NoRow /\ u[r] = Paper(call[r])
    <3>1. r \in Locked(r) /\ r \in Row
      BY <1>6, CommitBody, VersionOf DEF Papers, Recorded
    <3>2. u[r] = Paper(call[r])
      BY <1>1, <1>6, <3>1, CommitSeen DEF Recorded, Papers, Seen
    <3>3. ~Is(r)
      BY <1>6, CommitBody, InvMine DEF Mine, Unborn, Recorded, Moving
    <3> QED
      BY <1>1, <3>2, <3>3 DEF Is
  <2>2. PICK w \in PaperRow : w = Paper(call[r])
    BY <1>6, CommitBody, PaperType DEF Recorded
  <2>3. /\ \A s \in Supplier : OwedBy(w, s) \in Int /\ OwedBy(t[r], s) = 0
        /\ \A o \in Id : PaidBy(w, o) \in Int /\ PaidBy(t[r], o) = 0
        /\ \A p \in Product : \A place \in Place :
             BroughtBy(w, p, place) \in Int /\ BroughtBy(t[r], p, place) = 0
    BY <2>1, <2>2, TermTypes DEF OwedBy, PaidBy, BroughtBy
  <2>4. u[r] = w
    BY <2>1, <2>2
  <2>5. ASSUME NEW s \in Supplier PROVE OwedIn(u, s) = OwedIn(t, s) + OwedBy(w, s)
    BY <1>5, <2>3, <2>4
  <2>6. ASSUME NEW o \in Id PROVE PaidFor(u, o) = PaidFor(t, o) + PaidBy(w, o)
    BY <1>5, <2>3, <2>4
  <2>7. ASSUME NEW p \in Product, NEW place \in Place
        PROVE  MovedIn(u, p, place) = MovedIn(t, p, place) + BroughtBy(w, p, place)
    BY <1>5, <2>3, <2>4
  <2> QED
    BY <1>1, <1>5, <1>6, <2>2, <2>5, <2>6, <2>7
<1>7. CASE ~Recorded(r)
  <2>1. Alike(t[r], u[r]) /\ t[r] \in {NoRow} \cup PaperRow
    BY <1>2, <1>3, <1>4, <1>7 DEF Versioned
  <2>2. ASSUME NEW s \in Supplier PROVE OwedIn(u, s) = OwedIn(t, s)
    <3>1. OwedBy(t[r], s) \in Int /\ OwedBy(u[r], s) = OwedBy(t[r], s)
      BY <2>1, TermTypes DEF Alike
    <3> QED
      BY <1>5, <3>1
  <2>3. ASSUME NEW o \in Id PROVE PaidFor(u, o) = PaidFor(t, o)
    <3>1. PaidBy(t[r], o) \in Int /\ PaidBy(u[r], o) = PaidBy(t[r], o)
      BY <2>1, TermTypes DEF Alike
    <3> QED
      BY <1>5, <3>1
  <2>4. ASSUME NEW p \in Product, NEW place \in Place
        PROVE  MovedIn(u, p, place) = MovedIn(t, p, place)
    <3>1. BroughtBy(t[r], p, place) \in Int /\ BroughtBy(u[r], p, place) = BroughtBy(t[r], p, place)
      BY <2>1, TermTypes DEF Alike
    <3> QED
      BY <1>5, <3>1
  <2> QED
    BY <1>1, <1>5, <1>7, <2>2, <2>3, <2>4
<1> QED
  BY <1>6, <1>7

-----------------------------------------------------------------------------
(* The papers keep what they name, and the accounts agree after a step.    *)

LEMMA OrderWas ==
  ASSUME Inv, NEW r \in Req, Papers(r), Act(r), NEW o \in Id, Is(o), Kind(o, "order")'
  PROVE  Kind(o, "order")
<1>1. o \in Row
  BY VersionOf
<1> QED
  BY <1>1, RowsStay DEF Kind, Is

LEMMA RowKept ==
  ASSUME Inv, NEW r \in Req, Act(r), NEW x \in Row, NEW k
  PROVE  /\ Is(x) => Is(x)'
         /\ Kind(x, k) => Kind(x, k)'
BY RowsStay DEF Is, Kind

(* What a body of a transfer, an order or a payment names is there.        *)
LEMMA NamedThere ==
  ASSUME Inv, NEW r \in Req, pc[r] # "idle", call[r].op \in Moving
  PROVE  /\ call[r] \in Body /\ call[r].moves \in Seq(Move)
         /\ \A i \in DOMAIN call[r].moves : call[r].moves[i].product \in Product
                                            /\ Is(call[r].moves[i].product)
         /\ call[r].op # "transfer" => call[r].supplier \in Supplier /\ Is(call[r].supplier)
         /\ call[r].op = "payment" =>
              /\ call[r].order \in Id \cup {NoRow}
              /\ call[r].order \in Req => Is(call[r].order)
<1>1. call[r] \in Body /\ \A x \in Named(call[r]) : Is(x)
  BY InvMine DEF Mine, Course, Moving
<1>2. call[r].moves \in Seq(Move)
  BY <1>1, BodyType DEF Moving, TransferBody, OrderBody, PaymentBody
<1>3. \A i \in DOMAIN call[r].moves : call[r].moves[i] \in Move
  BY <1>2
<1>4. \A i \in DOMAIN call[r].moves : call[r].moves[i].product \in Named(call[r])
  BY DEF Named, Moving
<1>5. call[r].op # "transfer" => call[r].supplier \in Supplier /\ call[r].supplier \in Named(call[r])
  BY <1>1, BodyType DEF Moving, OrderBody, PaymentBody, Named
<1>6. call[r].op = "payment" =>
        /\ call[r].order \in Id \cup {NoRow}
        /\ call[r].order \in Req => call[r].order \in Named(call[r])
  BY <1>1, BodyType DEF PaymentBody, Named
<1> QED
  BY <1>1, <1>2, <1>3, <1>4, <1>5, <1>6 DEF Move

LEMMA ForeignStep ==
  ASSUME Inv, NEW r \in Req, Papers(r), Act(r), Foreign
  PROVE  Foreign'
<1> SUFFICES ASSUME NEW x \in MadeBy(table', {"order", "payment", "transfer"})
             PROVE  Cites(table', table'[x])
  BY DEF Foreign, MadeBy, Cites
<1>1. x \in Id /\ x \in Row /\ table'[x] # NoRow
      /\ table'[x].kind \in {"order", "payment", "transfer"}
  BY VersionOf DEF MadeBy
<1>2. ASSUME x \in MadeBy(table, {"order", "payment", "transfer"}),
             table'[x].kind = table[x].kind, table'[x].moves = table[x].moves,
             table[x].kind \in {"order", "payment"} => table'[x].supplier = table[x].supplier,
             table[x].kind = "payment" => table'[x].order = table[x].order
      PROVE  Cites(table', table'[x])
  <2>1. PICK v, w : v = table[x] /\ w = table'[x]
    OBVIOUS
  <2>2. Cites(table, v)
    BY <1>2, <2>1 DEF Foreign
  <2>3. v \in OrderRow \cup PaymentRow \cup TransferRow
    <3>1. v \in PaperRow
      BY <1>1, <1>2, <2>1, RowVersion, VersionOf DEF MadeBy
    <3> QED
      BY <1>2, <2>1, <3>1 DEF MadeBy, PaperRow, CheckRow
  <2>4. \A i \in DOMAIN v.moves : v.moves[i].product \in Row
    <3>1. v.moves \in Seq(Move)
      BY <2>3 DEF OrderRow, PaymentRow, TransferRow
    <3>2. \A i \in DOMAIN v.moves : v.moves[i] \in Move
      BY <3>1
    <3> QED
      BY <3>2, VersionOf DEF Move
  <2>5. v.kind \in {"order", "payment"} => v.supplier \in Row
    BY <2>3, VersionOf DEF OrderRow, PaymentRow, TransferRow
  <2>6. v.kind = "payment" /\ v.order # NoRow => v.order \in Row
    BY <2>3, VersionOf DEF OrderRow, PaymentRow, TransferRow
  <2>7. Cites(table', v)
    BY <2>2, <2>4, <2>5, <2>6, RowsStay DEF Cites, Is
  <2> QED
    BY <1>2, <2>1, <2>7 DEF Cites
<1>3. CASE table'[x] = table[x]
  BY <1>1, <1>2, <1>3 DEF MadeBy
<1>4. CASE Recorded(r) /\ x = r /\ table'[r] = Paper(call[r])
  <2>1. PICK b \in Body : b = call[r] /\ b.op \in Moving /\ pc[r] = "commit"
    BY <1>4, CommitBody DEF Recorded
  <2>2. /\ table'[x].kind = b.op /\ table'[x].moves = b.moves
        /\ b.op \in {"order", "payment"} => table'[x].supplier = b.supplier
        /\ b.op = "payment" => table'[x].order = b.order
    BY <1>4, <2>1, PaperType
  <2>3. /\ \A i \in DOMAIN b.moves : b.moves[i].product \in Product /\ Is(b.moves[i].product)
        /\ b.op \in {"order", "payment"} => b.supplier \in Supplier /\ Is(b.supplier)
        /\ b.op = "payment" => b.order \in Id \cup {NoRow}
    BY <2>1, NamedThere
  <2>4. b.op = "payment" /\ b.order # NoRow => Kind(b.order, "order")
    BY <2>1 DEF Papers
  <2>5. \A i \in DOMAIN b.moves : table'[b.moves[i].product] # NoRow
    BY <2>3, RowsStay, VersionOf
  <2>6. b.op \in {"order", "payment"} => table'[b.supplier] # NoRow
    BY <2>3, RowsStay, VersionOf
  <2>7. b.op = "payment" /\ b.order # NoRow =>
          table'[b.order] # NoRow /\ table'[b.order].kind = "order"
    BY <2>3, <2>4, RowsStay, VersionOf DEF Is, Kind
  <2> QED
    BY <2>2, <2>5, <2>6, <2>7 DEF Cites
<1>5. CASE /\ Recorded(r) /\ call[r].op = "payment"
           /\ table[x] \in OrderRow /\ table'[x] = PaidOrder(table[x], AmountOf(call[r]))
  <2>1. AmountOf(call[r]) \in Nat
    BY <1>5, CommitBody
  <2>2. \A f \in {"kind", "supplier", "moves", "total", "booked"} : table'[x][f] = table[x][f]
    BY <1>5, <2>1, PaidOrderRow
  <2>3. table[x].kind = "order" /\ table[x] # NoRow
    BY <1>5, Names DEF OrderRow, PaperRow
  <2> QED
    BY <1>1, <1>2, <2>2, <2>3 DEF MadeBy
<1>6. CASE table'[x] \in CheckRow
  BY <1>1, <1>6 DEF CheckRow
<1>7. CASE table[x] \in CheckRow /\ table'[x] = [table[x] EXCEPT !.status = "completed"]
  BY <1>1, <1>7 DEF CheckRow
<1> QED
  BY <1>1, <1>3, <1>4, <1>5, <1>6, <1>7, PaperChange

(* What a request works at is settled once it has come in.                 *)
LEMMA CallKept ==
  ASSUME Inv, NEW r \in Req, Act(r), NEW q \in Req, pc[q] # "idle"
  PROVE  call'[q] = call[q]
<1>1. CASE q # r
  BY <1>1, StepIsLocal, InvMine DEF OwnChange, Changes
<1>2. CASE q = r
  BY <1>2 DEF Act, Receive, ReceiveCheck, Step, CheckStep, Fail, Refuse, Leave, LockProduct, MoveGoods,
       InsertTransfer, InsertOrder, UpdateDebt, PayOrder, InsertPayment, CommitTx, CreateRow,
       GetProduct, PutProduct, GetSupplier, PutSupplier, SoftDelete, ListProducts, InsertHeader,
       InsertItems, CountItem, ReadItems, LockCounted, SetStock, CompleteCheck, locals
<1> QED
  BY <1>1, <1>2

(* A payment in the name of an order is made by its own request.           *)
LEMMA PaymentsStep ==
  ASSUME Inv, NEW r \in Req, Papers(r), Act(r), NEW o \in Id
  PROVE  PaymentsFor(table', o) =
           PaymentsFor(table, o)
             \cup IF Recorded(r) /\ call[r].op = "payment" /\ call[r].order = o THEN {r} ELSE {}
<1> DEFINE Pays(v) == v # NoRow /\ v.kind = "payment" /\ v.order = o
<1>1. ASSUME NEW x \in Id
      PROVE  Pays(table'[x]) <=>
               \/ Pays(table[x])
               \/ x = r /\ Recorded(r) /\ call[r].op = "payment" /\ call[r].order = o
  <2>1. CASE x = r /\ Recorded(r)
    <3>1. r \in Locked(r) /\ r \in Row
      BY <2>1, CommitBody, VersionOf DEF Papers, Recorded
    <3>2. table'[r] = Paper(call[r])
      BY <2>1, <3>1, CommitSeen DEF Recorded, Papers, Seen
    <3>3. table[r] = NoRow
      BY <2>1, CommitBody, InvMine DEF Mine, Unborn, Recorded, Moving, Is
    <3>4. /\ Paper(call[r]) # NoRow /\ Paper(call[r]).kind = call[r].op
          /\ call[r].op = "payment" => Paper(call[r]).order = call[r].order
      BY <2>1, CommitBody, PaperType, Names DEF Recorded
    <3> QED
      BY <2>1, <3>2, <3>3, <3>4
  <2>2. CASE table'[x] = table[x] /\ ~(x = r /\ Recorded(r))
    BY <2>2
  <2>3. CASE /\ Recorded(r) /\ x # r /\ call[r].op = "payment"
             /\ table[x] \in OrderRow /\ table'[x] = PaidOrder(table[x], AmountOf(call[r]))
    <3>1. AmountOf(call[r]) \in Nat
      BY <2>3, CommitBody
    <3>2. table'[x] \in OrderRow
      BY <2>3, <3>1, PaidOrderRow
    <3> QED
      BY <2>3, <3>2 DEF OrderRow
  <2>4. CASE ~Is(x) /\ table'[x] \in CheckRow /\ ~(x = r /\ Recorded(r))
    BY <2>4 DEF CheckRow, Is
  <2>5. CASE /\ table[x] \in CheckRow /\ table'[x] = [table[x] EXCEPT !.status = "completed"]
             /\ ~(x = r /\ Recorded(r))
    BY <2>5 DEF CheckRow
  <2> QED
    BY <2>1, <2>2, <2>3, <2>4, <2>5, PaperChange
<1>2. r \in Id
  BY VersionOf
<1>3. /\ PaymentsFor(table, o) = {x \in Id : Pays(table[x])}
      /\ PaymentsFor(table', o) = {x \in Id : Pays(table'[x])}
  BY DEF PaymentsFor, MadeBy
<1> HIDE DEF Pays
<1> QED
  BY <1>1, <1>2, <1>3

\* The request that has made an order does not change any more.
LEMMA FirstStatusKept ==
  ASSUME Inv, NEW r \in Req, Act(r), NEW o \in Id, Kind(o, "order")
  PROVE  FirstStatus(o)' = FirstStatus(o)
<1>1. CASE o \in Req
  <2>1. pc[o] # "idle"
    BY <1>1, InvMine DEF Mine, Unborn, Kind, Is
  <2>2. call'[o] = call[o]
    BY <1>1, <2>1, CallKept
  <2> QED
    BY <1>1, <2>2 DEF FirstStatus
<1>2. CASE o \notin Req
  BY <1>2 DEF FirstStatus
<1> QED
  BY <1>1, <1>2

LEMMA PaidStep ==
  ASSUME Inv, NEW r \in Req, Papers(r), Act(r), Foreign, PaidReconciles
  PROVE  PaidReconciles'
<1> SUFFICES ASSUME NEW o \in MadeBy(table', {"order"})
             PROVE  /\ table'[o].paid = table'[o].booked + PaidFor(table', o)
                    /\ table'[o].status = IF PaymentsFor(table', o) = {} THEN FirstStatus(o)'
                                          ELSE Status(table'[o].paid, table'[o].total)
  BY DEF PaidReconciles, MadeBy, PaymentsFor, Status
<1>1. o \in Id /\ o \in Row /\ table'[o] # NoRow /\ table'[o].kind = "order"
  BY VersionOf DEF MadeBy
<1>2. /\ PaidFor(table, o) \in Int
      /\ PaidFor(table', o) =
           PaidFor(table, o) + IF Recorded(r) THEN PaidBy(Paper(call[r]), o) ELSE 0
  BY <1>1, SumsStep
<1>3. CASE Recorded(r) /\ call[r].op = "payment" /\ call[r].order = o
  <2>1. PICK b \in Body : b = call[r] /\ b.op = "payment" /\ pc[r] = "commit" /\ b.order = o
    BY <1>3, CommitBody
  <2>2. PICK amount \in Nat : amount = AmountOf(b)
    BY <1>3, <2>1, CommitBody
  <2>3. PaidBy(Paper(b), o) = Round(amount) /\ Round(amount) \in Int
    BY <2>1, <2>2, PaperType, RoundType, Names DEF PaidBy, Moving
  <2>4. o # NoRow
    BY <1>1, Names
  <2>5. Kind(o, "order") /\ o \in Locked(r)
    BY <2>1, <2>4 DEF Papers
  <2>6. table'[o] = PaidOrder(table[o], amount)
    BY <1>1, <1>3, <2>1, <2>2, <2>5, CommitSeen DEF Recorded, Papers, Seen
  <2>7. PICK d \in OrderRow : d = table[o]
    <3>1. table[o] \in PaperRow /\ table[o].kind = "order"
      BY <1>1, <2>5, RowVersion, VersionOf DEF Kind
    <3> QED
      BY <3>1 DEF PaperRow, PaymentRow, TransferRow, CheckRow
  <2>8. d.paid = d.booked + PaidFor(table, o)
    BY <1>1, <2>5, <2>7 DEF PaidReconciles, MadeBy, Kind
  <2>9. /\ table'[o].paid = d.paid + Round(amount) /\ table'[o].booked = d.booked
        /\ table'[o].total = d.total
        /\ table'[o].status = Status(d.paid + Round(amount), d.total)
    BY <2>6, <2>7, PaidOrderRow
  <2>10. d.paid \in Int /\ d.booked \in Int
    BY <2>7 DEF OrderRow
  <2>11. table'[o].status = Status(table'[o].paid, table'[o].total)
    BY <2>9
  <2>12. PaymentsFor(table', o) # {}
    BY <1>1, <1>3, PaymentsStep
  <2> QED
    BY <1>2, <1>3, <2>1, <2>3, <2>8, <2>9, <2>10, <2>11, <2>12
<1>4. CASE Recorded(r) /\ call[r].op = "order" /\ o = r
  <2>1. PICK b \in Body : b = call[r] /\ b.op = "order" /\ pc[r] = "commit"
    BY <1>4, CommitBody
  <2>2. r \in Locked(r) /\ draft[r][r] = Paper(b)
    BY <2>1 DEF Papers, Moving
  <2>3. table'[o] = Paper(b)
    BY <1>1, <1>4, <2>2, CommitSeen DEF Recorded, Seen
  <2>4. /\ table'[o].paid = Round(b.paid) /\ table'[o].booked = Round(b.paid)
        /\ table'[o].status = Status(b.paid, b.total)
    BY <2>1, <2>3, PaperType DEF Moving
  <2>5. ~Is(o)
    BY <1>4, <2>1, InvMine DEF Mine, Unborn
  <2>6. ASSUME NEW x \in Id PROVE PaidBy(table[x], o) = 0
    <3>1. CASE table[x] # NoRow /\ table[x].kind = "payment" /\ table[x].order = o
      <4>1. Kind(o, "order")
        BY <1>1, <3>1, Names DEF Foreign, Cites, Kind, MadeBy
      <4> QED
        BY <2>5, <4>1 DEF Kind, Is
    <3> QED
      BY <3>1 DEF PaidBy
  <2>7. PaidFor(table, o) = 0
    BY <2>6, NoSums
  <2>8. PaidBy(Paper(b), o) = 0
    BY <2>1, PaperType DEF PaidBy, Moving
  <2>9. Round(b.paid) \in Int
    BY <2>1, BodyType, RoundType DEF OrderBody
  <2>10. PaymentsFor(table', o) = {}
    <3>1. PaymentsFor(table, o) = {}
      <4> SUFFICES ASSUME NEW x \in PaymentsFor(table, o) PROVE FALSE
        OBVIOUS
      <4>1. x \in MadeBy(table, {"order", "payment", "transfer"}) /\ table[x].kind = "payment"
            /\ table[x].order = o
        BY DEF PaymentsFor, MadeBy
      <4>2. Is(o)
        BY <1>1, <4>1, Names DEF Foreign, Cites, Is
      <4> QED
        BY <2>5, <4>2
    <3> QED
      BY <1>1, <2>1, <3>1, PaymentsStep
  <2>11. FirstStatus(o)' = Status(b.paid, b.total)
    <3>1. call' = call
      BY <1>1, <1>4, CommitSeen DEF Recorded
    <3> QED
      BY <1>4, <2>1, <3>1 DEF FirstStatus
  <2> QED
    BY <1>2, <1>4, <2>1, <2>4, <2>7, <2>8, <2>9, <2>10, <2>11
<1>5. CASE /\ ~(Recorded(r) /\ call[r].op = "payment" /\ call[r].order = o)
           /\ ~(Recorded(r) /\ call[r].op = "order" /\ o = r)
  <2>1. table'[o] = table[o]
    <3>1. CASE Recorded(r) /\ o = r /\ table'[r] = Paper(call[r])
      BY <1>1, <1>5, <3>1, CommitBody, PaperType DEF Recorded
    <3>2. CASE table'[o] \in CheckRow
      BY <1>1, <3>2 DEF CheckRow
    <3>3. CASE table[o] \in CheckRow /\ table'[o] = [table[o] EXCEPT !.status = "completed"]
      BY <1>1, <3>3 DEF CheckRow
    <3> QED
      BY <1>1, <1>5, <3>1, <3>2, <3>3, PaperChange
  <2>2. Recorded(r) => PaidBy(Paper(call[r]), o) = 0
    BY <1>5, CommitBody, PaperType DEF PaidBy, Recorded
  <2>3. PaidFor(table', o) = PaidFor(table, o)
    BY <1>2, <2>2
  <2>4. PaymentsFor(table', o) = PaymentsFor(table, o)
    BY <1>1, <1>5, PaymentsStep
  <2>5. FirstStatus(o)' = FirstStatus(o)
    BY <1>1, <2>1, FirstStatusKept DEF Kind
  <2>6. o \in MadeBy(table, {"order"})
    BY <1>1, <2>1 DEF MadeBy
  <2> QED
    BY <2>1, <2>3, <2>4, <2>5, <2>6 DEF PaidReconciles
<1> QED
  BY <1>3, <1>4, <1>5

LEMMA FoundStep ==
  ASSUME Inv, NEW r \in Req, Act(r), Found
  PROVE  Found'
<1>1. ASSUME NEW x \in Row, InitRow[x] # NoRow PROVE table'[x] # NoRow
  BY <1>1, RowsStay DEF Found, Is
<1>2. ASSUME NEW p \in Product, table'[p] # NoRow, InitRow[p] = NoRow
      PROVE  \E q \in Req : call'[q].op = "create" /\ call'[q].name = p
  <2>1. p \in Row /\ p \notin Id
    BY VersionOf, Names
  <2>2. CASE Is(p)
    <3>1. PICK q \in Req : call[q].op = "create" /\ call[q].name = p
      BY <1>2, <2>2 DEF Found
    <3>2. pc[q] # "idle"
      BY <3>1, InvMine DEF Mine, Course, NoCall
    <3> QED
      BY <3>1, <3>2, CallKept
  <2>3. CASE ~Is(p)
    <3>1. ~Filed(r, p)
      BY <2>3 DEF Filed, Inv, Drafts, Drafted
    <3>2. ~Put(r, p) /\ ~Headed(r, p)
      BY <2>1, <2>3, VersionOf DEF Put, Headed
    <3>3. Made(r, p)
      BY <1>2, <2>1, <2>3, <3>1, <3>2, RowChange DEF Is
    <3> QED
      BY <3>3, CallKept DEF Made
  <2> QED
    BY <2>2, <2>3
<1> QED
  BY <1>1, <1>2 DEF Found, Is

(* A supplier who is not deleted changes when a draft of his is committed, *)
(* and when he is new.                                                     *)
LEMMA SupplierChange ==
  ASSUME Inv, NEW r \in Req, Act(r), NEW s \in Supplier, table'[s] # NoRow, table'[s].live
  PROVE  \/ table'[s] = table[s]
         \/ CommitTx(r) /\ s \in Locked(r) /\ table'[s] = draft[r][s]
         \/ CreateRow(r) /\ pc[r] = "create" /\ ~Is(s) /\ table'[s].debt = 0
<1>1. s \in Row /\ s \notin Id /\ s \notin Product /\ s \in DOMAIN table /\ DOMAIN table = Row
  BY VersionOf, Names, InvMine DEF RowsOK
<1>2. Course(r) /\ Arrays /\ RowsOK
  BY InvMine DEF Mine
<1>3. CASE CommitTx(r)
  BY <1>1, <1>3, CommitSeen DEF Seen
<1>4. CASE CreateRow(r)
  <2>1. pc[r] = "create" /\ call[r].op = "create" /\ ~Is(call[r].name)
    BY <1>2, <1>4 DEF CreateRow, Course
  <2>2. table' = [table EXCEPT ![call[r].name] = call[r].row]
    BY <1>4 DEF CreateRow, Autocommit
  <2>3. CASE call[r].name = s
    <3>1. call[r] \in CreateBody
      BY <1>2, <2>1, BodyType DEF Course
    <3>2. call[r].row.debt = 0
      BY <1>1, <2>3, <3>1 DEF CreateBody
    <3> QED
      BY <1>1, <1>4, <2>1, <2>2, <2>3, <3>2
  <2>4. CASE call[r].name # s
    BY <1>1, <2>2, <2>4
  <2> QED
    BY <2>3, <2>4
<1>5. CASE PutProduct(r)
  <2>1. call[r].product \in Product
    BY <1>2, <1>5, NamedRows DEF PutProduct, Course
  <2> QED
    BY <1>1, <1>5, <2>1 DEF PutProduct, Autocommit, Refuse, Rollback
<1>6. CASE PutSupplier(r)
  BY <1>1, <1>6 DEF PutSupplier, Autocommit, Refuse, Rollback
<1>7. CASE SoftDelete(r)
  <2>1. CASE table' = table
    BY <2>1
  <2>2. CASE table' = [table EXCEPT ![call[r].row] = [table[call[r].row] EXCEPT !.live = FALSE]]
    <3>1. CASE call[r].row = s
      <4>1. Is(s)
        BY <1>2, <1>7, <3>1, NamedRows DEF SoftDelete, Course
      <4>2. PICK d \in SupplierRow : d = table[s]
        BY <1>1, <4>1, RowVersion, VersionOf DEF Is
      <4>3. table'[s] = [d EXCEPT !.live = FALSE]
        BY <1>1, <2>2, <3>1, <4>2
      <4>4. ~table'[s].live
        BY <4>2, <4>3 DEF SupplierRow
      <4> QED
        BY <4>4
    <3>2. CASE call[r].row # s
      BY <1>1, <2>2, <3>2
    <3> QED
      BY <3>1, <3>2
  <2> QED
    BY <1>7, <2>1, <2>2 DEF SoftDelete, Autocommit, Refuse, Rollback
<1>8. CASE InsertHeader(r)
  BY <1>1, <1>8, VersionOf DEF InsertHeader, Autocommit
<1> QED
  BY <1>3, <1>4, <1>5, <1>6, <1>7, <1>8, TableKept

\* What the debt to s was ahead of the papers at first.
Start(s) == IF InitRow[s] = NoRow THEN 0 ELSE InitRow[s].debt - OwedIn(InitRow, s)

\* DebtReconciles for a supplier who is not deleted.
Near(s) ==
  LET drift == table[s].debt - OwedIn(table, s) - Start(s)
  IN -Cardinality(Inexact(s)) <= drift /\ drift <= Cardinality(Inexact(s))

LEMMA StartType ==
  ASSUME NEW s \in Supplier
  PROVE  Start(s) \in Int
<1>1. PICK t : t = InitRow
  OBVIOUS
<1>2. Versioned(t)
  BY <1>1, InitRowAssumption, VersionOf DEF Versioned, Rows
<1>3. OwedIn(t, s) \in Int
  <2>1. PICK f : f = [x \in Id |-> OwedBy(t[x], s)]
    OBVIOUS
  <2>2. f \in [Id -> Int]
    BY <1>2, <2>1, TermTypes DEF Versioned
  <2>3. OwedIn(t, s) = SumFunction(f)
    BY <2>1, SumTerms
  <2> QED
    BY <2>2, <2>3, NamesAssumption, FunctionSumInt
<1>4. CASE t[s] # NoRow
  <2>1. t[s] \in SupplierRow
    BY <1>1, <1>4, InitRowAssumption, VersionOf DEF Rows
  <2>2. t[s].debt \in Int
    BY <2>1 DEF SupplierRow
  <2> QED
    BY <1>1, <1>3, <1>4, <2>2 DEF Start
<1> QED
  BY <1>1, <1>4 DEF Start

(* What a transaction adds to the debt and what it records differ by a     *)
(* unit at most, and only where they are rounded apart.                    *)
LEMMA CreditNear ==
  ASSUME NEW r \in Req, call[r] \in Body, call[r].op \in {"order", "payment"}, NEW t \in Int
  PROVE  \E p \in Int, w \in Int :
           /\ p = Plus(t, DebtDelta(r)) /\ w = OwedBy(Paper(call[r]), call[r].supplier)
           /\ p - t - w \in -1 .. 1
           /\ ~Apart(call[r]) => p = t + w
<1>1. PICK b \in Body : b = call[r]
  OBVIOUS
<1>2. CASE b.op = "order"
  <2>1. PICK total \in Nat, paid \in Nat : total = b.total /\ paid = b.paid
    BY <1>1, <1>2, BodyType DEF OrderBody
  <2>2. PICK c \in Int, d \in Int : c = Round(total) /\ d = Round(paid)
    BY RoundType
  <2>3. OwedBy(Paper(b), b.supplier) = c - d
    BY <1>2, <2>1, <2>2, PaperType, Names DEF OwedBy, Moving
  <2>4. PICK n \in Int : n = total - paid
    OBVIOUS
  <2>5. DebtDelta(r) = n /\ Worth(b) = n
    BY <1>1, <1>2, <2>1, <2>4 DEF DebtDelta, Worth
  <2>6. PICK p \in Int : p = Plus(t, n)
    BY PlusIs
  <2>7. p - t - (c - d) \in -1 .. 1
    BY <2>2, <2>4, <2>6, PlusDifference
  <2>8. ~Apart(b) => p = t + (c - d)
    BY <1>2, <2>1, <2>2, <2>5, <2>6, PlusIs DEF Apart
  <2>9. PICK w \in Int : w = c - d
    BY <2>2
  <2> QED
    BY <1>1, <2>3, <2>5, <2>6, <2>7, <2>8, <2>9
<1>3. CASE b.op = "payment"
  <2>1. PICK a \in Nat : a = AmountOf(b)
    BY <1>3, BodyType, AmountType
  <2>2. PICK d \in Int : d = Round(a)
    BY RoundType
  <2>3. OwedBy(Paper(b), b.supplier) = -d
    BY <1>3, <2>1, <2>2, PaperType, Names DEF OwedBy, Moving
  <2>4. DebtDelta(r) = -a /\ Worth(b) = a
    BY <1>1, <1>3, <2>1 DEF DebtDelta, Worth
  <2>5. PICK p \in Int : p = Plus(t, -a)
    BY MinusIs
  <2>6. p - t + d \in -1 .. 1 /\ (~IsHalf(a) => p = t - d)
    BY <2>2, <2>5, MinusIs
  <2>7. PICK w \in Int : w = -d
    BY <2>2
  <2>8. p - t - w \in -1 .. 1 /\ (~Apart(b) => p = t + w)
    BY <2>2, <2>4, <2>6, <2>7 DEF Apart
  <2> QED
    BY <1>1, <2>3, <2>4, <2>5, <2>7, <2>8
<1> QED
  BY <1>1, <1>2, <1>3

(* The requests that were rounded apart stay so, and their number grows    *)
(* with every other that is.                                               *)
LEMMA InexactStep ==
  ASSUME Inv, NEW r \in Req, Act(r), NEW s \in Supplier
  PROVE  \E k \in Nat, n \in Nat :
           /\ k = Cardinality(Inexact(s)) /\ n = Cardinality(Inexact(s)') /\ k <= n
           /\ (/\ Recorded(r) /\ call[r].op \in {"order", "payment"} /\ call[r].supplier = s
               /\ Apart(call[r])) => k + 1 <= n
<1>1. /\ IsFiniteSet(Inexact(s)) /\ Cardinality(Inexact(s)) \in Nat
      /\ IsFiniteSet(Inexact(s)') /\ Cardinality(Inexact(s)') \in Nat
  <2>1. IsFiniteSet(Req)
    BY NamesAssumption, FS_Subset DEF Id
  <2>2. Inexact(s) \in SUBSET Req /\ Inexact(s)' \in SUBSET Req
    BY DEF Inexact
  <2> QED
    BY <2>1, <2>2, FS_Subset, FS_CardinalityType
<1>2. \A q \in Req : pc[q] = "ok" => pc'[q] = "ok" /\ call'[q] = call[q]
  BY Running, StepIsLocal, InvMine DEF OwnChange, Changes
<1>3. Inexact(s) \subseteq Inexact(s)'
  BY <1>2 DEF Inexact, Apart, Worth
<1>4. Cardinality(Inexact(s)) <= Cardinality(Inexact(s)')
  BY <1>1, <1>3, FS_Subset
<1>5. ASSUME Recorded(r), call[r].op \in {"order", "payment"}, call[r].supplier = s, Apart(call[r])
      PROVE  Cardinality(Inexact(s)) + 1 <= Cardinality(Inexact(s)')
  <2>1. pc'[r] = "ok" /\ call'[r] = call[r]
    <3>1. r \in Row
      BY VersionOf
    <3> QED
      BY <1>5, <3>1, CommitSeen DEF Recorded
  <2>2. r \in Inexact(s)'
    BY <1>5, <2>1 DEF Inexact, Apart, Worth
  <2>3. r \notin Inexact(s)
    BY Running DEF Inexact
  <2>4. Cardinality(Inexact(s) \cup {r}) = Cardinality(Inexact(s)) + 1
    BY <1>1, <2>3, FS_AddElement
  <2>5. Inexact(s) \cup {r} \in SUBSET (Inexact(s)')
    BY <1>3, <2>2
  <2> QED
    BY <1>1, <2>4, <2>5, FS_Subset
<1> QED
  BY <1>1, <1>4, <1>5

LEMMA DebtStep ==
  ASSUME Inv, NEW r \in Req, Papers(r), Credit(r), Act(r), Foreign, Found, DebtReconciles
  PROVE  DebtReconciles'
<1> SUFFICES ASSUME NEW s \in Supplier, table'[s] # NoRow, table'[s].live
             PROVE  LET drift == table'[s].debt - OwedIn(table', s) - Start(s)
                    IN -Cardinality(Inexact(s)') <= drift /\ drift <= Cardinality(Inexact(s)')
  BY DEF DebtReconciles, Kind, Start
<1>1. /\ OwedIn(table, s) \in Int
      /\ OwedIn(table', s) =
           OwedIn(table, s) + IF Recorded(r) THEN OwedBy(Paper(call[r]), s) ELSE 0
  BY SumsStep
<1>2. Is(s) => table[s] \in SupplierRow /\ Kind(s, "supplier") /\ table[s].debt \in Int
  <2>1. Is(s) => table[s] \in SupplierRow
    BY RowVersion, VersionOf DEF Is
  <2> QED
    BY <2>1 DEF SupplierRow, Kind, Is
<1>3. Is(s) /\ table[s].live => Near(s)
  BY <1>2 DEF DebtReconciles, Near, Start
<1>4. PICK k \in Nat, n \in Nat :
        /\ k = Cardinality(Inexact(s)) /\ n = Cardinality(Inexact(s)') /\ k <= n
        /\ (/\ Recorded(r) /\ call[r].op \in {"order", "payment"} /\ call[r].supplier = s
            /\ Apart(call[r])) => k + 1 <= n
  BY InexactStep
<1>5. PICK f \in Int : f = Start(s)
  BY StartType
<1>6. CASE CommitTx(r) /\ s \in Locked(r)
  <2>1. /\ s = call[r].supplier /\ Credited(r)
        /\ table'[s] = [table[s] EXCEPT !.debt = Plus(@, DebtDelta(r))]
    BY <1>6, CommitSeen, VersionOf DEF Credit, Seen
  <2>2. Is(s) /\ table[s].live
    BY <1>6, InvMine DEF Mine, Drafts, Drafted
  <2>3. Recorded(r) /\ pc[r] = "commit" /\ call[r].op \in {"order", "payment"}
    BY <1>6, <2>1 DEF Recorded, Credited, Moving, CommitTx
  <2>4. PICK t \in Int : t = table[s].debt
    BY <1>2, <2>2
  <2>5. PICK p \in Int, w \in Int :
          /\ p = Plus(t, DebtDelta(r)) /\ w = OwedBy(Paper(call[r]), s)
          /\ p - t - w \in -1 .. 1
          /\ ~Apart(call[r]) => p = t + w
    BY <2>1, <2>3, CommitBody, CreditNear
  <2>6. table'[s].debt = p
    <3>1. PICK d \in SupplierRow : d = table[s]
      BY <1>2, <2>2
    <3> QED
      BY <2>1, <2>4, <2>5, <3>1 DEF SupplierRow
  <2>7. PICK o \in Int : o = OwedIn(table, s)
    BY <1>1
  <2>8. OwedIn(table', s) = o + w
    BY <1>1, <2>3, <2>5, <2>7
  <2>9. -k <= t - o - f /\ t - o - f <= k
    BY <1>3, <1>4, <1>5, <2>2, <2>4, <2>7 DEF Near
  <2>10. Apart(call[r]) => k + 1 <= n
    BY <1>4, <2>1, <2>3
  <2>11. -n <= p - (o + w) - f /\ p - (o + w) - f <= n
    BY <1>4, <1>5, <2>5, <2>7, <2>9, <2>10
  <2> QED
    BY <1>4, <1>5, <2>6, <2>8, <2>11
<1>7. CASE table'[s] = table[s] /\ ~(CommitTx(r) /\ s \in Locked(r))
  <2>1. ASSUME Recorded(r) PROVE OwedBy(Paper(call[r]), s) = 0
    <3>1. PICK b \in Body : b = call[r] /\ b.op \in Moving /\ pc[r] = "commit"
      BY <2>1, CommitBody DEF Recorded
    <3>2. b.op = "payment" => b.supplier # s
      BY <1>7, <2>1, <3>1 DEF Recorded, Credit, Credited
    <3>3. b.op = "order" => b.supplier # s \/ b.paid = b.total
      BY <1>7, <2>1, <3>1 DEF Recorded, Credit, Credited
    <3>4. b.op = "order" => Round(b.total) \in Int
      BY <3>1, BodyType, RoundType DEF OrderBody
    <3> QED
      BY <3>1, <3>2, <3>3, <3>4, PaperType DEF OwedBy, Moving
  <2>2. OwedIn(table', s) = OwedIn(table, s)
    BY <1>1, <2>1
  <2>3. PICK t \in Int, o \in Int : t = table[s].debt /\ o = OwedIn(table, s)
    BY <1>1, <1>2, <1>7 DEF Is
  <2>4. -k <= t - o - f /\ t - o - f <= k
    BY <1>3, <1>4, <1>5, <1>7, <2>3 DEF Near, Is
  <2>5. -n <= t - o - f /\ t - o - f <= n
    BY <1>4, <1>5, <2>3, <2>4
  <2> QED
    BY <1>4, <1>5, <1>7, <2>2, <2>3, <2>5
<1>8. CASE CreateRow(r) /\ pc[r] = "create" /\ ~Is(s) /\ table'[s].debt = 0
  <2>1. Start(s) = 0
    BY <1>8, VersionOf DEF Found, Start
  <2>2. ASSUME NEW x \in Id PROVE OwedBy(table[x], s) = 0
    BY <1>8 DEF Foreign, Cites, MadeBy, OwedBy, Is
  <2>3. OwedIn(table, s) = 0
    BY <2>2, NoSums
  <2>4. ~Recorded(r)
    BY <1>8 DEF Recorded, CommitTx
  <2>5. OwedIn(table', s) = 0
    BY <1>1, <2>3, <2>4
  <2> QED
    BY <1>4, <1>8, <2>1, <2>5
<1> QED
  BY <1>6, <1>7, <1>8, SupplierChange

(* The request that has created a row is the only one that could.          *)
LEMMA Creator ==
  ASSUME NEW c, NEW p, NEW q \in Req, c[q].op = "create", c[q].name = p,
         \A r, s \in Req : (r # s /\ c[r].op = "create" /\ c[s].op = "create") => c[r].name # c[s].name
  PROVE  (CHOOSE r \in Req : c[r].op = "create" /\ c[r].name = p) = q
OBVIOUS

LEMMA FirstRowKept ==
  ASSUME Inv, NEW r \in Req, Act(r), Found, NEW p \in Product, Is(p)
  PROVE  FirstRow(p)' = FirstRow(p)
<1>1. CASE InitRow[p] # NoRow
  BY <1>1 DEF FirstRow
<1>2. CASE InitRow[p] = NoRow
  <2>1. PICK q \in Req : call[q].op = "create" /\ call[q].name = p
    BY <1>2 DEF Found
  <2>2. pc[q] # "idle"
    BY <2>1, InvMine DEF Mine, Course, NoCall
  <2>3. PICK c, d : c = call /\ d = call'
    OBVIOUS
  <2>4. d[q] = c[q]
    BY <2>2, <2>3, CallKept
  <2>5. \A s, u \in Req : (s # u /\ c[s].op = "create" /\ c[u].op = "create") => c[s].name # c[u].name
    BY <2>3 DEF Inv, Distinct
  <2>6. \A s, u \in Req : (s # u /\ d[s].op = "create" /\ d[u].op = "create") => d[s].name # d[u].name
    BY <2>3, DistinctStep DEF Distinct
  <2>7. (CHOOSE s \in Req : c[s].op = "create" /\ c[s].name = p) = q
    BY <2>1, <2>3, <2>5, Creator
  <2>8. (CHOOSE s \in Req : d[s].op = "create" /\ d[s].name = p) = q
    BY <2>1, <2>3, <2>4, <2>6, Creator
  <2>9. FirstRow(p) = call[q].row
    BY <1>2, <2>3, <2>7 DEF FirstRow
  <2>10. FirstRow(p)' = call'[q].row
    BY <1>2, <2>3, <2>8 DEF FirstRow
  <2> QED
    BY <2>3, <2>4, <2>9, <2>10
<1> QED
  BY <1>1, <1>2

LEMMA Unmoved ==
  ASSUME NEW t, Versioned(t), NEW p, NEW place \in Place,
         \A x \in MadeBy(t, {"order", "payment", "transfer"}) :
           \A i \in DOMAIN t[x].moves : t[x].moves[i].product # p
  PROVE  MovedIn(t, p, place) = 0
<1>1. ASSUME NEW x \in Id PROVE BroughtBy(t[x], p, place) = 0
  <2>1. CASE t[x] # NoRow /\ t[x].kind \in {"order", "payment", "transfer"}
    <3>1. t[x] \in PaperRow
      BY <2>1 DEF Versioned
    <3>2. t[x].moves \in Seq(Move)
      BY <2>1, <3>1 DEF PaperRow, OrderRow, PaymentRow, TransferRow, CheckRow
    <3>3. \A i \in DOMAIN t[x].moves : t[x].moves[i].product # p
      BY <2>1 DEF MadeBy
    <3> QED
      BY <2>1, <3>2, <3>3, MovedNone DEF BroughtBy
  <2> QED
    BY <2>1 DEF BroughtBy
<1> QED
  BY <1>1, NoSums

(* The location of a check never changes.                                  *)
LEMMA LocationStays ==
  ASSUME Inv, NEW r \in Req, Papers(r), Act(r), NEW c \in Id, Kind(c, "check")
  PROVE  table'[c].location = table[c].location
<1>1. CASE table[c] \in OrderRow
  BY <1>1 DEF Kind, OrderRow
<1>2. CASE table[c] \in CheckRow /\ table'[c] = [table[c] EXCEPT !.status = "completed"]
  BY <1>2 DEF CheckRow
<1> QED
  BY <1>1, <1>2, PaperChange DEF Kind, Is

LEMMA CorrectedStays ==
  ASSUME Inv, NEW r \in Req, Papers(r), Act(r), NEW p, NEW place, Corrected(p, place)
  PROVE  Corrected(p, place)'
<1>1. PICK q \in Req :
        /\ pc[q] = "ok" /\ call[q].op = "count" /\ call[q].complete
        /\ \E x \in ItemsOf(call[q].check) : x[2] = p /\ table[call[q].check].location = place
  BY DEF Corrected
<1>2. q # r /\ pc'[q] = pc[q] /\ call'[q] = call[q]
  BY <1>1, Running, StepIsLocal, InvMine DEF OwnChange, Changes
<1>3. PICK c : c = call[q].check
  OBVIOUS
<1>4. PICK x \in ItemsOf(c) : x[2] = p /\ table[c].location = place
  BY <1>1, <1>3
<1>5. x \in Item /\ x[1] = c /\ c \in Id /\ Kind(c, "check")
  BY <1>4, Names DEF ItemsOf, Inv, Items, Is
<1>6. table'[x] # NoRow
  BY <1>4, RowsStay, VersionOf DEF ItemsOf, Is
<1>7. table'[c].location = place
  BY <1>4, <1>5, LocationStays
<1> QED
  BY <1>1, <1>2, <1>3, <1>4, <1>5, <1>6, <1>7 DEF Corrected, ItemsOf

LEMMA OverwrittenStays ==
  ASSUME Inv, NEW r \in Req, Act(r)
  PROVE  Overwritten \subseteq Overwritten'
<1>1. \A q \in Req : pc[q] = "ok" => pc'[q] = "ok" /\ call'[q] = call[q]
  BY Running, StepIsLocal, InvMine DEF OwnChange, Changes
<1> QED
  BY <1>1 DEF Overwritten

(* What there is of a product that is there changes at a commit, by what   *)
(* was moved, and when the product is overwritten.                         *)
LEMMA GoodsChange ==
  ASSUME Inv, NEW r \in Req, Act(r), NEW p \in Product, Is(p), p \notin Overwritten',
         NEW place \in Place
  PROVE  /\ moved[r][p][place] \in Int /\ table[p][place] \in Int
         /\ table'[p][place] = table[p][place] + IF CommitTx(r) THEN moved[r][p][place] ELSE 0
<1>1. p \in Row /\ p \notin Id /\ p \notin Supplier /\ p \in DOMAIN table /\ DOMAIN table = Row
  BY VersionOf, Names, InvMine DEF RowsOK
<1>2. Course(r) /\ Arrays /\ RowsOK
  BY InvMine DEF Mine
<1>3. PICK d \in ProductRow : d = table[p]
  BY <1>1, RowVersion, VersionOf DEF Is
<1>4. d.shop \in Int /\ d.warehouse \in Int /\ d[place] \in Int
  BY <1>3 DEF ProductRow, Place
<1>5. moved[r][p] \in Movement /\ moved[r][p][place] \in Int
  <2>1. moved[r][p] \in Movement
    BY InvMine DEF Mine, Types
  <2> QED
    BY <2>1 DEF Movement, Place
<1>6. CASE CommitTx(r)
  <2>1. CASE p \in Locked(r)
    <3>1. Moves(table[p], moved[r][p], draft[r][p])
      BY <2>1, InvMine DEF Mine, Ledger
    <3>2. table'[p] = draft[r][p]
      BY <1>1, <1>6, <2>1, CommitSeen DEF Seen
    <3> QED
      BY <1>3, <1>4, <1>5, <1>6, <3>1, <3>2 DEF Moves, Place
  <2>2. CASE p \notin Locked(r)
    <3>1. moved[r][p] = [shop |-> 0, warehouse |-> 0]
      BY <1>6, <2>2, InvMine DEF Mine, Ledger, CommitTx
    <3>2. table'[p] = table[p]
      BY <1>1, <1>6, <2>2, CommitSeen DEF Seen
    <3> QED
      BY <1>3, <1>4, <1>6, <3>1, <3>2 DEF Place
  <2> QED
    BY <2>1, <2>2
<1>7. CASE CreateRow(r)
  <2>1. pc[r] = "create" /\ call[r].name # p
    BY <1>2, <1>7 DEF CreateRow, Course
  <2>2. table'[p] = table[p]
    BY <1>1, <1>7, <2>1 DEF CreateRow, Autocommit
  <2> QED
    BY <1>3, <1>4, <1>5, <2>1, <2>2 DEF CommitTx
<1>8. CASE PutProduct(r)
  <2>1. table'[p] = table[p]
    <3>1. CASE table' = table
      BY <3>1
    <3>2. CASE /\ table' = [table EXCEPT ![call[r].product] = Updated(r)]
               /\ pc'[r] = "ok" /\ call' = call
      <4>1. call[r].op = "update"
        BY <1>2, <1>8 DEF PutProduct, Course
      <4>2. p # call[r].product
        BY <3>2, <4>1 DEF Overwritten
      <4> QED
        BY <1>1, <3>2, <4>2
    <3> QED
      BY <1>2, <1>8, <3>1, <3>2 DEF PutProduct, Autocommit, Refuse, Rollback, Leave, Goto, Arrays
  <2> QED
    BY <1>3, <1>4, <1>5, <1>8, <2>1 DEF CommitTx, PutProduct
<1>9. CASE PutSupplier(r) \/ InsertHeader(r)
  <2>1. table'[p] = table[p]
    <3>1. PutSupplier(r) => call[r].supplier \in Supplier
      BY <1>2, NamedRows DEF PutSupplier, Course
    <3>2. r # p
      BY <1>1, VersionOf
    <3> QED
      BY <1>1, <1>9, <3>1, <3>2 DEF PutSupplier, InsertHeader, Autocommit, Refuse, Rollback
  <2> QED
    BY <1>3, <1>4, <1>5, <1>9, <2>1 DEF CommitTx, PutSupplier, InsertHeader
<1>10. CASE SoftDelete(r)
  <2>1. table'[p][place] = table[p][place]
    <3>1. CASE table' = table
      BY <3>1
    <3>2. CASE table' = [table EXCEPT ![call[r].row] = [table[call[r].row] EXCEPT !.live = FALSE]]
      <4>1. CASE call[r].row = p
        <5>1. table'[p] = [d EXCEPT !.live = FALSE]
          BY <1>1, <1>3, <3>2, <4>1
        <5> QED
          BY <1>3, <5>1 DEF ProductRow, Place
      <4>2. CASE call[r].row # p
        BY <1>1, <3>2, <4>2
      <4> QED
        BY <4>1, <4>2
    <3> QED
      BY <1>10, <3>1, <3>2 DEF SoftDelete, Autocommit, Refuse, Rollback
  <2> QED
    BY <1>3, <1>4, <1>5, <1>10, <2>1 DEF CommitTx, SoftDelete
<1>11. CASE table' = table /\ ~CommitTx(r)
  BY <1>3, <1>4, <1>5, <1>11
<1> QED
  BY <1>6, <1>7, <1>8, <1>9, <1>10, <1>11, TableKept

LEMMA StockStep ==
  ASSUME Inv, NEW r \in Req, Papers(r), Carried(r), Act(r), Foreign, Found, StockReconciles
  PROVE  StockReconciles'
<1> SUFFICES ASSUME NEW p \in Product, p \notin Overwritten', NEW place \in Place,
                    table'[p] # NoRow, ~Corrected(p, place)'
             PROVE  table'[p][place] - MovedIn(table', p, place) =
                      FirstRow(p)'[place] - MovedIn(InitRow, p, place)
  BY DEF StockReconciles, Kind
<1>1. /\ MovedIn(table, p, place) \in Int
      /\ MovedIn(table', p, place) =
           MovedIn(table, p, place) + IF Recorded(r) THEN BroughtBy(Paper(call[r]), p, place) ELSE 0
  BY SumsStep
<1>2. CASE Is(p)
  <2>1. table[p][place] - MovedIn(table, p, place) = FirstRow(p)[place] - MovedIn(InitRow, p, place)
    <3>1. Kind(p, "product")
      <4>1. table[p] \in ProductRow
        BY <1>2, RowVersion, VersionOf DEF Is
      <4> QED
        BY <1>2, <4>1 DEF ProductRow, Kind, Is
    <3>2. p \notin Overwritten /\ ~Corrected(p, place)
      BY OverwrittenStays, CorrectedStays
    <3> QED
      BY <3>1, <3>2 DEF StockReconciles
  <2>2. FirstRow(p)' = FirstRow(p)
    BY <1>2, FirstRowKept
  <2>3. /\ moved[r][p][place] \in Int /\ table[p][place] \in Int
        /\ table'[p][place] = table[p][place] + IF CommitTx(r) THEN moved[r][p][place] ELSE 0
    BY <1>2, GoodsChange
  <2>4. CASE Recorded(r)
    <3>1. PICK b \in Body : b = call[r] /\ b.op \in Moving /\ pc[r] = "commit"
      BY <2>4, CommitBody DEF Recorded
    <3>2. BroughtBy(Paper(b), p, place) = MovedBy(b.moves, p, place)
      BY <3>1, PaperType, Names DEF BroughtBy, Moving
    <3>3. MovedBy(b.moves, p, place) = moved[r][p][place] + ToMove(r, p, place)
      BY <3>1 DEF Carried, Moving
    <3>4. ToMove(r, p, place) = 0
      BY <3>1 DEF ToMove
    <3> QED
      BY <1>1, <2>1, <2>2, <2>3, <2>4, <3>1, <3>2, <3>3, <3>4 DEF Recorded
  <2>5. CASE CommitTx(r) /\ call[r].op \notin Moving
    <3>1. pc[r] = "commit" /\ pc'[r] = "ok" /\ call' = call
      BY <1>2, <2>5, CommitSeen, VersionOf
    <3>2. call[r].op \in {"check", "count"}
      BY <2>5, <3>1, InvMine DEF Mine, Course
    <3>3. moved[r][p][place] = 0
      <4>1. CASE call[r].op = "check"
        BY <3>1, <4>1 DEF Carried, Moving
      <4>2. CASE call[r].op = "count" /\ moved[r][p][place] # 0
        <5>1. PICK c : c = call[r].check
          OBVIOUS
        <5>2. call[r].complete /\ place = table[c].location
          BY <3>1, <4>2, <5>1 DEF Carried, Moving
        <5>3. PICK x \in ItemsOf(c) : x[2] = p
          BY <3>1, <4>2, <5>1 DEF Carried, Moving
        <5>4. x \in Item /\ x[1] = c /\ c \in Id /\ Kind(c, "check")
          BY <5>3, Names DEF ItemsOf, Inv, Items, Is
        <5>5. table'[x] # NoRow
          BY <5>3, RowsStay, VersionOf DEF ItemsOf, Is
        <5>6. table'[c].location = place
          BY <5>2, <5>4, LocationStays
        <5>7. Corrected(p, place)'
          BY <3>1, <4>2, <5>1, <5>2, <5>3, <5>4, <5>5, <5>6 DEF Corrected, ItemsOf
        <5> QED
          BY <5>7
      <4> QED
        BY <3>2, <4>1, <4>2
    <3>4. ~Recorded(r)
      BY <2>5 DEF Recorded
    <3> QED
      BY <1>1, <2>1, <2>2, <2>3, <3>3, <3>4
  <2>6. CASE ~CommitTx(r)
    BY <1>1, <2>1, <2>2, <2>3, <2>6 DEF Recorded
  <2> QED
    BY <2>4, <2>5, <2>6 DEF Recorded
<1>3. CASE ~Is(p)
  <2>1. p \in Row /\ p \notin Id
    BY VersionOf, Names
  <2>2. ~Filed(r, p)
    BY <1>3 DEF Filed, Inv, Drafts, Drafted
  <2>3. ~Put(r, p) /\ ~Headed(r, p)
    BY <1>3, <2>1, VersionOf DEF Put, Headed
  <2>4. CreateRow(r) /\ pc[r] = "create" /\ call[r].op = "create" /\ call[r].name = p
    BY <1>3, <2>1, <2>2, <2>3, RowChange DEF Is, Made
  <2>5. table'[p] = call[r].row
    BY <2>1, <2>4, InvMine DEF CreateRow, Autocommit, RowsOK
  <2>6. call'[r] = call[r]
    BY <2>4, CallKept
  <2>7. InitRow[p] = NoRow
    BY <1>3, <2>1 DEF Found
  <2>8. FirstRow(p)' = call[r].row
    <3>1. PICK d : d = call'
      OBVIOUS
    <3>2. \A s, u \in Req : (s # u /\ d[s].op = "create" /\ d[u].op = "create") => d[s].name # d[u].name
      BY <3>1, DistinctStep DEF Distinct
    <3>3. (CHOOSE s \in Req : d[s].op = "create" /\ d[s].name = p) = r
      BY <2>4, <2>6, <3>1, <3>2, Creator
    <3> QED
      BY <2>6, <2>7, <3>1, <3>3 DEF FirstRow
  <2>9. MovedIn(table, p, place) = 0
    <3>1. Versioned(table)
      BY RowVersion, VersionOf DEF Versioned
    <3>2. \A x \in MadeBy(table, {"order", "payment", "transfer"}) :
            \A i \in DOMAIN table[x].moves : table[x].moves[i].product # p
      BY <1>3 DEF Foreign, Cites, Is
    <3> QED
      BY <3>1, <3>2, Unmoved
  <2>10. MovedIn(InitRow, p, place) = 0
    <3>1. Versioned(InitRow)
      BY InitRowAssumption, VersionOf DEF Versioned, Rows
    <3>2. \A x \in MadeBy(InitRow, {"order", "payment", "transfer"}) :
            \A i \in DOMAIN InitRow[x].moves : InitRow[x].moves[i].product # p
      BY <2>7, PaperAssumption
    <3> QED
      BY <3>1, <3>2, Unmoved
  <2>11. ~Recorded(r)
    BY <2>4 DEF Recorded, CommitTx
  <2>12. PICK n, m : n = MovedIn(table, p, place) /\ m = MovedIn(table', p, place)
    OBVIOUS
  <2>13. n = 0 /\ m = 0
    BY <1>1, <2>9, <2>11, <2>12
  <2> QED
    BY <2>5, <2>8, <2>10, <2>12, <2>13
<1> QED
  BY <1>2, <1>3

-----------------------------------------------------------------------------
(* What a transaction has written and moved fits while the others work.    *)

(* Rows that become orders are the requests' own: the order of a payment   *)
(* is one now if it is one after the step of another.                      *)
LEMMA OrderBefore ==
  ASSUME Inv, NEW r \in Req, Papers(r), Act(r), NEW q \in Req, pc[q] # "idle",
         call[q].op = "payment", NEW o, o = call[q].order, o # NoRow, table'[o] # NoRow,
         table'[o].kind = "order"
  PROVE  o \in Id /\ Kind(o, "order")
<1>1. o \in Id /\ (o \in Req => Is(o))
  BY NamedThere DEF Moving
<1>2. CASE Is(o)
  <2>1. o \in Row
    BY <1>1, VersionOf
  <2> QED
    BY <1>1, <1>2, <2>1, RowsStay DEF Kind, Is
<1>3. CASE ~Is(o)
  <2>1. o # r
    BY <1>1, <1>3
  <2>2. CASE table[o] \in OrderRow
    BY <1>3, <2>2, Names DEF PaperRow, Is
  <2>3. CASE table[o] \in CheckRow
    BY <1>3, <2>3, Names DEF PaperRow, Is
  <2>4. CASE table'[o] \in CheckRow
    BY <2>4 DEF CheckRow
  <2> QED
    BY <1>1, <1>3, <2>1, <2>2, <2>3, <2>4, PaperChange DEF Is
<1> QED
  BY <1>2, <1>3

LEMMA OthersPapers ==
  ASSUME Inv, NEW r \in Req, Papers(r), Act(r), NEW q \in Req \ {r}, Papers(q)
  PROVE  Papers(q)'
<1>1. draft'[q] = draft[q] /\ pc'[q] = pc[q] /\ call'[q] = call[q]
  BY StepIsLocal, InvMine DEF OwnChange, Changes
<1>2. Locked(q)' = Locked(q) /\ \A x \in Locked(q) : table'[x] = table[x]
  BY <1>1, LockedStay DEF Locked
<1>3. PICK b : b = call[q]
  OBVIOUS
<1>4. q \in Locked(q) => draft[q][q] = Paper(b)
  BY <1>3 DEF Papers
<1>5. pc[q] = "commit" /\ b.op \in Moving => q \in Locked(q)
  BY <1>3 DEF Papers
<1>6. b.op = "payment" /\ b.order \in Locked(q) =>
        /\ pc[q] \in {"pay", "commit"}
        /\ draft[q][b.order] = PaidOrder(table'[b.order], AmountOf(b))
  BY <1>2, <1>3 DEF Papers
<1>7. ASSUME b.op = "payment", pc[q] \in {"pay", "commit"}, b.order # NoRow,
             table'[b.order] # NoRow, table'[b.order].kind = "order"
      PROVE  b.order \in Locked(q)
  BY <1>3, <1>7, OrderBefore DEF Papers
<1>8. ASSUME b.op = "payment", pc[q] = "commit", b.order # NoRow
      PROVE  table'[b.order] # NoRow /\ table'[b.order].kind = "order"
  <2>1. Kind(b.order, "order")
    BY <1>3, <1>8 DEF Papers
  <2>2. b.order \in Row
    BY <1>3, <1>8, NamedThere, VersionOf DEF Moving
  <2> QED
    BY <2>1, <2>2, RowsStay DEF Kind, Is
<1>9. b.op = "count" /\ b.check \in Locked(q) =>
        draft[q][b.check] = [table'[b.check] EXCEPT !.status = "completed"]
  BY <1>2, <1>3 DEF Papers
<1> QED
  BY <1>1, <1>2, <1>3, <1>4, <1>5, <1>6, <1>7, <1>8, <1>9 DEF Papers, Kind

LEMMA OthersCredit ==
  ASSUME Inv, NEW r \in Req, Act(r), NEW q \in Req \ {r}, Credit(q)
  PROVE  Credit(q)'
<1>1. draft'[q] = draft[q] /\ pc'[q] = pc[q] /\ call'[q] = call[q]
  BY StepIsLocal, InvMine DEF OwnChange, Changes
<1>2. Locked(q)' = Locked(q) /\ \A x \in Locked(q) : table'[x] = table[x]
  BY <1>1, LockedStay DEF Locked
<1>3. Credited(q)' <=> Credited(q)
  BY <1>1 DEF Credited
<1>4. DebtDelta(q)' = DebtDelta(q)
  BY <1>1 DEF DebtDelta
<1>5. ASSUME Credited(q), table'[call[q].supplier].live PROVE call[q].supplier \in Locked(q)
  <2>1. pc[q] # "idle" /\ call[q].op \in {"order", "payment"}
    BY <1>5 DEF Credited
  <2>2. call[q].supplier \in Supplier /\ Is(call[q].supplier)
    BY <2>1, InvMine, NamedRows DEF Mine
  <2>3. table[call[q].supplier].live
    BY <1>5, <2>2, DeletedStays
  <2> QED
    BY <1>5, <2>3 DEF Credit
<1>6. ASSUME NEW s \in Locked(q) \cap Supplier
      PROVE  /\ s = call[q].supplier /\ Credited(q)
             /\ draft[q][s] = [table'[s] EXCEPT !.debt = Plus(@, DebtDelta(q))]
  BY <1>2 DEF Credit
<1> QED
  BY <1>1, <1>2, <1>3, <1>4, <1>5, <1>6 DEF Credit

LEMMA OthersCarried ==
  ASSUME Inv, NEW r \in Req, Papers(r), Act(r), NEW q \in Req \ {r}, Carried(q)
  PROVE  Carried(q)'
<1>1. moved'[q] = moved[q] /\ pc'[q] = pc[q] /\ call'[q] = call[q] /\ todo'[q] = todo[q]
  BY StepIsLocal, InvMine DEF OwnChange, Changes
<1>2. PICK b : b = call[q]
  OBVIOUS
<1>3. ASSUME NEW c, NEW x \in ItemsOf(c)
      PROVE  x \in ItemsOf(c)' /\ table'[c].location = table[c].location
  <2>1. x \in Item /\ x[1] = c /\ Is(x) /\ c \in Id /\ Kind(c, "check")
    BY Names DEF ItemsOf, Inv, Items, Is
  <2>2. table'[x] # NoRow
    BY <2>1, RowsStay, VersionOf
  <2> QED
    BY <2>1, <2>2, LocationStays DEF ItemsOf
<1>4. ASSUME pc[q] \in {"item", "set"}
      PROVE  \A i \in DOMAIN todo[q] : todo[q][i].item \in ItemsOf(b.check)'
  BY <1>2, <1>3, <1>4 DEF Carried
<1>5. \A p, place : ToMove(q, p, place)' = ToMove(q, p, place)
  BY <1>1 DEF ToMove
<1>6. ASSUME pc[q] \notin {"failed", "ok"}, NEW p \in Product, NEW place \in Place,
             b.op = "count", moved[q][p][place] # 0
      PROVE  /\ b.complete /\ place = table'[b.check].location
             /\ \E x \in ItemsOf(b.check)' : x[2] = p
  <2>1. /\ b.complete /\ place = table[b.check].location
        /\ \E x \in ItemsOf(b.check) : x[2] = p
    BY <1>2, <1>6 DEF Carried, Moving
  <2>2. PICK x \in ItemsOf(b.check) : x[2] = p
    BY <2>1
  <2> QED
    BY <1>3, <2>1, <2>2
<1>7. ASSUME pc[q] \notin {"failed", "ok"}, NEW p \in Product, NEW place \in Place
      PROVE  /\ b.op \in Moving =>
                  MovedBy(b.moves, p, place) = moved[q][p][place] + ToMove(q, p, place)
             /\ b.op \notin Moving \cup {"count"} => moved[q][p][place] = 0
  BY <1>2, <1>7 DEF Carried, Moving
<1>8. PICK c : c = b.check
  OBVIOUS
<1> QED
  BY <1>1, <1>2, <1>4, <1>5, <1>6, <1>7, <1>8 DEF Carried, Moving

-----------------------------------------------------------------------------
(* What a request has written and moved fits after a step of its own.      *)

Settled(r) == Papers(r) /\ Credit(r) /\ Carried(r)

(* Nothing is left of a request that has answered.                         *)
LEMMA DoneSettled ==
  ASSUME NEW r \in Req, pc'[r] \in {"ok", "failed"}, draft'[r] = NoDraft
  PROVE  Settled(r)'
<1>1. Locked(r)' = {}
  BY DEF Locked, NoDraft
<1> QED
  BY <1>1 DEF Settled, Papers, Credit, Credited, Carried

(* And nothing is written yet by one that works on the pool.               *)
LEMMA RestSettled ==
  ASSUME Inv, NEW r \in Req, draft'[r] = NoDraft, moved'[r] = moved[r], pc[r] \in Outside \ {"ok"},
         pc'[r] \in Outside, call'[r].op \notin Moving \cup {"count"}
  PROVE  Settled(r)'
<1>1. Locked(r)' = {}
  BY DEF Locked, NoDraft
<1>2. \A p \in Product : \A place \in Place : moved'[r][p][place] = 0
  <2>1. ASSUME NEW p \in Product PROVE moved'[r][p] = [shop |-> 0, warehouse |-> 0]
    BY NothingMoved
  <2> QED
    BY <2>1 DEF Place
<1>3. Papers(r)'
  BY <1>1 DEF Papers, Moving, Outside
<1>4. Credit(r)'
  BY <1>1 DEF Credit, Credited, Outside
<1>5. Carried(r)'
  BY <1>2 DEF Carried, Moving, Outside
<1> QED
  BY <1>3, <1>4, <1>5 DEF Settled

(* Where neither papers nor suppliers are written.                         *)
LEMMA PapersKept ==
  ASSUME Inv, NEW r \in Req, Papers(r), Credit(r), pc[r] # "idle", table' = table,
         call'[r] = call[r],
         \A x \in Locked(r)' \ (Product \cup Item) : x \in Locked(r) /\ draft'[r][x] = draft[r][x],
         pc[r] \notin {"insert", "debt", "paid", "pay", "commit"},
         pc'[r] \notin {"paid", "pay"}, pc'[r] = "debt" => call[r].op = "payment",
         pc'[r] = "commit" => call[r].op \in {"check", "count"}
  PROVE  Papers(r)' /\ Credit(r)'
<1>1. PICK b \in Body : b = call[r]
  BY InvMine DEF Mine, Course
<1>2. r \notin Product \cup Item
  BY VersionOf, Names
<1>3. b.op = "payment" => b.order \notin Locked(r)'
  <2>1. CASE b.op = "payment"
    <3>1. b.order \in Id \cup {NoRow}
      BY <2>1, BodyType DEF PaymentBody
    <3>2. b.order \notin Product \cup Item
      BY <3>1, Names, NamesAssumption DEF Row
    <3>3. b.order \notin Locked(r)
      BY <1>1, <2>1 DEF Papers
    <3> QED
      BY <3>2, <3>3
  <2> QED
    BY <2>1
<1>4. b.op = "count" /\ b.check \in Locked(r)' =>
        draft'[r][b.check] = [table[b.check] EXCEPT !.status = "completed"]
  <2>1. CASE b.op = "count" /\ b.check \in Locked(r)'
    <3>1. b.check \notin Product \cup Item
      BY <2>1, BodyType, Names DEF CountBody
    <3> QED
      BY <1>1, <2>1, <3>1 DEF Papers
  <2> QED
    BY <2>1
<1>5. Papers(r)'
  BY <1>1, <1>2, <1>3, <1>4 DEF Papers, Moving
<1>6. \A s \in Supplier : s \notin Locked(r)'
  BY Names DEF Credit, Credited
<1>7. Credit(r)'
  BY <1>1, <1>6 DEF Credit, Credited
<1> QED
  BY <1>5, <1>7

LEMMA WriteOnly ==
  ASSUME Inv, NEW r \in Req, NEW x, NEW v, NEW new, new = [y \in {x} |-> v], Write(r, new)
  PROVE  /\ table' = table
         /\ Locked(r)' = Locked(r) \cup {x}
         /\ draft'[r][x] = v
         /\ \A y \in Locked(r) \ {x} : draft'[r][y] = draft[r][y]
<1>1. RowsOK /\ DOMAIN new = {x} /\ new[x] = v
  BY InvMine
<1> QED
  BY <1>1, WriteEffect

(* The loops over the movements and over the counts.                       *)
LEMMA LockSettled ==
  ASSUME Inv, NEW r \in Req, Settled(r), LockProduct(r) \/ LockCounted(r), ~Refuse(r)
  PROVE  Settled(r)'
<1>1. Mine(r) /\ Arrays
  BY InvMine
<1>2. PICK p : /\ GetByIDForUpdate(r, p)
               /\ p = IF pc[r] = "lock" THEN Head(todo[r]).product ELSE Head(todo[r]).item[2]
  BY DEF LockProduct, LockCounted
<1>3. /\ moved' = moved /\ call' = call /\ todo' = todo
      /\ (pc[r] = "lock" /\ pc'[r] = "move") \/ (pc[r] = "item" /\ pc'[r] = "set")
  BY <1>1 DEF LockProduct, LockCounted, Goto, locals, Arrays
<1>4. p \in Product
  <2>1. todo[r] # <<>> /\ todo[r] \in Seq(Move \cup Count)
    BY <1>1, <1>3 DEF Mine, Course, Types
  <2>2. 1 \in DOMAIN todo[r] /\ Head(todo[r]) = todo[r][1]
    BY <2>1, TailOf
  <2>3. pc[r] = "lock" => Head(todo[r]) \in Move
    BY <1>1, <2>2 DEF Mine, Course
  <2>4. pc[r] = "item" => Head(todo[r]) \in Count
    BY <1>1, <2>2 DEF Mine, Course
  <2> QED
    BY <1>2, <1>3, <2>3, <2>4, Names DEF Move, Count
<1>5. PICK new : new = [y \in {p} |-> Seen(r, p)]
  OBVIOUS
<1>6. Write(r, new)
  <2>1. new = [y \in {p} |-> Seen(r, y)]
    BY <1>5
  <2> QED
    BY <1>2, <2>1 DEF GetByIDForUpdate, LockRow
<1>7. /\ table' = table /\ Locked(r)' = Locked(r) \cup {p}
      /\ \A y \in Locked(r) \ {p} : draft'[r][y] = draft[r][y]
  BY <1>5, <1>6, WriteOnly
<1>8. Papers(r)' /\ Credit(r)'
  BY <1>3, <1>4, <1>7, PapersKept DEF Settled
<1>9. \A q, place : ToMove(r, q, place)' = ToMove(r, q, place)
  BY <1>3 DEF ToMove
<1>10. \A c : ItemsOf(c)' = ItemsOf(c)
  BY <1>7 DEF ItemsOf
<1>11. Carried(r)'
  <2>1. PICK b : b = call[r]
    OBVIOUS
  <2>2. ASSUME pc'[r] = "set" PROVE \A i \in DOMAIN todo[r] : todo[r][i].item \in ItemsOf(b.check)
    BY <1>3, <2>1, <2>2 DEF Settled, Carried
  <2>3. ASSUME NEW q \in Product, NEW place \in Place
        PROVE  CASE b.op \in Moving ->
                      MovedBy(b.moves, q, place) = moved[r][q][place] + ToMove(r, q, place)
                 [] b.op = "count" ->
                      moved[r][q][place] # 0 =>
                        /\ b.complete /\ place = table[b.check].location
                        /\ \E x \in ItemsOf(b.check) : x[2] = q
                 [] OTHER -> moved[r][q][place] = 0
    BY <1>3, <2>1 DEF Settled, Carried
  <2> QED
    BY <1>3, <1>7, <1>9, <1>10, <2>1, <2>2, <2>3 DEF Carried
<1> QED
  BY <1>8, <1>11 DEF Settled

LEMMA MoveSettled ==
  ASSUME Inv, NEW r \in Req, Settled(r), MoveGoods(r), ~Refuse(r)
  PROVE  Settled(r)'
<1>1. Mine(r) /\ Arrays /\ pc[r] = "move"
  BY InvMine DEF MoveGoods
<1>2. PICK m : m = Head(todo[r])
  OBVIOUS
<1>3. PICK rest : rest = Tail(todo[r])
  OBVIOUS
<1>4. /\ UpdateStock(r, m.product, product[r].shop + m.shop, product[r].warehouse + m.warehouse)
      /\ call' = call /\ todo'[r] = rest /\ pc'[r] = AfterMoves(r, rest)
  BY <1>1, <1>2, <1>3 DEF MoveGoods, Goto, Arrays
<1>5. /\ call[r] \in Body /\ call[r].op \in Moving /\ todo[r] # <<>>
      /\ \A i \in DOMAIN todo[r] : todo[r][i] \in Move
      /\ m.product \in Locked(r) /\ product[r] = draft[r][m.product]
  BY <1>1, <1>2 DEF Mine, Course
<1>6. todo[r] \in Seq(Move)
  <2>1. todo[r] \in Seq(Move \cup Count)
    BY <1>1 DEF Mine, Types
  <2> QED
    BY <1>5, <2>1
<1>7. m \in Move /\ rest \in Seq(Move)
  BY <1>2, <1>3, <1>5, <1>6, TailOf
<1>8. PICK k \in Product : k = m.product
  BY <1>7 DEF Move
<1>9. product[r] \in ProductRow
  BY <1>1, <1>5, <1>8, SeenType, VersionOf, InvMine DEF Mine, Drafts, Drafted, Seen
<1>10. /\ pc'[r] \in {"lock", "insert", "debt"}
       /\ pc'[r] = "lock" <=> rest # <<>>
       /\ pc'[r] = "debt" => call[r].op = "payment"
  BY <1>4 DEF AfterMoves
<1>11. PICK new, v : /\ new = [y \in {k} |-> v] /\ Write(r, new)
  BY <1>4, <1>8 DEF UpdateStock
<1>12. /\ table' = table /\ Locked(r)' = Locked(r) \cup {k}
       /\ \A y \in Locked(r) \ {k} : draft'[r][y] = draft[r][y]
  BY <1>11, WriteOnly
<1>13. Papers(r)' /\ Credit(r)'
  BY <1>1, <1>4, <1>8, <1>10, <1>12, PapersKept DEF Settled
<1>14. PICK n : n = [shop |-> moved[r][k].shop + (product[r].shop + m.shop) - product[r].shop,
                     warehouse |-> moved[r][k].warehouse + (product[r].warehouse + m.warehouse)
                                     - product[r].warehouse]
  OBVIOUS
<1>15. moved[r] \in [Product -> Movement]
  BY <1>1 DEF Mine, Types
<1>16. moved'[r] = [moved[r] EXCEPT ![k] = n]
  BY <1>1, <1>4, <1>8, <1>14 DEF UpdateStock, Arrays
<1>17. ASSUME NEW p \in Product, NEW place \in Place
       PROVE  MovedBy(call[r].moves, p, place) = moved'[r][p][place] + ToMove(r, p, place)'
  <2>1. MovedBy(call[r].moves, p, place) = moved[r][p][place] + MovedBy(todo[r], p, place)
    BY <1>1, <1>5 DEF Settled, Carried, Moving, ToMove
  <2>2. MovedBy(todo[r], p, place) = (IF k = p THEN m[place] ELSE 0) + MovedBy(rest, p, place)
    BY <1>2, <1>3, <1>5, <1>6, <1>8, MovedTail
  <2>3. ToMove(r, p, place)' = MovedBy(rest, p, place)
    <3>1. CASE rest = <<>>
      <4>1. \A i \in DOMAIN rest : rest[i].product # p
        BY <3>1
      <4>2. MovedBy(rest, p, place) = 0
        BY <1>7, <4>1, MovedNone
      <4> QED
        BY <1>10, <3>1, <4>2 DEF ToMove
    <3>2. CASE rest # <<>>
      BY <1>4, <1>10, <3>2 DEF ToMove
    <3> QED
      BY <3>1, <3>2
  <2>4. MovedBy(rest, p, place) \in Int
    BY <1>7, MovedType
  <2>5. moved[r][p] \in Movement /\ moved[r][k] \in Movement
    BY <1>15
  <2>6. CASE p = k
    <3>1. moved'[r][p] = n
      BY <1>15, <1>16, <2>6
    <3>2. n[place] = moved[r][p][place] + m[place] /\ moved[r][p][place] \in Int /\ m[place] \in Int
      <4>1. CASE place = "shop"
        BY <1>7, <1>9, <1>14, <2>5, <2>6, <4>1 DEF Movement, Move, ProductRow
      <4>2. CASE place = "warehouse"
        BY <1>7, <1>9, <1>14, <2>5, <2>6, <4>2 DEF Movement, Move, ProductRow
      <4> QED
        BY <4>1, <4>2 DEF Place
    <3> QED
      BY <2>1, <2>2, <2>3, <2>4, <2>6, <3>1, <3>2
  <2>7. CASE p # k
    <3>1. moved'[r][p] = moved[r][p]
      BY <1>15, <1>16, <2>7
    <3> QED
      BY <2>1, <2>2, <2>3, <2>4, <2>7, <3>1
  <2> QED
    BY <2>6, <2>7
<1>18. Carried(r)'
  BY <1>4, <1>5, <1>10, <1>17 DEF Carried, Moving
<1> QED
  BY <1>13, <1>18 DEF Settled

(* The request writes its own row.                                         *)
LEMMA InsertSettled ==
  ASSUME Inv, NEW r \in Req, Settled(r), ~Refuse(r),
         InsertTransfer(r) \/ InsertOrder(r) \/ InsertPayment(r)
  PROVE  Settled(r)'
<1>1. Mine(r) /\ Arrays
  BY InvMine
<1>2. PICK b : b = call[r]
  OBVIOUS
<1>3. /\ pc[r] \in {"insert", "pay"} /\ call' = call /\ moved' = moved /\ todo' = todo
      /\ b.op \in Moving
  BY <1>1, <1>2 DEF InsertTransfer, InsertOrder, InsertPayment, goods, locals, Mine, Course, Moving
<1>4. Write(r, [x \in {r} |-> Paper(b)])
  <2>1. CASE InsertTransfer(r)
    <3>1. Paper(b) = [kind |-> "transfer", moves |-> b.moves]
      BY <1>2, <2>1 DEF InsertTransfer, Paper
    <3> QED
      BY <1>2, <2>1, <3>1 DEF InsertTransfer
  <2>2. CASE InsertOrder(r)
    <3>1. Paper(b) = [kind |-> "order", supplier |-> b.supplier, moves |-> b.moves,
                      total |-> Round(b.total), paid |-> Round(b.paid),
                      booked |-> Round(b.paid), status |-> Status(b.paid, b.total)]
      BY <1>2, <2>2 DEF InsertOrder, Paper
    <3> QED
      BY <1>2, <2>2, <3>1 DEF InsertOrder
  <2>3. CASE InsertPayment(r)
    <3>1. b.op = "payment"
      BY <1>1, <1>2, <2>3 DEF InsertPayment, Mine, Course
    <3>2. Paper(b) = [kind |-> "payment", supplier |-> b.supplier, order |-> b.order,
                      moves |-> b.moves, amount |-> Round(AmountOf(b)),
                      booked |-> IF b.moves = <<>> THEN Round(b.amount) ELSE 0]
      BY <3>1 DEF Paper
    <3> QED
      BY <1>2, <2>3, <3>2 DEF InsertPayment
  <2> QED
    BY <2>1, <2>2, <2>3
<1>5. PICK new : new = [x \in {r} |-> Paper(b)]
  OBVIOUS
<1>6. /\ table' = table /\ Locked(r)' = Locked(r) \cup {r} /\ draft'[r][r] = Paper(b)
      /\ \A y \in Locked(r) \ {r} : draft'[r][y] = draft[r][y]
  BY <1>4, <1>5, WriteOnly
<1>7. /\ pc'[r] \in {"debt", "commit"}
      /\ b.op = "order" =>
           /\ b.paid \in Nat /\ b.total \in Nat /\ b.paid <= b.total
           /\ pc'[r] = IF b.paid < b.total THEN "debt" ELSE "commit"
      /\ b.op # "order" => pc'[r] = "commit"
  <2>1. CASE InsertTransfer(r)
    BY <1>1, <1>2, <2>1 DEF InsertTransfer, Goto, Arrays
  <2>2. CASE InsertOrder(r)
    <3>1. b \in OrderBody
      BY <1>1, <1>2, <2>2, BodyType DEF InsertOrder, Mine, Course
    <3> QED
      BY <1>1, <1>2, <2>2, <3>1 DEF InsertOrder, Goto, Arrays, OrderBody
  <2>3. CASE InsertPayment(r)
    BY <1>1, <1>2, <2>3 DEF InsertPayment, Goto, Arrays, Mine, Course
  <2> QED
    BY <2>1, <2>2, <2>3
<1>8. r \notin Supplier /\ ~Is(r)
  <2>1. ~Is(r)
    BY <1>1, <1>3 DEF Mine, Unborn
  <2> QED
    BY <2>1, VersionOf, Names
<1>9. b.op = "payment" => pc[r] = "pay" /\ (b.order # NoRow => Kind(b.order, "order") /\ b.order # r)
  <2>1. CASE b.op = "payment"
    <3>1. pc[r] = "pay"
      BY <1>1, <1>2, <1>3, <2>1 DEF Mine, Course
    <3>2. b.order # NoRow => Kind(b.order, "order")
      BY <1>2, <3>1 DEF InsertTransfer, InsertOrder, InsertPayment
    <3> QED
      BY <1>8, <3>1, <3>2 DEF Kind, Is
  <2> QED
    BY <2>1
<1>10. Papers(r)'
  <2>1. ASSUME b.op = "payment", b.order \in Locked(r)'
        PROVE  draft'[r][b.order] = PaidOrder(table[b.order], AmountOf(b))
    <3>1. b.order # r
      BY <1>8, <1>9, <2>1, Names, VersionOf
    <3>2. b.order \in Locked(r)
      BY <1>6, <2>1, <3>1
    <3> QED
      BY <1>2, <1>6, <2>1, <3>1, <3>2 DEF Settled, Papers
  <2>2. ASSUME b.op = "payment", b.order # NoRow PROVE b.order \in Locked(r)'
    BY <1>2, <1>6, <1>9, <2>2 DEF Settled, Papers
  <2> QED
    BY <1>2, <1>3, <1>6, <1>7, <1>9, <2>1, <2>2 DEF Papers, Kind, Moving
<1>11. Credit(r)'
  <2>1. ASSUME NEW s \in Locked(r)' \cap Supplier
        PROVE  /\ s = b.supplier /\ b.op = "payment"
               /\ draft'[r][s] = [table[s] EXCEPT !.debt = Plus(@, DebtDelta(r))]
    <3>1. s \in Locked(r) /\ s # r
      BY <1>6, <1>8
    <3> QED
      BY <1>1, <1>2, <1>3, <1>6, <3>1 DEF Settled, Credit, Credited, Mine, Course
  <2>2. DebtDelta(r)' = DebtDelta(r)
    BY <1>3 DEF DebtDelta
  <2>3. b.op = "order" /\ pc'[r] = "commit" => b.paid = b.total
    BY <1>7
  <2>4. ASSUME b.op = "payment", table[b.supplier].live PROVE b.supplier \in Locked(r)
    BY <1>2, <1>9, <2>4 DEF Settled, Credit, Credited
  <2>5. ASSUME pc'[r] = "debt" PROVE b.paid # b.total
    BY <1>7, <2>5
  <2> QED
    BY <1>2, <1>3, <1>6, <1>7, <2>1, <2>2, <2>3, <2>4, <2>5 DEF Credit, Credited
<1>12. Carried(r)'
  <2>1. \A p \in Product : \A place \in Place : MovedBy(b.moves, p, place) = moved[r][p][place] + 0
    BY <1>2, <1>3 DEF Settled, Carried, ToMove, Moving
  <2>2. \A p, place : ToMove(r, p, place)' = 0
    BY <1>7 DEF ToMove
  <2> QED
    BY <1>2, <1>3, <1>7, <2>1, <2>2 DEF Carried, Moving
<1> QED
  BY <1>10, <1>11, <1>12 DEF Settled

\* Where nothing is moved.
LEMMA CarriedKept ==
  ASSUME Inv, NEW r \in Req, Carried(r), pc[r] \notin {"idle", "lock", "move", "failed", "ok"},
         pc'[r] \notin {"lock", "move", "item", "set"}, table' = table, moved' = moved,
         call' = call
  PROVE  Carried(r)'
<1>1. \A p, place : ToMove(r, p, place)' = 0 /\ ToMove(r, p, place) = 0
  BY DEF ToMove
<1>2. \A c : ItemsOf(c)' = ItemsOf(c)
  BY DEF ItemsOf
<1>3. PICK b : b = call[r]
  OBVIOUS
<1>4. ASSUME NEW q \in Product, NEW place \in Place
      PROVE  CASE b.op \in Moving -> MovedBy(b.moves, q, place) = moved[r][q][place] + 0
               [] b.op = "count" ->
                    moved[r][q][place] # 0 =>
                      /\ b.complete /\ place = table[b.check].location
                      /\ \E x \in ItemsOf(b.check) : x[2] = q
               [] OTHER -> moved[r][q][place] = 0
  BY <1>1, <1>3 DEF Carried
<1> QED
  BY <1>1, <1>2, <1>3, <1>4 DEF Carried

(* It changes the debt of its supplier.                                    *)
LEMMA DebtSettled ==
  ASSUME Inv, NEW r \in Req, Settled(r), UpdateDebt(r)
  PROVE  Settled(r)'
<1>1. Mine(r) /\ Arrays /\ pc[r] = "debt"
  BY InvMine DEF UpdateDebt
<1>2. PICK b \in Body : b = call[r] /\ b.op \in {"order", "payment"}
  BY <1>1 DEF Mine, Course
<1>3. PICK s \in Supplier : s = b.supplier
  BY <1>1, <1>2, DeltaType
<1>4. call' = call /\ moved' = moved /\ todo' = todo
  BY DEF UpdateDebt, goods, locals
<1>5. /\ pc'[r] \in {"commit", "paid", "pay"}
      /\ (pc'[r] = "commit" <=> b.op = "order")
      /\ (b.op = "payment" => (pc'[r] = "paid" <=> b.order # NoRow))
  BY <1>1, <1>2 DEF UpdateDebt, Goto, Arrays
<1>6. s \notin Locked(r) /\ Seen(r, s) = table[s] /\ s \notin Id /\ s # r /\ s # NoRow
  <2>1. s \notin Locked(r)
    BY <1>1, <1>2, <1>3 DEF Settled, Credit, Credited
  <2> QED
    BY <2>1, VersionOf, Names, NamesAssumption DEF Seen, Row
<1>7. /\ table' = table
      /\ \/ /\ Locked(r)' = Locked(r) \cup {s}
            /\ draft'[r][s] = [table[s] EXCEPT !.debt = Plus(@, DebtDelta(r))]
         \/ Locked(r)' = Locked(r) /\ ~table[s].live
      /\ \A y \in Locked(r) : draft'[r][y] = draft[r][y]
  <2>1. CASE table[s].live
    <3>1. PICK v, new : /\ v = [table[s] EXCEPT !.debt = Plus(@, DebtDelta(r))]
                        /\ new = [x \in {s} |-> v]
      OBVIOUS
    <3>2. Write(r, new)
      <4>1. new = [x \in {s} |-> [Seen(r, s) EXCEPT !.debt = Plus(@, DebtDelta(r))]]
        BY <1>6, <3>1
      <4> QED
        BY <1>2, <1>3, <1>6, <2>1, <4>1 DEF UpdateDebt
    <3>3. /\ table' = table /\ Locked(r)' = Locked(r) \cup {s} /\ draft'[r][s] = v
          /\ \A y \in Locked(r) \ {s} : draft'[r][y] = draft[r][y]
      BY <3>1, <3>2, WriteOnly
    <3> QED
      BY <1>6, <3>1, <3>3
  <2>2. CASE ~table[s].live
    <3>1. draft' = draft /\ table' = table
      BY <1>2, <1>3, <1>6, <2>2 DEF UpdateDebt, db
    <3> QED
      BY <2>2, <3>1 DEF Locked
  <2> QED
    BY <2>1, <2>2
<1>8. b.op = "order" => r \in Locked(r) /\ b.paid # b.total
  BY <1>1, <1>2 DEF Settled, Credit
<1>9. b.op = "payment" => b.order \notin Locked(r)'
  <2>1. CASE b.op = "payment"
    <3>1. b.order \in Id \cup {NoRow} /\ b.order \notin Locked(r)
      BY <1>1, <1>2, <2>1, BodyType DEF Settled, Papers, PaymentBody
    <3> QED
      BY <1>6, <1>7, <3>1
  <2> QED
    BY <2>1
<1>10. Papers(r)'
  <2>1. r \in Locked(r)' => r \in Locked(r)
    BY <1>6, <1>7
  <2> QED
    BY <1>2, <1>4, <1>5, <1>7, <1>8, <1>9, <2>1 DEF Settled, Papers
<1>11. Credit(r)'
  <2>1. \A y \in Locked(r)' \cap Supplier : y = s
    BY <1>1, <1>2, <1>7 DEF Settled, Credit, Credited
  <2>2. Credited(r)'
    BY <1>2, <1>4, <1>5, <1>8 DEF Credited
  <2>3. DebtDelta(r)' = DebtDelta(r)
    BY <1>4 DEF DebtDelta
  <2>4. s \in Locked(r)' => draft'[r][s] = [table[s] EXCEPT !.debt = Plus(@, DebtDelta(r))]
    BY <1>6, <1>7
  <2>5. table[s].live => s \in Locked(r)'
    BY <1>7
  <2> QED
    BY <1>2, <1>3, <1>4, <1>5, <1>7, <2>1, <2>2, <2>3, <2>4, <2>5 DEF Credit
<1>12. Carried(r)'
  BY <1>1, <1>4, <1>5, <1>7, CarriedKept DEF Settled
<1> QED
  BY <1>10, <1>11, <1>12 DEF Settled

(* It pays on its order.                                                   *)
LEMMA PaySettled ==
  ASSUME Inv, NEW r \in Req, Settled(r), PayOrder(r)
  PROVE  Settled(r)'
<1>1. Mine(r) /\ Arrays /\ pc[r] = "paid"
  BY InvMine DEF PayOrder
<1>2. PICK b \in Body : b = call[r] /\ b.op = "payment" /\ b.order # NoRow
  BY <1>1 DEF Mine, Course
<1>3. PICK o \in Id : o = b.order
  BY <1>2, BodyType DEF PaymentBody
<1>4. call' = call /\ moved' = moved /\ todo' = todo /\ pc'[r] = "pay"
  BY <1>1 DEF PayOrder, goods, locals, Goto, Arrays
<1>5. o \notin Locked(r) /\ Seen(r, o) = table[o] /\ o \notin Supplier
  <2>1. o \notin Locked(r)
    BY <1>1, <1>2, <1>3 DEF Settled, Papers
  <2> QED
    BY <2>1, Names DEF Seen
<1>6. Kind(o, "order") => o # r
  BY <1>1 DEF Mine, Unborn, Kind, Is
<1>7. /\ table' = table
      /\ \A y \in Locked(r) : y \in Locked(r)' /\ draft'[r][y] = draft[r][y]
      /\ \/ /\ Kind(o, "order") /\ Locked(r)' = Locked(r) \cup {o}
            /\ draft'[r][o] = PaidOrder(table[o], AmountOf(b))
         \/ ~Kind(o, "order") /\ Locked(r)' = Locked(r)
  <2>1. CASE Kind(o, "order")
    <3>1. PICK v, new : /\ v = PaidOrder(table[o], AmountOf(b))
                        /\ new = [x \in {o} |-> v]
      OBVIOUS
    <3>2. Write(r, new)
      <4>1. new = [x \in {o} |-> PaidOrder(Seen(r, o), AmountOf(b))]
        BY <1>5, <3>1
      <4> QED
        BY <1>2, <1>3, <2>1, <4>1 DEF PayOrder
    <3> QED
      BY <1>5, <2>1, <3>1, <3>2, WriteOnly
  <2>2. CASE ~Kind(o, "order")
    <3>1. draft' = draft /\ table' = table
      BY <1>2, <1>3, <2>2 DEF PayOrder, db
    <3> QED
      BY <2>2, <3>1 DEF Locked
  <2> QED
    BY <2>1, <2>2
<1>8. Papers(r)'
  <2>1. r \in Locked(r)' => r \in Locked(r)
    BY <1>6, <1>7
  <2>2. o \in Locked(r)' => draft'[r][o] = PaidOrder(table[o], AmountOf(b))
    BY <1>5, <1>7
  <2>3. Kind(o, "order") => o \in Locked(r)'
    BY <1>7
  <2> QED
    BY <1>2, <1>3, <1>4, <1>7, <2>1, <2>2, <2>3 DEF Settled, Papers, Kind
<1>9. Credit(r)'
  <2>1. \A s \in Supplier : s \in Locked(r)' <=> s \in Locked(r)
    BY <1>5, <1>7
  <2>2. Credited(r)' /\ Credited(r)
    BY <1>1, <1>2, <1>4 DEF Credited
  <2>3. DebtDelta(r)' = DebtDelta(r)
    BY <1>4 DEF DebtDelta
  <2>4. b.supplier \in Supplier
    BY <1>2, BodyType DEF PaymentBody
  <2> QED
    BY <1>2, <1>4, <1>7, <2>1, <2>2, <2>3, <2>4 DEF Settled, Credit
<1>10. Carried(r)'
  BY <1>1, <1>4, <1>7, CarriedKept DEF Settled
<1> QED
  BY <1>8, <1>9, <1>10 DEF Settled

(* The inventory checks.                                                   *)
LEMMA ItemsSettled ==
  ASSUME Inv, NEW r \in Req, Settled(r), InsertItems(r) \/ CountItem(r)
  PROVE  Settled(r)'
<1>1. Mine(r) /\ Arrays /\ RowsOK
  BY InvMine
<1>2. /\ pc[r] \in {"items", "count"} /\ call' = call /\ moved' = moved
      /\ call[r] \in Body /\ call[r].op \in {"check", "count"}
      /\ pc'[r] \in {"count", "read", "commit"}
  BY <1>1 DEF InsertItems, CountItem, goods, locals, Goto, Arrays, AfterCounts, Mine, Course
<1>3. /\ table' = table
      /\ \A x \in Locked(r)' \ (Product \cup Item) : x \in Locked(r) /\ draft'[r][x] = draft[r][x]
  <2>1. CASE InsertItems(r)
    <3>1. \A i \in DOMAIN todo[r] : todo[r][i].item \in Item
      BY <1>1, <2>1 DEF InsertItems, Mine, Course, Count
    <3>2. PICK new : new = [x \in {todo[r][i].item : i \in DOMAIN todo[r]} |->
                              [kind |-> "item", actual |-> NoRow,
                               expected |-> (CHOOSE c \in ToSet(todo[r]) : c.item = x).qty]]
      OBVIOUS
    <3>3. Write(r, new)
      BY <2>1, <3>2 DEF InsertItems
    <3>4. DOMAIN new \subseteq Item
      BY <3>1, <3>2
    <3>5. /\ table' = table /\ Locked(r)' = Locked(r) \cup DOMAIN new
          /\ \A x \in Locked(r)' : draft'[r][x] = IF x \in DOMAIN new THEN new[x] ELSE draft[r][x]
      BY <1>1, <3>3, WriteEffect
    <3> QED
      BY <3>4, <3>5
  <2>2. CASE CountItem(r)
    <3>1. PICK c : c = Head(todo[r])
      OBVIOUS
    <3>2. c.item \in Item
      <4>1. /\ todo[r] # <<>> /\ \A i \in DOMAIN todo[r] : todo[r][i] \in Count
            /\ todo[r] \in Seq(Move \cup Count)
        BY <1>1, <2>2 DEF CountItem, Mine, Course, Types
      <4>2. c \in Count
        BY <3>1, <4>1, TailOf
      <4> QED
        BY <4>2 DEF Count
    <3>3. CASE Seen(r, c.item) # NoRow
      <4>1. PICK new : new = [x \in {c.item} |-> [Seen(r, x) EXCEPT !.actual = c.qty]]
        OBVIOUS
      <4>2. Write(r, new)
        BY <2>2, <3>1, <3>3, <4>1 DEF CountItem
      <4>3. DOMAIN new = {c.item}
        BY <4>1
      <4>4. /\ table' = table /\ Locked(r)' = Locked(r) \cup DOMAIN new
            /\ \A x \in Locked(r)' : draft'[r][x] = IF x \in DOMAIN new THEN new[x] ELSE draft[r][x]
        BY <1>1, <4>2, WriteEffect
      <4> QED
        BY <3>2, <4>3, <4>4
    <3>4. CASE Seen(r, c.item) = NoRow
      <4>1. draft' = draft /\ table' = table
        BY <2>2, <3>1, <3>4 DEF CountItem, db
      <4> QED
        BY <4>1 DEF Locked
    <3> QED
      BY <3>3, <3>4
  <2> QED
    BY <2>1, <2>2
<1>4. Papers(r)' /\ Credit(r)'
  BY <1>2, <1>3, PapersKept DEF Settled
<1>5. Carried(r)'
  BY <1>2, <1>3, CarriedKept DEF Settled
<1> QED
  BY <1>4, <1>5 DEF Settled

LEMMA ReadSettled ==
  ASSUME Inv, NEW r \in Req, Settled(r), ReadItems(r), ~Refuse(r)
  PROVE  Settled(r)'
<1>1. Mine(r) /\ Arrays /\ pc[r] = "read" /\ call[r].op = "count"
  BY InvMine DEF ReadItems, Mine, Course
<1>2. PICK items : items = ItemsOf(call[r].check)
  OBVIOUS
<1>3. PICK order \in SetToSeqs(items) :
        /\ todo' = [todo EXCEPT ![r] =
             [i \in DOMAIN order |-> [item |-> order[i], qty |-> table[order[i]].actual]]]
        /\ Goto(r, IF order = <<>> THEN "complete" ELSE "item")
  BY <1>2 DEF ReadItems
<1>4. /\ moved' = moved /\ call' = call /\ draft' = draft /\ table' = table
      /\ pc'[r] \in {"complete", "item"}
  BY <1>1, <1>3 DEF ReadItems, db, goods, Goto, Arrays
<1>5. \A i \in DOMAIN order : order[i] \in items
  BY DEF SetToSeqs
<1>6. \A i \in DOMAIN todo'[r] : todo'[r][i].item \in items
  <2>1. PICK rest : rest = [i \in DOMAIN order |-> [item |-> order[i], qty |-> table[order[i]].actual]]
    OBVIOUS
  <2>2. todo'[r] = rest
    BY <1>1, <1>3, <2>1 DEF Arrays
  <2> QED
    BY <1>5, <2>1, <2>2
<1>7. Papers(r)' /\ Credit(r)'
  <2>1. Locked(r)' = Locked(r)
    BY <1>4 DEF Locked
  <2> QED
    BY <1>1, <1>4, <2>1, PapersKept DEF Settled
<1>8. Carried(r)'
  <2>1. \A c : ItemsOf(c)' = ItemsOf(c)
    BY <1>4 DEF ItemsOf
  <2>2. PICK b : b = call[r]
    OBVIOUS
  <2>3. ASSUME NEW p \in Product, NEW place \in Place, moved[r][p][place] # 0
        PROVE  /\ b.complete /\ place = table[b.check].location
               /\ \E x \in ItemsOf(b.check) : x[2] = p
    BY <1>1, <2>2, <2>3 DEF Settled, Carried, Moving
  <2> QED
    BY <1>1, <1>2, <1>4, <1>6, <2>1, <2>2, <2>3 DEF Carried, Moving
<1> QED
  BY <1>7, <1>8 DEF Settled

LEMMA SetSettled ==
  ASSUME Inv, NEW r \in Req, Settled(r), SetStock(r), ~Refuse(r)
  PROVE  Settled(r)'
<1>1. Mine(r) /\ Arrays /\ pc[r] = "set"
  BY InvMine DEF SetStock
<1>2. PICK c : c = Head(todo[r])
  OBVIOUS
<1>3. PICK b : b = call[r]
  OBVIOUS
<1>4. PICK n, w : /\ n = CorrectedQty(product[r], table[b.check].location, "shop", c.qty)
                  /\ w = CorrectedQty(product[r], table[b.check].location, "warehouse", c.qty)
  OBVIOUS
<1>5. /\ UpdateStock(r, c.item[2], n, w)
      /\ call' = call /\ todo'[r] = Tail(todo[r]) /\ pc'[r] \in {"item", "complete"}
  BY <1>1, <1>2, <1>3, <1>4 DEF SetStock, Goto, Arrays
<1>6. /\ b.op = "count" /\ b.complete /\ todo[r] # <<>> /\ todo[r] \in Seq(Move \cup Count)
      /\ \A i \in DOMAIN todo[r] : todo[r][i] \in Count
      /\ c.item[2] \in Locked(r) /\ product[r] = draft[r][c.item[2]]
  BY <1>1, <1>2, <1>3 DEF Mine, Course, Types
<1>7. /\ 1 \in DOMAIN todo[r] /\ c = todo[r][1]
      /\ \A i \in DOMAIN Tail(todo[r]) :
           i + 1 \in DOMAIN todo[r] /\ Tail(todo[r])[i] = todo[r][i + 1]
  BY <1>2, <1>6, TailOf
<1>8. PICK p \in Product : p = c.item[2]
  BY <1>6, <1>7, Names DEF Count
<1>9. product[r] \in ProductRow
  BY <1>1, <1>6, <1>8, SeenType, VersionOf, InvMine DEF Mine, Drafts, Drafted, Seen
<1>10. PICK new, v : /\ new = [y \in {p} |-> v] /\ Write(r, new)
  BY <1>5, <1>8 DEF UpdateStock
<1>11. /\ table' = table /\ Locked(r)' = Locked(r) \cup {p}
       /\ \A y \in Locked(r) \ {p} : draft'[r][y] = draft[r][y]
  BY <1>10, WriteOnly
<1>12. Papers(r)' /\ Credit(r)'
  BY <1>1, <1>5, <1>8, <1>11, PapersKept DEF Settled
<1>13. PICK m : m = [shop |-> moved[r][p].shop + n - product[r].shop,
                     warehouse |-> moved[r][p].warehouse + w - product[r].warehouse]
  OBVIOUS
<1>14. moved[r] \in [Product -> Movement] /\ moved'[r] = [moved[r] EXCEPT ![p] = m]
  BY <1>1, <1>5, <1>8, <1>13 DEF UpdateStock, Arrays, Mine, Types
<1>15. \A i \in DOMAIN todo[r] : todo[r][i].item \in ItemsOf(b.check)
  BY <1>1, <1>3 DEF Settled, Carried
<1>16. ASSUME NEW q \in Product, NEW place \in Place, moved[r][q][place] # 0
       PROVE  /\ place = table[b.check].location
              /\ \E x \in ItemsOf(b.check) : x[2] = q
  BY <1>1, <1>3, <1>6, <1>16 DEF Settled, Carried, Moving
<1>17. ASSUME NEW q \in Product, NEW place \in Place, moved'[r][q][place] # 0
       PROVE  /\ place = table[b.check].location
              /\ \E x \in ItemsOf(b.check) : x[2] = q
  <2>1. CASE q # p
    <3>1. moved'[r][q] = moved[r][q]
      BY <1>14, <2>1
    <3> QED
      BY <1>16, <1>17, <3>1
  <2>2. CASE q = p /\ place # table[b.check].location
    <3>1. moved'[r][q] = m /\ moved[r][p] \in Movement
      BY <1>14, <2>2
    <3>2. m[place] = moved[r][p][place]
      <4>1. CASE place = "shop"
        BY <1>4, <1>9, <1>13, <2>2, <3>1, <4>1 DEF CorrectedQty, ProductRow, Movement
      <4>2. CASE place = "warehouse"
        BY <1>4, <1>9, <1>13, <2>2, <3>1, <4>2 DEF CorrectedQty, ProductRow, Movement
      <4> QED
        BY <4>1, <4>2 DEF Place
    <3> QED
      BY <1>16, <1>17, <2>2, <3>1, <3>2
  <2>3. CASE q = p /\ place = table[b.check].location
    BY <1>7, <1>8, <1>15, <2>3
  <2> QED
    BY <2>1, <2>2, <2>3
<1>18. \A x : ItemsOf(x)' = ItemsOf(x)
  BY <1>11 DEF ItemsOf
<1>19. \A i \in DOMAIN Tail(todo[r]) : Tail(todo[r])[i].item \in ItemsOf(b.check)
  BY <1>7, <1>15
<1>20. Carried(r)'
  BY <1>3, <1>5, <1>6, <1>11, <1>17, <1>18, <1>19 DEF Carried, Moving
<1> QED
  BY <1>12, <1>20 DEF Settled

LEMMA CompleteSettled ==
  ASSUME Inv, NEW r \in Req, Settled(r), CompleteCheck(r)
  PROVE  Settled(r)'
<1>1. Mine(r) /\ Arrays /\ pc[r] = "complete"
  BY InvMine DEF CompleteCheck
<1>2. PICK b \in Body : b = call[r] /\ b.op = "count"
  BY <1>1 DEF Mine, Course
<1>3. PICK c \in Id : c = b.check
  BY <1>2, BodyType DEF CountBody
<1>4. call' = call /\ moved' = moved /\ todo' = todo /\ pc'[r] = "commit"
  BY <1>1 DEF CompleteCheck, goods, locals, Goto, Arrays
<1>5. c \notin Locked(r) /\ Seen(r, c) = table[c] /\ c \notin Supplier /\ c # r
  <2>1. c \notin Locked(r)
    BY <1>1, <1>2, <1>3, Names DEF Mine, Drafts, Drafted, Moving
  <2>2. c # r
    BY <1>1, <1>2, <1>3, NamesAssumption DEF Mine, Course, Known
  <2> QED
    BY <2>1, <2>2, Names DEF Seen
<1>6. /\ table' = table
      /\ \A y \in Locked(r) : y \in Locked(r)' /\ draft'[r][y] = draft[r][y]
      /\ \/ /\ Locked(r)' = Locked(r) \cup {c}
            /\ draft'[r][c] = [table[c] EXCEPT !.status = "completed"]
         \/ Locked(r)' = Locked(r)
  <2>1. CASE Kind(c, "check") /\ table[c].status = "in_progress"
    <3>1. PICK v, new : /\ v = [table[c] EXCEPT !.status = "completed"]
                        /\ new = [x \in {c} |-> v]
      OBVIOUS
    <3>2. Write(r, new)
      <4>1. new = [x \in {c} |-> [Seen(r, x) EXCEPT !.status = "completed"]]
        BY <1>5, <3>1
      <4> QED
        BY <1>2, <1>3, <2>1, <4>1 DEF CompleteCheck
    <3>3. /\ table' = table /\ Locked(r)' = Locked(r) \cup {c} /\ draft'[r][c] = v
          /\ \A y \in Locked(r) \ {c} : draft'[r][y] = draft[r][y]
      BY <3>1, <3>2, WriteOnly
    <3> QED
      BY <1>5, <3>1, <3>3
  <2>2. CASE ~(Kind(c, "check") /\ table[c].status = "in_progress")
    <3>1. draft' = draft /\ table' = table
      BY <1>2, <1>3, <2>2 DEF CompleteCheck, db
    <3> QED
      BY <3>1 DEF Locked
  <2> QED
    BY <2>1, <2>2
<1>7. Papers(r)'
  <2>1. c \in Locked(r)' => draft'[r][c] = [table[c] EXCEPT !.status = "completed"]
    BY <1>5, <1>6
  <2>2. r \in Locked(r)' => r \in Locked(r)
    BY <1>5, <1>6
  <2> QED
    BY <1>2, <1>3, <1>4, <1>6, <2>1, <2>2 DEF Settled, Papers, Moving
<1>8. Credit(r)'
  <2>1. \A s \in Supplier : s \notin Locked(r)'
    BY <1>2, <1>5, <1>6 DEF Settled, Credit, Credited
  <2> QED
    BY <1>2, <1>4, <2>1 DEF Credit, Credited
<1>9. Carried(r)'
  BY <1>1, <1>4, <1>6, CarriedKept DEF Settled
<1> QED
  BY <1>7, <1>8, <1>9 DEF Settled

(* The requests that come in.                                              *)
LEMMA ReceiveSettled ==
  ASSUME Inv, NEW r \in Req, Receive(r) \/ ReceiveCheck(r)
  PROVE  Settled(r)'
<1>1. Mine(r) /\ Mine(r)' /\ Arrays /\ pc[r] = "idle" /\ table' = table /\ draft' = draft
      /\ moved' = moved
  BY InvMine, ReceiveMine, ReceiveCheckMine DEF Receive, ReceiveCheck, db, goods
<1>2. Locked(r)' = {}
  BY <1>1 DEF Mine, Quiet, Outside, Locked, NoDraft
<1>3. PICK b \in Body :
        /\ call'[r] = b
        /\ pc'[r] \in {"create", "get", "find", "delete", "lock", "debt", "list", "count", "read",
                       "commit"}
        /\ pc'[r] = "commit" => b.op = "count"
        /\ pc'[r] = "debt" => b.op = "payment" /\ b.moves = <<>>
        /\ b.op \in Moving => todo'[r] = b.moves /\ pc'[r] \in {"lock", "debt"}
  <2>1. CASE Receive(r)
    <3>1. PICK b \in Body \ (CheckBody \cup CountBody) :
            /\ call' = [call EXCEPT ![r] = b]
            /\ todo' = [todo EXCEPT ![r] =
                          IF b.op \in {"transfer", "order", "payment"} THEN b.moves ELSE <<>>]
            /\ Goto(r, CASE b.op = "create" -> "create"
                         [] b.op = "update" -> "get"
                         [] b.op = "rename" -> "find"
                         [] b.op = "delete" -> "delete"
                         [] b.op = "payment" /\ b.moves = <<>> -> "debt"
                         [] OTHER -> "lock")
      BY <2>1 DEF Receive
    <3>2. /\ call'[r] = b
          /\ todo'[r] = IF b.op \in {"transfer", "order", "payment"} THEN b.moves ELSE <<>>
          /\ pc'[r] = CASE b.op = "create" -> "create"
                        [] b.op = "update" -> "get"
                        [] b.op = "rename" -> "find"
                        [] b.op = "delete" -> "delete"
                        [] b.op = "payment" /\ b.moves = <<>> -> "debt"
                        [] OTHER -> "lock"
      BY <1>1, <3>1 DEF Arrays, Goto
    <3>3. /\ pc'[r] \in {"create", "get", "find", "delete", "lock", "debt"}
          /\ pc'[r] = "debt" => b.op = "payment" /\ b.moves = <<>>
          /\ b.op \in Moving => pc'[r] \in {"lock", "debt"}
      BY <3>2 DEF Moving
    <3> QED
      BY <3>2, <3>3 DEF Moving
  <2>2. CASE ReceiveCheck(r)
    <3>1. PICK b \in Body \cap (CheckBody \cup CountBody) :
            /\ call' = [call EXCEPT ![r] = b]
            /\ Goto(r, IF b.op = "count" THEN AfterCounts(b, b.counts) ELSE "list")
      BY <2>2 DEF ReceiveCheck
    <3>2. /\ call'[r] = b /\ b.op \in {"check", "count"}
          /\ pc'[r] = IF b.op = "count" THEN AfterCounts(b, b.counts) ELSE "list"
      BY <1>1, <3>1 DEF Arrays, Goto, CheckBody, CountBody
    <3> QED
      BY <3>2 DEF Moving, AfterCounts
  <2> QED
    BY <2>1, <2>2
<1>4. Papers(r)'
  BY <1>2, <1>3 DEF Papers, Moving
<1>5. Credit(r)'
  BY <1>2, <1>3 DEF Credit, Credited
<1>6. \A p \in Product : \A place \in Place : moved'[r][p][place] = 0
  <2>1. ASSUME NEW p \in Product PROVE moved'[r][p] = [shop |-> 0, warehouse |-> 0]
    BY <1>1, NothingMoved DEF Outside
  <2> QED
    BY <2>1 DEF Place
<1>7. ASSUME NEW p \in Product, NEW place \in Place, b.op \in Moving
      PROVE  MovedBy(b.moves, p, place) = 0 + ToMove(r, p, place)'
  <2>1. b.moves \in Seq(Move)
    BY <1>7, BodyType DEF Moving, TransferBody, OrderBody, PaymentBody
  <2>2. CASE pc'[r] = "lock"
    <3>1. MovedBy(b.moves, p, place) \in Int
      BY <2>1, MovedType
    <3> QED
      BY <1>3, <1>7, <2>2, <3>1 DEF ToMove
  <2>3. CASE pc'[r] = "debt"
    <3>1. \A i \in DOMAIN b.moves : b.moves[i].product # p
      BY <1>3, <2>3
    <3>2. MovedBy(b.moves, p, place) = 0
      BY <2>1, <3>1, MovedNone
    <3> QED
      BY <2>3, <3>2 DEF ToMove
  <2> QED
    BY <1>3, <1>7, <2>2, <2>3
<1>8. Carried(r)'
  BY <1>3, <1>6, <1>7 DEF Carried, Moving
<1> QED
  BY <1>4, <1>5, <1>8 DEF Settled

LEMMA OwnSettled ==
  ASSUME Inv, NEW r \in Req, Settled(r), Act(r)
  PROVE  Settled(r)'
<1>1. Mine(r) /\ Arrays /\ RowsOK
  BY InvMine
<1>2. CASE Refuse(r)
  BY <1>1, <1>2, RollbackEffect, DoneSettled DEF Refuse, Leave, Goto, Arrays
<1>3. CASE Fail(r)
  BY <1>2, <1>3 DEF Fail
<1>4. CASE Receive(r) \/ ReceiveCheck(r)
  BY <1>4, ReceiveSettled
<1>5. CASE CommitTx(r)
  <2>1. draft'[r] = NoDraft /\ pc'[r] = "ok"
    BY <1>1, <1>5, CommitEffect DEF CommitTx, Leave, Goto, Arrays
  <2> QED
    BY <2>1, DoneSettled
<1>6. CASE (CreateRow(r) \/ PutProduct(r) \/ PutSupplier(r) \/ SoftDelete(r)) /\ ~Refuse(r)
  <2>1. draft' = draft /\ pc[r] \in Outside \ {"ok"} /\ pc'[r] = "ok"
    BY <1>1, <1>6 DEF CreateRow, PutProduct, PutSupplier, SoftDelete, Autocommit, Leave, Goto,
                      Arrays, Outside
  <2> QED
    BY <2>1, PoolRest, DoneSettled
<1>7. CASE /\ GetProduct(r) \/ GetSupplier(r) \/ ListProducts(r) \/ InsertHeader(r)
           /\ ~Refuse(r)
  <2>1. /\ draft' = draft /\ moved' = moved /\ call' = call
        /\ pc[r] \in {"get", "find", "list", "header"}
        /\ pc'[r] \in {"put", "rename", "header", "items"}
    BY <1>1, <1>7 DEF GetProduct, GetSupplier, ListProducts, InsertHeader, Autocommit, Goto, Arrays,
                      db, goods, locals
  <2>2. call[r].op \in {"update", "rename", "check"}
    BY <1>1, <2>1 DEF Mine, Course
  <2> QED
    BY <2>1, <2>2, PoolRest, RestSettled DEF Outside, Moving
<1>8. CASE Step(r) /\ ~Refuse(r)
  BY <1>5, <1>6, <1>7, <1>8, LockSettled, MoveSettled, InsertSettled, DebtSettled, PaySettled DEF Step
<1>9. CASE CheckStep(r) /\ ~Refuse(r)
  BY <1>7, <1>9, LockSettled, ItemsSettled, ReadSettled, SetSettled, CompleteSettled DEF CheckStep
<1> QED
  BY <1>2, <1>3, <1>4, <1>8, <1>9 DEF Act

-----------------------------------------------------------------------------
(* The accounts are kept.                                                  *)

LEMMA AccountsInit == Init => Accounts
<1> SUFFICES ASSUME Init PROVE Accounts
  OBVIOUS
<1>1. /\ table = InitRow
      /\ \A r \in Req : /\ pc[r] = "idle" /\ call[r] = NoCall /\ Locked(r) = {}
                        /\ moved[r] = Still /\ todo[r] = <<>>
  BY DEF Init, Locked, NoDraft
<1>2. Foreign
  <2>1. ASSUME NEW x \in MadeBy(InitRow, {"order", "payment", "transfer"})
        PROVE  Cites(InitRow, InitRow[x])
    BY PaperAssumption DEF Cites, MadeBy
  <2> QED
    BY <1>1, <2>1 DEF Foreign
<1>3. Found
  BY <1>1 DEF Found, Is
<1>4. PaidReconciles
  <2>1. ASSUME NEW o \in MadeBy(InitRow, {"order"})
        PROVE  /\ InitRow[o].paid = InitRow[o].booked + PaidFor(InitRow, o)
               /\ InitRow[o].status = IF PaymentsFor(InitRow, o) = {} THEN FirstStatus(o)
                                      ELSE Status(InitRow[o].paid, InitRow[o].total)
    <3>1. o \in MadeBy(InitRow, {"order", "payment", "transfer"}) /\ InitRow[o].kind = "order"
      BY DEF MadeBy
    <3>2. FirstStatus(o) = InitRow[o].status
      BY InitRowAssumption DEF MadeBy, FirstStatus
    <3> QED
      BY <3>1, <3>2, PaperAssumption
  <2> QED
    BY <1>1, <2>1 DEF PaidReconciles
<1>5. DebtReconciles
  <2> SUFFICES ASSUME NEW s \in Supplier, table[s] # NoRow
               PROVE  LET drift == table[s].debt - OwedIn(table, s) - Start(s)
                      IN -Cardinality(Inexact(s)) <= drift /\ drift <= Cardinality(Inexact(s))
    BY DEF DebtReconciles, Kind, Start
  <2>1. Cardinality(Inexact(s)) = 0
    <3>1. Inexact(s) = {}
      BY <1>1 DEF Inexact
    <3> QED
      BY <3>1, FS_EmptySet
  <2>2. PICK first \in Int : first = Start(s) /\ first = table[s].debt - OwedIn(table, s)
    BY <1>1, StartType DEF Start
  <2> QED
    BY <2>1, <2>2
<1>6. StockReconciles
  <2>1. ASSUME NEW p \in Product, Kind(p, "product") PROVE FirstRow(p) = InitRow[p]
    BY <1>1, <2>1 DEF FirstRow, Kind
  <2> QED
    BY <1>1, <2>1 DEF StockReconciles
<1>7. ASSUME NEW r \in Req PROVE Papers(r) /\ Credit(r) /\ Carried(r)
  <2>1. Papers(r) /\ Credit(r)
    BY <1>1 DEF Papers, Credit, Credited, NoCall
  <2>2. \A p \in Product : \A place \in Place : moved[r][p][place] = 0
    BY <1>1 DEF Still, Place
  <2>3. Carried(r)
    BY <1>1, <2>2 DEF Carried, NoCall, Moving
  <2> QED
    BY <2>1, <2>3
<1> QED
  BY <1>2, <1>3, <1>4, <1>5, <1>6, <1>7 DEF Accounts

LEMMA AccountsKept == Accounts /\ UNCHANGED vars => Accounts'
<1> SUFFICES ASSUME Accounts, UNCHANGED vars PROVE Accounts'
  OBVIOUS
<1>1. table' = table /\ draft' = draft /\ moved' = moved /\ pc' = pc /\ call' = call /\ todo' = todo
  BY DEF vars, locals
<1>2. Foreign' /\ Found' /\ PaidReconciles' /\ DebtReconciles'
  <2>1. \A s : Inexact(s)' = Inexact(s)
    BY <1>1 DEF Inexact
  <2>2. \A o : FirstStatus(o)' = FirstStatus(o)
    BY <1>1 DEF FirstStatus
  <2>3. Foreign' /\ Found' /\ PaidReconciles'
    BY <1>1, <2>2 DEF Accounts, Foreign, Found, PaidReconciles, Is, Kind
  <2>4. DebtReconciles'
    BY <1>1, <2>1 DEF Accounts, DebtReconciles, Kind
  <2> QED
    BY <2>3, <2>4
<1>3. StockReconciles'
  <2>1. Overwritten' = Overwritten
    BY <1>1 DEF Overwritten
  <2>2. \A p : FirstRow(p)' = FirstRow(p)
    BY <1>1 DEF FirstRow
  <2>3. \A p, place : Corrected(p, place)' <=> Corrected(p, place)
    BY <1>1 DEF Corrected, ItemsOf
  <2> QED
    BY <1>1, <2>1, <2>2, <2>3 DEF Accounts, StockReconciles, Kind
<1>4. ASSUME NEW r \in Req PROVE Papers(r)' /\ Credit(r)' /\ Carried(r)'
  <2>1. Locked(r)' = Locked(r)
    BY <1>1 DEF Locked
  <2>2. DebtDelta(r)' = DebtDelta(r) /\ (Credited(r)' <=> Credited(r))
    BY <1>1 DEF DebtDelta, Credited
  <2>3. \A p, place : ToMove(r, p, place)' = ToMove(r, p, place)
    BY <1>1 DEF ToMove
  <2>4. \A c : ItemsOf(c)' = ItemsOf(c)
    BY <1>1 DEF ItemsOf
  <2>5. Papers(r)'
    BY <1>1, <2>1 DEF Accounts, Papers, Kind
  <2>6. Credit(r)'
    BY <1>1, <2>1, <2>2 DEF Accounts, Credit
  <2>7. Carried(r)'
    BY <1>1, <2>3, <2>4 DEF Accounts, Carried
  <2> QED
    BY <2>5, <2>6, <2>7
<1> QED
  BY <1>2, <1>3, <1>4 DEF Accounts

LEMMA AccountsStep == Inv /\ Accounts /\ [CheckNext]_vars => Accounts'
<1>1. ASSUME Inv, Accounts, NEW r \in Req, Act(r) PROVE Accounts'
  <2>1. Papers(r) /\ Credit(r) /\ Carried(r) /\ Foreign /\ Found
    BY <1>1 DEF Accounts
  <2>2. Foreign' /\ Found'
    BY <1>1, <2>1, ForeignStep, FoundStep
  <2>3. PaidReconciles'
    BY <1>1, <2>1, PaidStep DEF Accounts
  <2>4. DebtReconciles'
    BY <1>1, <2>1, DebtStep DEF Accounts
  <2>5. StockReconciles'
    BY <1>1, <2>1, StockStep DEF Accounts
  <2>6. ASSUME NEW q \in Req PROVE Papers(q)' /\ Credit(q)' /\ Carried(q)'
    <3>1. CASE q = r
      BY <1>1, <2>1, <3>1, OwnSettled DEF Settled
    <3>2. CASE q # r
      BY <1>1, <2>1, <3>2, OthersPapers, OthersCredit, OthersCarried DEF Accounts
    <3> QED
      BY <3>1, <3>2
  <2> QED
    BY <2>2, <2>3, <2>4, <2>5, <2>6 DEF Accounts
<1> QED
  BY <1>1, AccountsKept DEF CheckNext, Act

(* The second part of the inductive invariant of Supply and the inventory  *)
(* checks: the books of the purchases and of the goods.                    *)
THEOREM BooksAreKept == CheckSpec => []Accounts
<1> QED
  BY AccountsInit, AccountsStep, Invariance, PTL DEF CheckSpec

(* An order is always paid to the unit by what was booked with it and the  *)
(* payments in its name, whichever of its payments commit first, and its   *)
(* status is the one of that amount or, before any payment, of the amounts *)
(* of the request before they were rounded.                                *)
THEOREM PaidAlwaysReconciles == CheckSpec => []PaidReconciles
<1>1. Accounts => PaidReconciles
  BY DEF Accounts
<1> QED
  BY <1>1, BooksAreKept, PTL

(* The debt to a supplier who is not deleted always agrees with the orders *)
(* from him and the payments to him but for a unit for each of those that  *)
(* the sum and the record round apart, however their transactions overlap  *)
(* with each other and with the changes of his row, and however many parts *)
(* a unit has.                                                             *)
THEOREM DebtAlwaysReconciles == CheckSpec => []DebtReconciles
<1>1. Accounts => DebtReconciles
  BY DEF Accounts
<1> QED
  BY <1>1, BooksAreKept, PTL

(* What is in the shop and in the warehouse is what the product began with *)
(* and what the papers brought, but where an update has overwritten it or  *)
(* an inventory check has corrected it: no movement is lost or half done.  *)
THEOREM StockAlwaysReconciles == CheckSpec => []StockReconciles
<1>1. Accounts => StockReconciles
  BY DEF Accounts
<1> QED
  BY <1>1, BooksAreKept, PTL

=============================================================================
