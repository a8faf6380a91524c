---------------------------- MODULE SaleReturns ----------------------------
(***************************************************************************)
(* SaleReturnService.Create: returns and exchanges, among the sales,       *)
(* deletions and shifts of Sales.                                          *)
(*                                                                         *)
(* The sale, the item and the quantity already returned are read on the    *)
(* pool, and none of the three is locked or read again in the transaction. *)
(* The row named after a request is the return it inserts, together with   *)
(* the safe entries made in the name of that return.                       *)
(***************************************************************************)
EXTENDS Sales

CONSTANTS
  ReturnBody,  \* the validated returns the clients may send
  Price,       \* the unit price each product is sold at
  Discount     \* the discount of each sale

\* Bodies that pass Validate. Nobody checks that the item is one of the sale.
ReturnRequest ==
  [op : {"return"}, sale : Id, item : ItemId, quantity : Nat \ {0},
   kind : {"full"}, new : {NoRow}]
  \cup [op : {"return"}, sale : Id, item : ItemId, quantity : Nat \ {0},
        kind : {"exchange", "exchange_diff"}, new : Product]

ASSUME ReturnBodyAssumption == ReturnBody \subseteq ReturnRequest

ASSUME PriceAssumption == Price \in [Product -> Nat]

ASSUME DiscountAssumption == Discount \in [Id -> Nat]

\* Subtotals of unit price and quantity, and total_amount: their sum without
\* the discount of the sale named x.
Subtotal(item) == Price[item.product] * item.quantity
ValueOf(items) == SumFunction([i \in DOMAIN items |-> Subtotal(items[i])])
TotalAmount(x, row) == ValueOf(row.items) - Discount[x]

\* Create lets no discount exceed the sum and no debt exceed the total.
ASSUME TotalsAssumption ==
  \A x \in Past : InitRow[x] # NoRow /\ InitRow[x].kind = "sale" =>
    InitRow[x].owed <= TotalAmount(x, InitRow[x])

\* The amounts paid, the debt among them, add up to the total of an exact body.
ASSUME CreditAssumption ==
  \A b \in Body, r \in Req : b.op = "create" /\ b.exact =>
    b.owed <= ValueOf(b.items) - Discount[r]

ItemExistsIn(t, i) == KindIn(t, i.of, "sale") /\ i.index \in DOMAIN t[i.of].items
ItemExists(i) == ItemExistsIn(table, i)

\* The foreign keys of sale_returns: every return has its sale and its item.
ReferencesIn(t) ==
  \A y \in Id : KindIn(t, y, "return") =>
    KindIn(t, t[y].sale, "sale") /\ ItemExistsIn(t, t[y].item)

ASSUME ReferencesAssumption == ReferencesIn(InitRow)

ReturnIds(t) == {y \in Id : KindIn(t, y, "return")}

ProductOf(t, y) == t[t[y].item.of].items[t[y].item.index].product

\* In database t, what return y takes off the debt of its sale is no more than its
\* pieces are of the total, to within half a unit of rounding.
WithinPart(t, y) ==
  LET x == t[y].sale
      item == [product |-> ProductOf(t, y), quantity |-> t[y].quantity]
      total == TotalAmount(x, t[x])
  IN 2 * total * t[y].debt <= 2 * t[x].owed * Subtotal(item) + total

\* The same code recorded the returns that are there already.
ASSUME RecordsAssumption == \A y \in ReturnIds(InitRow) : WithinPart(InitRow, y)

ReturnsOf(i) == {y \in Id : Kind(y, "return") /\ table[y].item = i}

\* SumReturnedQty.
ReturnedQty(i) ==
  SumFunction([y \in Id |-> IF y \in ReturnsOf(i) THEN table[y].quantity ELSE 0])

-----------------------------------------------------------------------------
ReceiveReturn(r) ==
  /\ pc[r] = "idle"
  /\ \E b \in ReturnBody : call' = [call EXCEPT ![r] = b]
  /\ Goto(r, "sale")
  /\ UNCHANGED <<db, goods, shift, sale, todo, totals>>

GetReturnedSale(r) ==
  /\ pc[r] = "sale"
  /\ \/ /\ Kind(call[r].sale, "sale")
        /\ sale' = [sale EXCEPT ![r] = table[call[r].sale]]
        /\ Goto(r, "item")
        /\ UNCHANGED <<db, goods, call, shift, todo, totals>>
     \/ /\ ~Kind(call[r].sale, "sale")
        /\ Refuse(r)

GetSaleItem(r) ==
  /\ pc[r] = "item"
  /\ LET i == call[r].item
     IN \/ /\ ItemExists(i)
           /\ todo' = [todo EXCEPT ![r] = <<table[i.of].items[i.index]>>]
           /\ Goto(r, "returned")
           /\ UNCHANGED <<db, goods, call, shift, sale, totals>>
        \/ /\ ~ItemExists(i)
           /\ Refuse(r)

\* Mutation of Moves: all of the item comes back, whatever was asked for.
MovesWholeItem(r) ==
  LET back == Head(todo[r])
  IN IF call[r].kind = "full" THEN <<back>> ELSE <<back, [back EXCEPT !.product = call[r].new]>>

\* The products to lock and write: the old one comes back to the shop, then
\* the new one of an exchange leaves it.
Moves(r) ==
  LET back == [product |-> Head(todo[r]).product, quantity |-> call[r].quantity]
  IN IF call[r].kind = "full" THEN <<back>> ELSE <<back, [back EXCEPT !.product = call[r].new]>>

CheckReturned(r) ==
  /\ pc[r] = "returned"
  /\ LET left == Head(todo[r]).quantity - ReturnedQty(call[r].item)
     IN \/ /\ call[r].quantity <= left
           /\ todo' = [todo EXCEPT ![r] = Moves(r)]
           /\ Goto(r, "lock")
           /\ UNCHANGED <<db, goods, call, shift, sale, totals>>
        \/ /\ call[r].quantity > left
           /\ Refuse(r)

\* The product locked last is the one that comes back.
ComesBack(r) == call[r].kind = "full" \/ Len(todo[r]) = 2

GiveBack(r) ==
  /\ pc[r] = "write"
  /\ call[r].op = "return"
  /\ ComesBack(r)
  /\ LET item == Head(todo[r])
     IN UpdateStock(r, item.product, product[r].shop + item.quantity, product[r].warehouse)
  /\ IF call[r].kind = "full"
       THEN Goto(r, "refund") /\ UNCHANGED todo
       ELSE Goto(r, "lock") /\ todo' = [todo EXCEPT ![r] = Tail(@)]
  /\ UNCHANGED <<product, call, shift, sale, totals>>

\* Mutation of TakeNew: the quantity in the shop is not compared.
TakeNewUnchecked(r) ==
  /\ pc[r] = "write"
  /\ call[r].op = "return"
  /\ ~ComesBack(r)
  /\ LET item == Head(todo[r])
     IN UpdateStock(r, item.product, product[r].shop - item.quantity, product[r].warehouse)
  /\ todo' = [todo EXCEPT ![r] = Tail(@)]
  /\ Goto(r, "refund")
  /\ UNCHANGED <<product, call, shift, sale, totals>>

TakeNew(r) ==
  /\ pc[r] = "write"
  /\ call[r].op = "return"
  /\ ~ComesBack(r)
  /\ LET item == Head(todo[r])
     IN \/ /\ Enough(r, item.quantity)
           /\ UpdateStock(r, item.product, product[r].shop - item.quantity, product[r].warehouse)
           /\ todo' = [todo EXCEPT ![r] = Tail(@)]
           /\ Goto(r, "refund")
           /\ UNCHANGED <<product, call, shift, sale, totals>>
        \/ /\ ~Enough(r, item.quantity)
           /\ Refuse(r)

-----------------------------------------------------------------------------
(* The money. A full return pays back each channel its proportion: cash    *)
(* and terminal from the safe, debt by a smaller debt, and nothing for     *)
(* what was paid online. An exchange for a difference settles it in cash.  *)

Expense(balances) == {[type |-> "expense", balance |-> b] : b \in balances}

\* numerator / denominator as a column of two decimals keeps it, in its last
\* digit: half away from zero. (Div keeps 16 digits, which tells two amounts
\* apart only when they are closer to each other than that.)
Rounded(numerator, denominator) ==
  LET half(n) == (2 * n + denominator) \div (2 * denominator)
  IN IF numerator >= 0 THEN half(numerator) ELSE -half(-numerator)

\* Mutation of DebtRefund: every return takes off the whole debt part.
DebtRefundWhole(owed, item, total) == owed * total

\* paid_debt times the proportion that the returned pieces are of the total, as
\* a multiple of 1/total.
DebtRefund(owed, item, total) == owed * Subtotal(item)

\* Mutation of TakenOff: the refund is added to the debt.
TakenOffNoNeg(d, refund, total) == Rounded(d * total + refund, total)

\* What is left of debt d (UpdateDebt with debtRefund.Neg()).
TakenOff(d, refund, total) == Rounded(d * total - refund, total)

\* Mutation of ReturnOf: the part of the debt is recorded with the sign of Neg().
ReturnOfNeg(r, safe, debt) ==
  [kind |-> "return", sale |-> call[r].sale, item |-> call[r].item,
   quantity |-> call[r].quantity, new |-> call[r].new, debt |-> -debt, safe |-> safe]

\* The return of r with these entries in the safe and this part of the debt.
ReturnOf(r, safe, debt) ==
  [kind |-> "return", sale |-> call[r].sale, item |-> call[r].item,
   quantity |-> call[r].quantity, new |-> call[r].new, debt |-> debt, safe |-> safe]

\* UpdateDebt changes nothing for a deleted client.
RefundDebt(r, safe) ==
  LET c == sale[r].client
      total == TotalAmount(call[r].sale, sale[r])
      refund == DebtRefund(sale[r].owed, Head(todo[r]), total)
      row == ReturnOf(r, safe, Rounded(refund, total))
  IN IF refund > 0 /\ Seen(r, c).live
       THEN Write(r, [x \in {r, c} |->
              IF x = r THEN row
              ELSE [Seen(r, c) EXCEPT !.debt = TakenOff(@, refund, total)]])
       ELSE Write(r, [x \in {r} |-> row])

\* Nothing is paid back for what cost nothing.
PaidBack(r) ==
  IF Subtotal(Head(todo[r])) > 0 THEN sale[r].paid \cap {"cash", "terminal"} ELSE {}

\* A sale whose total is zero, or is discounted to zero, makes the proportion
\* a division by zero: the handler panics, and the transaction is rolled back.
Refund(r) ==
  /\ pc[r] = "refund"
  /\ \/ /\ call[r].kind = "full"
        /\ TotalAmount(call[r].sale, sale[r]) > 0
        /\ RefundDebt(r, Expense(PaidBack(r)))
        /\ Goto(r, "return")
        /\ UNCHANGED <<goods, locals>>
     \/ /\ call[r].kind = "full"
        /\ TotalAmount(call[r].sale, sale[r]) = 0
        /\ Refuse(r)
     \/ /\ call[r].kind # "full"
        /\ \E safe \in IF call[r].kind = "exchange" THEN {{}}
                       ELSE {{}, Expense({"cash"}), {[type |-> "income", balance |-> "cash"]}} :
             Write(r, [x \in {r} |-> ReturnOf(r, safe, 0)])
        /\ Goto(r, "return")
        /\ UNCHANGED <<goods, locals>>

\* Mutation of Referents: no foreign key on sale_item_id.
ReferentsSaleOnly(r) == {call[r].sale}

\* The rows the foreign keys of sale_returns point to.
Referents(r) == {call[r].sale, call[r].item.of}

\* INSERT INTO sale_returns, and the Commit: the insert waits for a transaction
\* that is deleting the sale or the item, and fails when it has done so. (The key
\* lock it then holds on them until the Commit matters to nobody but a deletion,
\* which has to wait for the products of the sale anyway.)
InsertReturn(r) ==
  /\ pc[r] = "return"
  /\ \A x \in Referents(r) : Free(r, x)
  /\ \/ /\ \A x \in Referents(r) : Kind(x, "sale")
        /\ Commit(r)
        /\ Leave(r, "ok")
        /\ UNCHANGED moved
     \/ /\ \E x \in Referents(r) : ~Kind(x, "sale")
        /\ Refuse(r)

-----------------------------------------------------------------------------
ReturnStep(r) ==
  \/ GetReturnedSale(r) \/ GetSaleItem(r) \/ CheckReturned(r)
  \/ GiveBack(r) \/ TakeNew(r) \/ Refund(r) \/ InsertReturn(r)

ReturnsNext ==
  \E r \in Req :
    Receive(r) \/ ReceiveReturn(r) \/ Step(r) \/ ReturnStep(r) \/ Fail(r)

ReturnsSpec == Init /\ [][ReturnsNext]_vars

-----------------------------------------------------------------------------
(* Properties. NoOversell and MovesAtomically of Sales are checked of      *)
(* ReturnsSpec too.                                                        *)

(* The rows and the locals keep their types when requests return goods.    *)
ReturnsTypeOK ==
  /\ RowsOK
  /\ product \in [Req -> ProductRow \cup {NoRow}]
  /\ moved \in [Req -> [Product -> Movement]]
  /\ pc \in [Req -> Statement \cup {"sale", "item", "returned", "refund", "return"}]
  /\ call \in [Req -> Body \cup ReturnBody \cup {NoCall}]
  /\ shift \in [Req -> Id \cup {NoRow}]
  /\ sale \in [Req -> SaleRow \cup {NoRow}]
  /\ todo \in [Req -> Seq(Item)]
  /\ totals \in [Req -> Totals]

(* A return never outlives what it returns: neither its sale nor its item  *)
(* is ever deleted, not even by a deletion that had found no returns. (The *)
(* guard of Delete looks at the sale only; the foreign keys do the rest.)  *)
ReturnsHaveItems == ReferencesIn(table)

\* The pieces of p that have come back, less those that left in exchange.
BackIn(t, p) ==
  SumFunction([y \in Id |->
    IF y \in ReturnIds(t)
      THEN (IF ProductOf(t, y) = p THEN t[y].quantity ELSE 0)
             - (IF t[y].new = p THEN t[y].quantity ELSE 0)
      ELSE 0])

\* What the returns took off the debt of client c.
ForgivenIn(t, c) ==
  SumFunction([y \in Id |->
    IF y \in ReturnIds(t) /\ t[t[y].sale].client = c THEN t[y].debt ELSE 0])

GoodsIn(t, p) == t[p].shop + SoldIn(t, p) - BackIn(t, p)
DebtIn(t, c) == t[c].debt - OwedIn(t, c) + ForgivenIn(t, c)

(* Goods are neither made nor lost by returns: whatever returns, exchanges *)
(* and deletions of one sale race, the shop, the sales and the returns add *)
(* up. In particular no piece is put back both by a return and by the      *)
(* deletion of its sale.                                                   *)
GoodsReconcile ==
  DeletedOnce =>
    \A p \in Product : GoodsIn(table, p) = GoodsIn(InitRow, p)

\* The full returns of c's sales whose part of the debt lies halfway between two amounts.
HalvesOf(c) ==
  {y \in ReturnIds(table) :
     LET x == table[y].sale
         item == [product |-> ProductOf(table, y), quantity |-> table[y].quantity]
     IN /\ table[x].client = c
        /\ table[y].new = NoRow
        /\ (2 * table[x].owed * Subtotal(item)) % (2 * TotalAmount(x, table[x]))
             = TotalAmount(x, table[x])}

(* A client's debt is what the existing sales left unpaid less what their  *)
(* returns took off, on top of what it was before. Only where a refund is  *)
(* halfway between two amounts may the two differ: the column rounds the   *)
(* debt that is left, not the refund.                                      *)
DebtsReconcile ==
  DeletedOnce =>
    \A c \in Client : table[c].live =>
      DebtIn(table, c) - DebtIn(InitRow, c) \in 0 .. Cardinality(HalvesOf(c))

ReturnsOfSale(x) == {y \in Id : Kind(y, "return") /\ table[y].sale = x}

(* A sale's returns forgive no more of the debt than was owed, to within   *)
(* half a unit of rounding for each, as long as they name the sale's own   *)
(* items and bring back no more than was sold. With a discount they may:   *)
(* prices are before it and the total is after it, so that all the pieces  *)
(* together give back the debt times value over total, and never more.     *)
ForgivenIsOwed ==
  \A x \in Id : Kind(x, "sale") =>
    LET back == ReturnsOfSale(x)
        total == TotalAmount(x, table[x])
    IN ( /\ \A y \in back : table[y].item.of = x
         /\ \A k \in DOMAIN table[x].items :
              ReturnedQty([of |-> x, index |-> k]) <= table[x].items[k].quantity )
       => 2 * total * SumFunction([y \in back |-> table[y].debt])
            <= 2 * table[x].owed * ValueOf(table[x].items) + total * Cardinality(back)

(* The design says of a return: "Validate: return quantity <=              *)
(* sale_item.quantity - already_returned_qty for this sale_item". No more  *)
(* of an item comes back than was sold.                                    *)
NoOverReturn ==
  \A y \in Id : Kind(y, "return") =>
    LET i == table[y].item
    IN ItemExists(i) => ReturnedQty(i) <= table[i.of].items[i.index].quantity
=============================================================================
