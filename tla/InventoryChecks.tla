--------------------------- MODULE InventoryChecks ---------------------------
(***************************************************************************)
(* InventoryCheckService, next to the services of Supply that move the     *)
(* same goods. Create writes the header of a check on the pool and its     *)
(* items, one for every product, in a transaction. Update writes counts    *)
(* into items and, when it is to complete the check, sets the stock of     *)
(* every item's product to its count. The row named after a request is the *)
(* check it creates.                                                       *)
(***************************************************************************)
EXTENDS Supply, SequencesExt

ItemsOf(c) == {x \in Item : x[1] = c /\ table[x] # NoRow}

ASSUME CompletedAssumption ==
  \A x \in Item :
    (/\ InitRow[x] # NoRow
     /\ InitRow[x[1]].kind = "check" /\ InitRow[x[1]].status = "completed")
    => InitRow[x].actual # NoRow

\* The request that creates a check answers with it and with its items: their
\* names are known once it is done.
Known(c) == c \in Past \/ pc[c] = "ok"

NameableCheck(b) ==
  b.op = "count" =>
    Known(b.check) /\ \A i \in DOMAIN b.counts : Known(b.counts[i].item[1])

\* Mutation of AfterCounts: the check is completed without a look at its items.
AfterCountsUnread(b, rest) ==
  CASE rest # <<>> -> "count"
    [] rest = <<>> /\ b.complete -> "complete"
    [] OTHER -> "commit"

\* Where Update goes when the counts still to write are rest.
AfterCounts(b, rest) ==
  CASE rest # <<>> -> "count"
    [] rest = <<>> /\ b.complete -> "read"
    [] OTHER -> "commit"

ReceiveCheck(r) ==
  /\ pc[r] = "idle"
  /\ \E b \in {c \in Body \cap (CheckBody \cup CountBody) : NameableCheck(c)} :
       /\ call' = [call EXCEPT ![r] = b]
       /\ todo' = [todo EXCEPT ![r] = IF b.op = "count" THEN b.counts ELSE <<>>]
       /\ Goto(r, IF b.op = "count" THEN AfterCounts(b, b.counts) ELSE "list")
  /\ UNCHANGED <<db, goods>>

-----------------------------------------------------------------------------
(* Create.                                                                 *)

\* productRepo.List on the pool: the products that are not deleted, with the
\* quantity of each that is expected. The order they come in makes no difference.
ListProducts(r) ==
  /\ pc[r] = "list"
  /\ todo' = [todo EXCEPT ![r] =
                SetToSeq({[item |-> x, qty |-> table[x[2]][call[r].location]] :
                            x \in {y \in Item : y[1] = r /\ Kind(y[2], "product")
                                           /\ table[y[2]].live}})]
  /\ Goto(r, "header")
  /\ UNCHANGED <<db, goods, call>>

\* icRepo.Create, on the pool: the header stays whatever happens to the items.
InsertHeader(r) ==
  /\ pc[r] = "header"
  /\ Autocommit(r, r, [kind |-> "check", location |-> call[r].location,
                       status |-> "in_progress"])
  /\ Goto(r, "items")
  /\ UNCHANGED <<goods, locals>>

\* icRepo.CreateItem for every product: new rows, for which nothing waits.
InsertItems(r) ==
  /\ pc[r] = "items"
  /\ Write(r, [x \in {todo[r][i].item : i \in DOMAIN todo[r]} |->
       [kind |-> "item", actual |-> NoRow,
        expected |-> (CHOOSE c \in ToSet(todo[r]) : c.item = x).qty]])
  /\ Goto(r, "commit")
  /\ UNCHANGED <<goods, locals>>

-----------------------------------------------------------------------------
(* Update.                                                                 *)

\* icRepo.UpdateItemActualQty, by the name of the item alone: which check it
\* belongs to, and whether that check is completed, is not looked at.
CountItem(r) ==
  /\ pc[r] = "count"
  /\ LET c == Head(todo[r])
     IN IF Seen(r, c.item) # NoRow
          THEN Write(r, [x \in {c.item} |-> [Seen(r, x) EXCEPT !.actual = c.qty]])
          ELSE UNCHANGED db
  /\ todo' = [todo EXCEPT ![r] = Tail(@)]
  /\ Goto(r, AfterCounts(call[r], Tail(todo[r])))
  /\ UNCHANGED <<goods, call>>

\* Mutation of AllCounted: one count is enough.
AnyCounted(items) == items = {} \/ \E x \in items : table[x].actual # NoRow

AllCounted(items) == \A x \in items : table[x].actual # NoRow

\* icRepo.GetItemsByCheckID, on the pool: the committed items, in any order,
\* and not the counts this request has just written.
ReadItems(r) ==
  /\ pc[r] = "read"
  /\ LET items == ItemsOf(call[r].check)
     IN \/ /\ AllCounted(items)
           /\ \E order \in SetToSeqs(items) :
                /\ todo' = [todo EXCEPT ![r] =
                     [i \in DOMAIN order |-> [item |-> order[i], qty |-> table[order[i]].actual]]]
                /\ Goto(r, IF order = <<>> THEN "complete" ELSE "item")
           /\ UNCHANGED <<db, goods, call>>
        \/ /\ ~AllCounted(items)
           /\ Refuse(r)

\* GetByIDForUpdate of the product of the next item.
LockCounted(r) ==
  /\ pc[r] = "item"
  /\ LET p == Head(todo[r]).item[2]
     IN \/ /\ GetByIDForUpdate(r, p)
           /\ Goto(r, "set")
           /\ UNCHANGED <<moved, locals>>
        \/ /\ ProductNotFound(r, p)
           /\ Refuse(r)

\* CHECK (qty_shop >= 0), CHECK (qty_warehouse >= 0).
NonNegative(qty) == qty >= 0

\* Mutation of CorrectedQty: the counted quantity goes to both places.
CorrectedBoth(row, location, place, qty) == qty

\* What UpdateStock gets for one place: the count if the check is of that place,
\* or what the locked row has.
CorrectedQty(row, location, place, qty) == IF place = location THEN qty ELSE row[place]

\* The location is read from the header, on the pool; it never changes.
SetStock(r) ==
  /\ pc[r] = "set"
  /\ LET c == Head(todo[r])
         To(place) == CorrectedQty(product[r], table[call[r].check].location, place, c.qty)
     IN \/ /\ NonNegative(c.qty)
           /\ UpdateStock(r, c.item[2], To("shop"), To("warehouse"))
           /\ todo' = [todo EXCEPT ![r] = Tail(@)]
           /\ Goto(r, IF Len(todo[r]) > 1 THEN "item" ELSE "complete")
           /\ UNCHANGED <<product, call>>
        \/ /\ ~NonNegative(c.qty)
           /\ Refuse(r)

\* icRepo.Complete: of a check that is completed already it changes no row, and
\* Update goes on.
CompleteCheck(r) ==
  /\ pc[r] = "complete"
  /\ LET c == call[r].check
     IN IF Kind(c, "check") /\ table[c].status = "in_progress"
          THEN Write(r, [x \in {c} |-> [Seen(r, x) EXCEPT !.status = "completed"]])
          ELSE UNCHANGED db
  /\ Goto(r, "commit")
  /\ UNCHANGED <<goods, locals>>

CheckStep(r) ==
  \/ ListProducts(r) \/ InsertHeader(r) \/ InsertItems(r)
  \/ CountItem(r) \/ ReadItems(r) \/ LockCounted(r) \/ SetStock(r) \/ CompleteCheck(r)

CheckNext == \E r \in Req : Receive(r) \/ ReceiveCheck(r) \/ Step(r) \/ CheckStep(r) \/ Fail(r)

CheckSpec == Init /\ [][CheckNext]_vars

-----------------------------------------------------------------------------
(* Properties.                                                             *)

MovedBy(moves, p, place) ==
  SumFunction([i \in DOMAIN moves |-> IF moves[i].product = p THEN moves[i][place] ELSE 0])

\* What the transfers, orders and payments of t have added to a place for p.
MovedIn(t, p, place) ==
  SumFunction([x \in Id |->
    IF x \in MadeBy(t, {"order", "payment", "transfer"})
      THEN MovedBy(t[x].moves, p, place) ELSE 0])

\* The products that an update has written.
Overwritten == {call[r].product : r \in {q \in Req : pc[q] = "ok" /\ call[q].op = "update"}}

\* The row of p the requests found, or the one that made it.
FirstRow(p) ==
  IF InitRow[p] # NoRow THEN InitRow[p]
  ELSE call[CHOOSE r \in Req : call[r].op = "create" /\ call[r].name = p].row

\* A committed completion of a check of this place has set p.
Corrected(p, place) ==
  \E r \in Req :
    /\ pc[r] = "ok" /\ call[r].op = "count" /\ call[r].complete
    /\ \E x \in ItemsOf(call[r].check) :
         x[2] = p /\ table[call[r].check].location = place

(* The shop and the warehouse hold what the recorded transfers, orders and *)
(* returns to suppliers moved there, but for the products an update has    *)
(* overwritten and the place a check has corrected: none of the movements  *)
(* is lost or half done, even when the product is deleted meanwhile, and a *)
(* check of one place, whose UpdateStock writes both, leaves the other     *)
(* alone while goods move there.                                           *)
StockReconciles ==
  \A p \in Product \ Overwritten : \A place \in Place :
    (Kind(p, "product") /\ ~Corrected(p, place)) =>
      table[p][place] - MovedIn(table, p, place) = FirstRow(p)[place] - MovedIn(InitRow, p, place)

(* Every item of a completed check has its count, though the items are     *)
(* read outside the transaction that completes it.                         *)
CompletedIsCounted ==
  \A c \in Id : Kind(c, "check") /\ table[c].status = "completed" =>
    \A x \in ItemsOf(c) : table[x].actual # NoRow

(* The service promises "to get the latest actual_qty (may have been       *)
(* updated above)": a completion that has itself written counts sets the   *)
(* stock to these.                                                         *)
SetsItsOwnCounts ==
  \A r \in Req : (pc[r] = "commit" /\ call[r].op = "count" /\ call[r].complete) =>
    \A x \in ItemsOf(call[r].check) \cap Locked(r) :
      Seen(r, x[2])[table[call[r].check].location] = draft[r][x].actual
=============================================================================
