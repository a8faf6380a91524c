------------------------------- MODULE Sales -------------------------------
(***************************************************************************)
(* SaleService.Create and Delete and ShiftService.Open and Close, run by   *)
(* concurrent requests one SQL statement at a time.                        *)
(*                                                                         *)
(* The guards of these handlers (is a shift open, does the sale exist, has *)
(* it returns) are SELECTs on the pool, made before the transaction        *)
(* begins; the transaction then locks the rows it writes one after the     *)
(* other. A request is what its goroutine's stack holds: where it is, the  *)
(* body it was sent and what it has read. Any failure (an error from the   *)
(* database, a cancelled context, a crash of the server) ends it with the  *)
(* deferred Rollback.                                                      *)
(*                                                                         *)
(* Amounts: a sale names the channels it was paid through and, for the     *)
(* part sold on credit, the debt. A sum over sales (the totals of a shift, *)
(* an entry of the safe) is represented by the set of sales summed: sale   *)
(* rows never change, so the set determines the sum, and double counting   *)
(* and omissions are visible in it.                                        *)
(***************************************************************************)
EXTENDS Sequences, FiniteSetsExt, Products

CONSTANTS
  Client,   \* the clients
  Past,     \* the names of the rows inserted before the requests arrive
  InitRow,  \* the database the requests find
  Body      \* the validated request bodies the clients may send

VARIABLES
  pc,       \* the statement each request is at
  call,     \* the body of each request
  shift,    \* the shift each request has found to be open
  sale,     \* the sale each request has read or is inserting
  todo,     \* the items its loop has still to lock and write
  totals    \* what AggregateSales returned to it

locals == <<call, shift, sale, todo, totals>>
vars == <<table, draft, product, moved, pc, locals>>
goods == <<product, moved>>

-----------------------------------------------------------------------------
(* Rows. uuid.New gives every inserted row a name nobody else uses: a      *)
(* request's own name stands for the one sale, shift or booking it inserts. *)

Id == Req \cup Past
Row == Product \cup Client \cup Id

Item == [product : Product, quantity : Nat \ {0}]
Channel == {"cash", "terminal", "online", "debt"}

\* The result of AggregateSales: the sales it summed, and the channels whose
\* sum is positive (the amounts paid are never negative).
Totals == [sales : SUBSET Id, paid : SUBSET Channel]

ClientRow == [kind : {"client"}, debt : Int, live : BOOLEAN]
ShiftRow == [kind : {"shift"}, status : {"open", "closed"}, rank : Nat, totals : Totals]
SaleRow == [kind : {"sale"}, shift : Id, items : Seq(Item), paid : SUBSET Channel,
            owed : Nat, client : Client]

\* An item is named by its sale and its position there. A return is made in the
\* name of a sale, of an item of that sale or (nobody compares them) of another,
\* and with an exchange another product goes out; debt is what it takes off the
\* client's debt, safe what it books to the safe.
ItemId == [of : Id, index : Nat \ {0}]
ReturnRow == [kind : {"return"}, sale : Id, item : ItemId, quantity : Nat,
              new : Product \cup {NoRow}, debt : Nat,
              safe : SUBSET [type : {"income", "expense"}, balance : {"cash", "terminal"}]]

\* What closing a shift inserts into safe_transactions and owner_debts: the
\* row stands for up to four inserts, one for each entry.
Entry == {[into |-> "safe", source |-> "shift", balance |-> "cash", of |-> "cash"],
          [into |-> "safe", source |-> "shift", balance |-> "terminal", of |-> "terminal"],
          [into |-> "safe", source |-> "online_owner_debt", balance |-> "cash", of |-> "online"],
          [into |-> "owner_debts", source |-> "shift", balance |-> "owner", of |-> "online"]}
BookingRow == [kind : {"booking"}, shift : Id, sales : SUBSET Id, entries : SUBSET Entry]

PaperRow == ShiftRow \cup SaleRow \cup BookingRow \cup ReturnRow
IdRow == {NoRow} \cup PaperRow

\* The versions the row named x may have, and a table or a draft of such rows.
Version(x) ==
  CASE x \in Product -> ProductRow [] x \in Client -> ClientRow [] OTHER -> IdRow

Rows(f) ==
  /\ f = [x \in DOMAIN f |-> f[x]]
  /\ DOMAIN f \subseteq Row
  /\ \A x \in DOMAIN f : f[x] \in Version(x)

\* Request bodies that pass Validate. `exact' says whether the discount is at
\* most the total and the four paid amounts add up to what is left of it.
CreateBody == [op : {"create"}, items : Seq(Item) \ {<<>>}, paid : SUBSET Channel,
               owed : Nat, client : Client, exact : BOOLEAN]
DeleteBody == [op : {"delete"}, sale : Id]
ShiftBody == [op : {"open", "close"}]

NoTotals == [sales |-> {}, paid |-> {}]
NoCall == [op |-> "none"]

ASSUME NamesAssumption ==
  /\ IsFiniteSet(Id)
  /\ Product \cap Client = {} /\ Product \cap Id = {} /\ Client \cap Id = {}
  /\ Req \cap Past = {}
  /\ NoRow \notin Row \cup PaperRow

ASSUME BodyAssumption == Body \subseteq CreateBody \cup DeleteBody \cup ShiftBody

ASSUME InitRowAssumption ==
  /\ Rows(InitRow) /\ DOMAIN InitRow = Row
  /\ \A p \in Product : InitRow[p].shop >= 0 /\ InitRow[p].warehouse >= 0
  /\ \A r \in Req : InitRow[r] = NoRow

\* In database t: row x is of kind k; the bookings of shift s; every open shift
\* has none, every closed one has one, of its totals, and no sale is in two.
KindIn(t, x, k) == t[x] # NoRow /\ t[x].kind = k
BookingsIn(t, s) == {b \in Id : KindIn(t, b, "booking") /\ t[b].shift = s}
BookedIn(t) ==
  /\ \A s \in Id : KindIn(t, s, "shift") =>
       IF t[s].status = "open"
         THEN BookingsIn(t, s) = {}
         ELSE \E b \in Id : /\ BookingsIn(t, s) = {b}
                            /\ t[b].sales = t[s].totals.sales
                            /\ {e.of : e \in t[b].entries} = t[s].totals.paid \ {"debt"}
  /\ \A a, b \in Id : (KindIn(t, a, "booking") /\ KindIn(t, b, "booking") /\ a # b) =>
       t[a].sales \cap t[b].sales = {}

\* The sales of shift s in database t, or that have been deleted from it.
OfShift(t, S, s) == \A x \in S : KindIn(t, x, "sale") => t[x].shift = s

ASSUME BookingAssumption ==
  /\ BookedIn(InitRow)
  /\ \A b \in Id : KindIn(InitRow, b, "booking") =>
       /\ KindIn(InitRow, InitRow[b].shift, "shift")
       /\ InitRow[b].sales \subseteq Past
       /\ OfShift(InitRow, InitRow[b].sales, InitRow[b].shift)

Kind(x, k) == KindIn(table, x, k)
Shifts == {s \in Id : Kind(s, "shift")}
OpenShifts == {s \in Shifts : table[s].status = "open"}
SalesOf(s) == {x \in Id : Kind(x, "sale") /\ table[x].shift = s}
HasReturns(x) == \E y \in Id : Kind(y, "return") /\ table[y].sale = x
Referenced(x) == \E y \in Id : Kind(y, "return") /\ x \in {table[y].sale, table[y].item.of}

\* Mutation of CurrentOpen: no error when there is no row, and nobody notices.
CurrentOpenOrNil == IF OpenShifts = {} THEN {NoRow} ELSE OpenShifts

\* SELECT ... WHERE status = 'open' ORDER BY opened_at DESC LIMIT 1. The
\* rank of a shift stands for opened_at: it is the number of shifts there were
\* when the row was inserted.
CurrentOpen == {s \in OpenShifts : \A o \in OpenShifts : table[o].rank <= table[s].rank}

-----------------------------------------------------------------------------
InFlight(r) == pc[r] \notin {"idle", "ok", "failed"}

Goto(r, statement) == pc' = [pc EXCEPT ![r] = statement]

\* The handler returns: its variables are gone.
Leave(r, outcome) ==
  /\ Goto(r, outcome)
  /\ product' = [product EXCEPT ![r] = NoRow]
  /\ shift' = [shift EXCEPT ![r] = NoRow]
  /\ sale' = [sale EXCEPT ![r] = NoRow]
  /\ todo' = [todo EXCEPT ![r] = <<>>]
  /\ totals' = [totals EXCEPT ![r] = NoTotals]
  /\ UNCHANGED call

\* Mutation of Refuse: the deferred Rollback forgotten, the locks are kept.
RefuseNoRollback(r) ==
  /\ moved' = [moved EXCEPT ![r] = Still]
  /\ Leave(r, "failed")
  /\ UNCHANGED db

\* An error return: the deferred Rollback undoes what the transaction wrote.
Refuse(r) ==
  /\ Rollback(r)
  /\ moved' = [moved EXCEPT ![r] = Still]
  /\ Leave(r, "failed")

Fail(r) == InFlight(r) /\ Refuse(r)

\* A handler decodes and validates a body and calls the service.
Receive(r) ==
  /\ pc[r] = "idle"
  /\ \E b \in Body :
       /\ call' = [call EXCEPT ![r] = b]
       /\ Goto(r, IF b.op = "delete" THEN "get" ELSE "current")
  /\ UNCHANGED <<db, goods, shift, sale, todo, totals>>

\* shiftRepo.GetCurrentOpen on the pool, and the early returns after it: Create
\* and Close go on with the shift found, Open goes on when there is none.
GetCurrentOpen(r) ==
  /\ pc[r] = "current"
  /\ \/ \E s \in CurrentOpen :
          /\ call[r].op \in {"create", "close"}
          /\ shift' = [shift EXCEPT ![r] = s]
          /\ IF call[r].op = "create"
               THEN todo' = [todo EXCEPT ![r] = call[r].items] /\ Goto(r, "lock")
               ELSE Goto(r, "aggregate") /\ UNCHANGED todo
          /\ UNCHANGED <<db, goods, call, sale, totals>>
     \/ /\ OpenShifts = {}
        /\ call[r].op = "open"
        /\ Goto(r, "open")
        /\ UNCHANGED <<db, goods, locals>>
     \/ /\ (OpenShifts = {}) # (call[r].op = "open")
        /\ Refuse(r)

\* shiftRepo.Create on the pool. Nothing in the schema keeps a second shift
\* from being open.
OpenShift(r) ==
  /\ pc[r] = "open"
  /\ Autocommit(r, r, [kind |-> "shift", status |-> "open",
                       rank |-> Cardinality(Shifts), totals |-> NoTotals])
  /\ Leave(r, "ok")
  /\ UNCHANGED moved

-----------------------------------------------------------------------------
(* The loop over the items, shared by Create and Delete.                   *)

\* Mutation of AfterItems: the loop stops one item early.
AfterItemsEarly(r, rest) ==
  IF Len(rest) > 1 THEN "lock"
  ELSE IF call[r].op = "create" THEN "insert"
  ELSE IF sale[r].owed > 0 THEN "debt" ELSE "remove"

\* Where the service goes when the items still to do are rest.
AfterItems(r, rest) ==
  IF rest # <<>> THEN "lock"
  ELSE IF call[r].op = "create" THEN "insert"
  ELSE IF sale[r].owed > 0 THEN "debt" ELSE "remove"

\* productRepo.GetByIDForUpdate of the next item's product.
LockItem(r) ==
  /\ pc[r] = "lock"
  /\ LET p == Head(todo[r]).product
     IN \/ /\ GetByIDForUpdate(r, p)
           /\ Goto(r, "write")
           /\ UNCHANGED <<moved, locals>>
        \/ /\ ProductNotFound(r, p)
           /\ Refuse(r)

\* Mutation of Enough: the requested quantity compared one too low.
EnoughOffByOne(r, quantity) == product[r].shop + 1 >= quantity

\* The row read under the lock has the quantity in the shop.
Enough(r, quantity) == product[r].shop >= quantity

\* Create takes the item from the shop.
DeductItem(r) ==
  /\ pc[r] = "write"
  /\ call[r].op = "create"
  /\ LET item == Head(todo[r])
     IN \/ /\ Enough(r, item.quantity)
           /\ UpdateStock(r, item.product, product[r].shop - item.quantity, product[r].warehouse)
           /\ todo' = [todo EXCEPT ![r] = Tail(@)]
           /\ Goto(r, AfterItems(r, Tail(todo[r])))
           /\ UNCHANGED <<product, call, shift, sale, totals>>
        \/ /\ ~Enough(r, item.quantity)
           /\ Refuse(r)

\* Delete puts the item back.
RestoreItem(r) ==
  /\ pc[r] = "write"
  /\ call[r].op = "delete"
  /\ LET item == Head(todo[r])
     IN UpdateStock(r, item.product, product[r].shop + item.quantity, product[r].warehouse)
  /\ todo' = [todo EXCEPT ![r] = Tail(@)]
  /\ Goto(r, AfterItems(r, Tail(todo[r])))
  /\ UNCHANGED <<product, call, shift, sale, totals>>

-----------------------------------------------------------------------------
(* The rest of SaleService.Create.                                         *)

\* The discount and the payment split are checked only now, with the stock
\* already deducted in the transaction; then the sale and its items go in, under
\* the shift read before the transaction began.
InsertSale(r) ==
  /\ pc[r] = "insert"
  /\ \/ /\ call[r].exact
        /\ LET new == [kind |-> "sale", shift |-> shift[r], items |-> call[r].items,
                       paid |-> call[r].paid, owed |-> call[r].owed,
                       client |-> call[r].client]
           IN /\ Write(r, [x \in {r} |-> new])
              /\ sale' = [sale EXCEPT ![r] = new]
        /\ Goto(r, IF call[r].owed > 0 THEN "debt" ELSE "commit")
        /\ UNCHANGED <<goods, call, shift, todo, totals>>
     \/ /\ ~call[r].exact
        /\ Refuse(r)

\* Mutation of DebtDelta: Delete forgets the Neg().
DebtDeltaNoNeg(r) == sale[r].owed

\* Create adds what the client owes for the sale, Delete takes it off.
DebtDelta(r) == IF call[r].op = "create" THEN sale[r].owed ELSE -sale[r].owed

\* clientRepo.UpdateDebt: total_debt = total_debt + delta WHERE is_deleted =
\* false. For a deleted client it changes no row, and nobody looks at that.
UpdateDebt(r) ==
  /\ pc[r] = "debt"
  /\ LET c == sale[r].client
     IN \/ /\ Seen(r, c).live
           /\ Write(r, [x \in {c} |-> [Seen(r, c) EXCEPT !.debt = @ + DebtDelta(r)]])
        \/ /\ ~Seen(r, c).live
           /\ UNCHANGED db
  /\ Goto(r, IF call[r].op = "create" THEN "commit" ELSE "remove")
  /\ UNCHANGED <<goods, locals>>

CommitTx(r) ==
  /\ pc[r] = "commit"
  /\ Commit(r)
  /\ Leave(r, "ok")
  /\ UNCHANGED moved

-----------------------------------------------------------------------------
(* The rest of SaleService.Delete: three guards on the pool, then the      *)
(* transaction.                                                            *)

GetSale(r) ==
  /\ pc[r] = "get"
  /\ \/ /\ Kind(call[r].sale, "sale")
        /\ sale' = [sale EXCEPT ![r] = table[call[r].sale]]
        /\ Goto(r, "status")
        /\ UNCHANGED <<db, goods, call, shift, todo, totals>>
     \/ /\ ~Kind(call[r].sale, "sale")
        /\ Refuse(r)

\* Mutation of StatusOpen: the status is not compared.
StatusOpenAny(s) == Kind(s, "shift")

\* shift.Status == "open", of the shift the sale belongs to.
StatusOpen(s) == s \in OpenShifts

CheckStatus(r) ==
  /\ pc[r] = "status"
  /\ LET s == sale[r].shift
     IN \/ /\ StatusOpen(s)
           /\ shift' = [shift EXCEPT ![r] = s]
           /\ Goto(r, "returns")
           /\ UNCHANGED <<db, goods, call, sale, todo, totals>>
        \/ /\ ~StatusOpen(s)
           /\ Refuse(r)

CheckReturns(r) ==
  /\ pc[r] = "returns"
  /\ \/ /\ ~HasReturns(call[r].sale)
        /\ Goto(r, "items")
        /\ UNCHANGED <<db, goods, locals>>
     \/ /\ HasReturns(call[r].sale)
        /\ Refuse(r)

\* saleRepo.GetSaleItemsBySaleID in the transaction, without a lock: no items
\* when another request has deleted the sale since.
ReadItems(r) ==
  /\ pc[r] = "items"
  /\ LET items == IF Kind(call[r].sale, "sale") THEN table[call[r].sale].items ELSE <<>>
     IN /\ todo' = [todo EXCEPT ![r] = items]
        /\ Goto(r, AfterItems(r, items))
  /\ UNCHANGED <<db, goods, call, shift, sale, totals>>

\* DELETE FROM sale_items, then FROM sales: the foreign keys of sale_returns
\* refuse it when a return refers to either; a sale that is gone is no error.
RemoveSale(r) ==
  /\ pc[r] = "remove"
  /\ LET x == call[r].sale
     IN \/ /\ Referenced(x)
           /\ Refuse(r)
        \/ /\ ~Referenced(x)
           /\ IF Kind(x, "sale") THEN Write(r, [y \in {x} |-> NoRow]) ELSE UNCHANGED db
           /\ Goto(r, "commit")
           /\ UNCHANGED <<goods, locals>>

-----------------------------------------------------------------------------
(* The rest of ShiftService.Close.                                         *)

AggregateSales(r) ==
  /\ pc[r] = "aggregate"
  /\ LET S == SalesOf(shift[r])
     IN totals' = [totals EXCEPT ![r] =
                     [sales |-> S, paid |-> UNION {table[x].paid : x \in S}]]
  /\ Goto(r, "close")
  /\ UNCHANGED <<db, goods, call, shift, sale, todo>>

\* Mutation of StillOpen: the UPDATE has no condition on the status.
StillOpenAny(s) == Kind(s, "shift")

\* The condition AND status = 'open' of the UPDATE, on the row once it is free.
StillOpen(s) == s \in OpenShifts

\* UPDATE shifts ... WHERE id = $ AND status = 'open' RETURNING: no row, and an
\* error, when another request has closed the shift. Then the inserts: an entry
\* for every channel whose total is positive.
CloseShift(r) ==
  /\ pc[r] = "close"
  /\ LET s == shift[r]
         closed == [table[s] EXCEPT !.status = "closed", !.totals = totals[r]]
         booking == [kind |-> "booking", shift |-> s, sales |-> totals[r].sales,
                     entries |-> {e \in Entry : e.of \in totals[r].paid}]
     IN \/ /\ StillOpen(s)
           /\ Write(r, [x \in {s, r} |-> IF x = s THEN closed ELSE booking])
           /\ Goto(r, "commit")
           /\ UNCHANGED <<goods, locals>>
        \/ /\ Free(r, s)
           /\ ~StillOpen(s)
           /\ Refuse(r)

-----------------------------------------------------------------------------
Init ==
  /\ table = InitRow
  /\ draft = [r \in Req |-> NoDraft]
  /\ product = [r \in Req |-> NoRow]
  /\ moved = [r \in Req |-> Still]
  /\ pc = [r \in Req |-> "idle"]
  /\ call = [r \in Req |-> NoCall]
  /\ shift = [r \in Req |-> NoRow]
  /\ sale = [r \in Req |-> NoRow]
  /\ todo = [r \in Req |-> <<>>]
  /\ totals = [r \in Req |-> NoTotals]

\* The next statement of request r.
Step(r) ==
  \/ GetCurrentOpen(r) \/ OpenShift(r)
  \/ LockItem(r) \/ DeductItem(r) \/ RestoreItem(r)
  \/ InsertSale(r) \/ UpdateDebt(r) \/ CommitTx(r)
  \/ GetSale(r) \/ CheckStatus(r) \/ CheckReturns(r) \/ ReadItems(r) \/ RemoveSale(r)
  \/ AggregateSales(r) \/ CloseShift(r)

Next == \E r \in Req : Receive(r) \/ Step(r) \/ Fail(r)

Spec == Init /\ [][Next]_vars

-----------------------------------------------------------------------------
(* Waiting. When transactions wait for each other's row locks in a circle, *)
(* PostgreSQL fails the statement of one of them (Server).                 *)

\* The rows whose locks the next statement of r needs.
Wants(r) ==
  CASE pc[r] = "lock"   -> {Head(todo[r]).product}
    [] pc[r] = "debt"   -> {sale[r].client}
    [] pc[r] = "remove" -> {call[r].sale}
    [] pc[r] = "close"  -> {shift[r]}
    [] OTHER            -> {}

WaitsFor(r, q) == r # q /\ Wants(r) \cap Locked(q) # {}

Deadlocked(r) ==
  \E S \in SUBSET Req :
    /\ r \in S
    /\ \A q \in S : (\E w \in S : WaitsFor(q, w)) /\ (\E w \in S : WaitsFor(w, q))

-----------------------------------------------------------------------------
(* Properties.                                                             *)

Statement ==
  {"idle", "current", "open", "lock", "write", "insert", "debt", "commit", "get", "status",
   "returns", "items", "remove", "aggregate", "close", "ok", "failed"}

RowsOK ==
  /\ Rows(table) /\ DOMAIN table = Row
  /\ draft = [r \in Req |-> draft[r]]
  /\ \A r \in Req : Rows(draft[r])

(* Every row, committed or not, and every local of a handler has the type  *)
(* the schema and the Go declarations give it.                             *)
TypeOK ==
  /\ RowsOK
  /\ product \in [Req -> ProductRow \cup {NoRow}]
  /\ moved \in [Req -> [Product -> Movement]]
  /\ pc \in [Req -> Statement]
  /\ call \in [Req -> Body \cup {NoCall}]
  /\ shift \in [Req -> Id \cup {NoRow}]
  /\ sale \in [Req -> SaleRow \cup {NoRow}]
  /\ todo \in [Req -> Seq(Item)]
  /\ totals \in [Req -> Totals]

(* No oversell: the check under the row lock is enough. Whatever requests  *)
(* race for the last pieces of a product, neither a committed quantity nor *)
(* one a transaction has written is ever below zero, so the CHECK          *)
(* constraints of the schema never fire.                                   *)
NoOversell ==
  /\ \A p \in Product : table[p].shop >= 0 /\ table[p].warehouse >= 0
  /\ \A r \in Req : \A p \in Locked(r) \cap Product :
       draft[r][p].shop >= 0 /\ draft[r][p].warehouse >= 0

SaleIds(t) == {x \in Id : KindIn(t, x, "sale")}

QtyOf(items, p) ==
  SumFunction([i \in DOMAIN items |-> IF items[i].product = p THEN items[i].quantity ELSE 0])

\* The pieces of p on the sales of database t, and what client c owes for them.
SoldIn(t, p) ==
  SumFunction([x \in Id |-> IF x \in SaleIds(t) THEN QtyOf(t[x].items, p) ELSE 0])
OwedIn(t, c) ==
  SumFunction([x \in Id |-> IF x \in SaleIds(t) /\ t[x].client = c THEN t[x].owed ELSE 0])

\* No sale has been deleted by two requests that both succeeded.
DeletedOnce ==
  \A q, r \in Req : (/\ pc[q] = "ok" /\ pc[r] = "ok"
                     /\ call[q].op = "delete" /\ call[q] = call[r]) => q = r

(* Goods are neither made nor lost: what is in the shop and what is on the *)
(* existing sales adds up to what it was at the start. A sale that fails   *)
(* half-way takes nothing, one that commits takes all its items, and a     *)
(* deletion gives them back.                                               *)
GoodsAccounted ==
  \A p \in Product :
    table[p].shop + SoldIn(table, p) = InitRow[p].shop + SoldIn(InitRow, p)

(* GoodsAccounted as long as no two requests have both deleted the same    *)
(* sale, which sale.go does not prevent (see the run double_delete).       *)
StockReconciles == DeletedOnce => GoodsAccounted

(* A client who is not deleted owes what the existing sales to him left    *)
(* unpaid, on top of what he owed before: total_debt, maintained by deltas *)
(* in the same transactions, never drifts from the sales, as long as no    *)
(* two requests have both deleted the same sale.                           *)
DebtReconciles ==
  DeletedOnce =>
    \A c \in Client : table[c].live =>
      table[c].debt - OwedIn(table, c) = InitRow[c].debt - OwedIn(InitRow, c)

(* The money of a shift reaches the safe exactly once: an open shift has   *)
(* no booking, a closed one has one, of the sales its totals are the sums  *)
(* of, and no sale is booked twice, however many requests close at once.   *)
BookedOnce == BookedIn(table)

\* Shift s is closed, and no request that had found it open is still running.
Sealed(s) ==
  /\ Kind(s, "shift") /\ table[s].status = "closed"
  /\ \A r \in Req : InFlight(r) => shift[r] # s

(* A closed shift is history: its row never changes again, and once the    *)
(* requests that had found it open have ended, no request gets past its    *)
(* guards to it, so that no sale enters or leaves it for ever.             *)
ClosedShiftFrozen ==
  [][\A s \in Id :
       /\ Kind(s, "shift") /\ table[s].status = "closed" => table'[s] = table[s]
       /\ Sealed(s) => Sealed(s)' /\ SalesOf(s)' = SalesOf(s)]_vars

(* Sales moves goods as Stock promises: each request's deductions or       *)
(* restitutions take effect together, at its commit, as deltas that no     *)
(* concurrent request overwrites.                                          *)
Goods ==
  INSTANCE Stock WITH
    stock <- [p \in Product |-> [shop |-> table[p].shop, warehouse |-> table[p].warehouse]],
    moved <- [r \in Req |-> IF pc[r] = "ok" THEN moved[r] ELSE Still]

MovesAtomically == Goods!Spec

-----------------------------------------------------------------------------
(* What the comments of the code say and the code does not do.             *)

(* "Check no open shift exists." (shift.go): at most one shift is open.    *)
OneOpenShift == Cardinality(OpenShifts) <= 1

(* The totals of a closed shift are the sums of all sales in the shift.    *)
TotalsCoverShift ==
  \A s \in Id : (Kind(s, "shift") /\ table[s].status = "closed") =>
    table[s].totals.sales = SalesOf(s)
=============================================================================
