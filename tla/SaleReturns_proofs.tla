------------------------- MODULE SaleReturns_proofs -------------------------
(***************************************************************************)
(* Safety of SaleReturns for every set of requests, bodies, prices and     *)
(* discounts: types, no oversell, the implementation of Stock, that no     *)
(* return outlives its sale or its item, that goods and debts reconcile    *)
(* with the sales less their returns, and that the returns of a sale       *)
(* forgive no more than was owed. The requests that sell, delete, open and *)
(* close do what Sales_proofs says of them; only what returns do is added  *)
(* here.                                                                   *)
(***************************************************************************)
EXTENDS SaleReturns, Sales_proofs, SequenceTheorems

(***************************************************************************)
(* The inductive invariant. A request that returns goods is, at each of    *)
(* its statements, where ReturnControl says; any other is where Control of *)
(* Sales_proofs says.                                                      *)
(***************************************************************************)
Returning(r) == call[r].op = "return"

ReturnControl(r) ==
  /\ call[r] \in ReturnBody
  /\ pc[r] \in {"sale", "item", "returned", "lock", "write", "refund", "return", "ok", "failed"}
  /\ pc[r] \in {"sale", "item", "returned"} => draft[r] = NoDraft
  /\ pc[r] \in {"item", "returned", "lock", "write", "refund"} => sale[r] \in SaleRow
  /\ pc[r] = "returned" \/ (pc[r] = "refund" /\ call[r].kind = "full") => todo[r] # <<>>
  /\ Holding(r)

Conduct(r) ==
  IF Returning(r)
    THEN ReturnControl(r)
    ELSE Control(r) /\ pc[r] \in Statement /\ call[r] \in Body \cup {NoCall}

ReturnsInv ==
  /\ Typed
  /\ Exclusive
  /\ NoOversell
  /\ \A r \in Req : Conduct(r) /\ Quiet(r) /\ Ledger(r)

-----------------------------------------------------------------------------
(* Amounts.                                                                *)

LEMMA TimesType ==
  ASSUME NEW a \in Nat, NEW b \in Nat
  PROVE  a * b \in Nat
OBVIOUS

(* Rounding makes an integer, and a natural number of one that is not      *)
(* negative.                                                               *)
LEMMA RoundedType ==
  ASSUME NEW n \in Int, NEW d \in Nat \ {0}
  PROVE  Rounded(n, d) \in Int /\ (n >= 0 => Rounded(n, d) \in Nat)
<1>1. 2 * d \in Nat \ {0} /\ (2 * n) + d \in Int /\ (2 * (-n)) + d \in Int
  OBVIOUS
<1>2. /\ ((2 * n) + d) \div (2 * d) \in Int /\ ((2 * (-n)) + d) \div (2 * d) \in Int
      /\ n >= 0 => ((2 * n) + d) \div (2 * d) \in Nat
  BY <1>1, QuotientType
<1> QED
  BY <1>2 DEF Rounded

(* Rounding by the remainder: up from one half on.                         *)
LEMMA HalfIs ==
  ASSUME NEW n \in Int, NEW T \in Nat \ {0}, NEW q \in Int, NEW s \in 0 .. T - 1, n = T * q + s
  PROVE  (2 * n + T) \div (2 * T) = IF 2 * s < T THEN q ELSE q + 1
<1>1. PICK a, b : a = 2 * n + T /\ b = 2 * T
  OBVIOUS
<1>2. a \in Int /\ b \in Nat \ {0}
  BY <1>1
<1>3. b * q = 2 * (T * q) /\ b * (q + 1) = 2 * (T * q) + b /\ T * q \in Int
  BY <1>1
<1>4. CASE 2 * s < T
  <2>1. 2 * s + T \in 0 .. b - 1 /\ a = b * q + (2 * s + T)
    BY <1>1, <1>3, <1>4
  <2>2. a \div b = q
    BY <1>2, <2>1, QuotientIs
  <2> QED
    BY <1>1, <1>4, <2>2
<1>5. CASE ~(2 * s < T)
  <2>1. 2 * s - T \in 0 .. b - 1 /\ a = b * (q + 1) + (2 * s - T) /\ q + 1 \in Int
    BY <1>1, <1>3, <1>5
  <2>2. a \div b = q + 1
    BY <1>2, <2>1, QuotientIs
  <2> QED
    BY <1>1, <1>5, <2>2
<1> QED
  BY <1>4, <1>5

(* The debt that is left and the part of it that the return records add up *)
(* to the debt there was, or to one more when the refund is halfway.       *)
LEMMA RefundRounds ==
  ASSUME NEW d \in Int, NEW refund \in Nat, NEW T \in Nat \ {0}
  PROVE  /\ TakenOff(d, refund, T) \in Int /\ Rounded(refund, T) \in Nat
         /\ TakenOff(d, refund, T) + Rounded(refund, T) - d \in {0, 1}
         /\ TakenOff(d, refund, T) + Rounded(refund, T) - d = 1 => (2 * refund) % (2 * T) = T
<1> DEFINE half == (2 * refund) % (2 * T) = T
<1> SUFFICES /\ TakenOff(d, refund, T) \in Int
             /\ TakenOff(d, refund, T) + Rounded(refund, T) - d \in {0, 1}
             /\ TakenOff(d, refund, T) + Rounded(refund, T) - d = 1 => half
  <2>1. refund \in Int /\ refund >= 0
    OBVIOUS
  <2> QED
    BY <2>1, RoundedType
<1>1. PICK q \in Int, s \in 0 .. T - 1 : refund = T * q + s
  <2>1. refund \in Int
    OBVIOUS
  <2>2. /\ refund \div T \in Int /\ refund % T \in 0 .. T - 1
        /\ refund = T * (refund \div T) + (refund % T)
    BY <2>1, Quotient
  <2> QED
    BY <2>2
<1>2. PICK n \in Int : n = d * T - refund
  OBVIOUS
<1>3. T * q \in Int /\ T * (d - q) = T * d - T * q /\ T * d = d * T /\ T * d \in Int
  OBVIOUS
<1>4. Rounded(refund, T) = IF 2 * s < T THEN q ELSE q + 1
  <2>1. refund \in Int /\ refund >= 0
    OBVIOUS
  <2>2. (2 * refund + T) \div (2 * T) = IF 2 * s < T THEN q ELSE q + 1
    BY <1>1, <2>1, HalfIs
  <2> QED
    BY <2>1, <2>2 DEF Rounded
<1> HIDE DEF half
<1>5. CASE n >= 0
  <2>1. Rounded(n, T) = (2 * n + T) \div (2 * T)
    BY <1>5 DEF Rounded
  <2>2. CASE s = 0
    <3>1. n = T * (d - q) + 0 /\ d - q \in Int /\ 0 \in 0 .. T - 1 /\ 2 * 0 < T
      BY <1>1, <1>2, <1>3, <2>2
    <3>2. Rounded(n, T) = d - q
      BY <2>1, <3>1, HalfIs
    <3> QED
      BY <1>1, <1>2, <1>4, <2>2, <3>2 DEF TakenOff
  <2>3. CASE s # 0
    <3>1. T * (d - q - 1) = T * d - T * q - T
      OBVIOUS
    <3>2. n = T * (d - q - 1) + (T - s) /\ d - q - 1 \in Int /\ T - s \in 0 .. T - 1
      BY <1>1, <1>2, <1>3, <2>3, <3>1
    <3>3. Rounded(n, T) = IF 2 * (T - s) < T THEN d - q - 1 ELSE d - q
      <4>1. (2 * n + T) \div (2 * T) = IF 2 * (T - s) < T THEN d - q - 1 ELSE (d - q - 1) + 1
        BY <3>2, HalfIs
      <4> QED
        BY <2>1, <4>1
    <3>4. 2 * s = T => half
      <4> SUFFICES ASSUME 2 * s = T PROVE half
        OBVIOUS
      <4>1. PICK a, b : a = 2 * refund /\ b = 2 * T
        OBVIOUS
      <4>2. b * q = 2 * (T * q)
        BY <4>1
      <4>3. a \in Int /\ b \in Nat \ {0} /\ T \in 0 .. b - 1 /\ a = b * q + T
        BY <1>1, <1>3, <4>1, <4>2
      <4>4. a % b = T
        BY <4>3, QuotientIs
      <4> QED
        BY <4>1, <4>4 DEF half
    <3>5. CASE 2 * s < T
      BY <1>2, <1>4, <3>3, <3>5 DEF TakenOff
    <3>6. CASE ~(2 * s < T)
      <4>1. Rounded(refund, T) = q + 1
        BY <1>4, <3>6
      <4>2. TakenOff(d, refund, T) = Rounded(n, T)
        BY <1>2 DEF TakenOff
      <4>3. CASE 2 * s = T
        BY <1>4, <3>3, <3>4, <4>1, <4>2, <4>3
      <4>4. CASE 2 * s # T
        <5>1. 2 * (T - s) < T
          BY <3>6, <4>4
        <5> QED
          BY <1>4, <3>3, <4>1, <4>2, <5>1
      <4> QED
        BY <4>3, <4>4
    <3> QED
      BY <3>5, <3>6
  <2> QED
    BY <2>2, <2>3
<1>6. CASE n < 0
  <2>1. Rounded(n, T) = -((2 * (-n) + T) \div (2 * T))
    BY <1>6 DEF Rounded
  <2>2. T * (q - d) = T * q - T * d
    OBVIOUS
  <2>3. -n \in Int /\ -n = T * (q - d) + s /\ q - d \in Int
    BY <1>1, <1>2, <1>3, <2>2
  <2>4. (2 * (-n) + T) \div (2 * T) = IF 2 * s < T THEN q - d ELSE (q - d) + 1
    BY <2>3, HalfIs
  <2> QED
    BY <1>1, <1>2, <1>4, <2>1, <2>4 DEF TakenOff
<1> QED
  BY <1>5, <1>6

LEMMA SubtotalType ==
  ASSUME NEW item \in Item
  PROVE  Subtotal(item) \in Nat
BY PriceAssumption, TimesType DEF Subtotal, Item

LEMMA TotalType ==
  ASSUME NEW x \in Id, NEW row \in SaleRow
  PROVE  TotalAmount(x, row) \in Int
<1>1. PICK items \in Seq(Item) : items = row.items
  BY DEF SaleRow
<1> DEFINE f == [i \in DOMAIN items |-> Subtotal(items[i])]
<1>2. IsFiniteSet(DOMAIN items) /\ \A i \in DOMAIN items : items[i] \in Item
  <2>1. DOMAIN items = 1 .. Len(items) /\ Len(items) \in Nat
    OBVIOUS
  <2> QED
    BY <2>1, FS_Interval
<1>3. f \in [DOMAIN items -> Int]
  <2>1. \A i \in DOMAIN items : Subtotal(items[i]) \in Int
    BY <1>2, SubtotalType
  <2> QED
    BY <2>1
<1>5. TotalAmount(x, row) = SumFunction(f) - Discount[x]
  BY <1>1 DEF TotalAmount, ValueOf
<1> HIDE DEF f
<1>4. SumFunction(f) \in Int
  BY <1>2, <1>3, FunctionSumInt
<1> QED
  BY <1>4, <1>5, DiscountAssumption

-----------------------------------------------------------------------------
(* Bodies and rows.                                                        *)

LEMMA RequestType ==
  ASSUME NEW b \in ReturnBody
  PROVE  /\ b.op = "return" /\ b.sale \in Id /\ b.item \in ItemId /\ b.item.of \in Id
         /\ b.quantity \in Nat \ {0} /\ b.kind \in {"full", "exchange", "exchange_diff"}
         /\ b.new \in Product \cup {NoRow}
         /\ IF b.kind = "full" THEN b.new = NoRow ELSE b.new \in Product
<1>1. b \in ReturnRequest
  BY ReturnBodyAssumption
<1>2. b.item \in ItemId => b.item.of \in Id
  BY DEF ItemId
<1> QED
  BY <1>1, <1>2 DEF ReturnRequest

LEMMA MovesType ==
  ASSUME Typed, NEW r \in Req, ReturnControl(r), todo[r] # <<>>
  PROVE  Moves(r) \in Seq(Item) /\ Moves(r) # <<>>
<1> DEFINE back == [product |-> Head(todo[r]).product, quantity |-> call[r].quantity]
<1>1. call[r] \in ReturnBody /\ Head(todo[r]).product \in Product
  BY TodoType DEF ReturnControl
<1>2. back \in Item /\ (call[r].kind # "full" => [back EXCEPT !.product = call[r].new] \in Item)
  BY <1>1, RequestType DEF Item
<1> QED
  BY <1>2 DEF Moves

SafeEntry == [type : {"income", "expense"}, balance : {"cash", "terminal"}]

LEMMA ReturnOfType ==
  ASSUME NEW r \in Req, ReturnControl(r), NEW safe \in SUBSET SafeEntry, NEW debt \in Nat
  PROVE  /\ ReturnOf(r, safe, debt) \in ReturnRow
         /\ ReturnOf(r, safe, debt).sale = call[r].sale
         /\ ReturnOf(r, safe, debt).item = call[r].item
<1>1. call[r] \in ReturnBody
  BY DEF ReturnControl
<1> QED
  BY <1>1, RequestType DEF ReturnOf, ReturnRow, SafeEntry

LEMMA IdVersions ==
  /\ ReturnRow \subseteq IdRow /\ NoRow \in IdRow
  /\ \A r \in Req : /\ r \in Row /\ r \in Id /\ Version(r) = IdRow
                   /\ r \notin Client /\ r \notin Product
BY VersionOf, NamesAssumption DEF IdRow, PaperRow, Id

-----------------------------------------------------------------------------
(* What the statements of a return do.                                     *)

(* The row that Refund inserts, and the client's row it may update.        *)
LEMMA RefundEffect ==
  ASSUME Typed, NEW r \in Req, ReturnControl(r), Refund(r), ~Refuse(r)
  PROVE  /\ pc[r] = "refund" /\ pc' = [pc EXCEPT ![r] = "return"] /\ UNCHANGED <<goods, locals>>
         /\ \E new :
              /\ Write(r, new) /\ Rows(new)
              /\ r \in DOMAIN new /\ DOMAIN new \subseteq {r} \cup Client
              /\ new[r] \in ReturnRow
              /\ new[r].sale = call[r].sale /\ new[r].item = call[r].item
<1>1. /\ pc[r] = "refund" /\ pc' = [pc EXCEPT ![r] = "return"] /\ UNCHANGED <<goods, locals>>
  BY DEF Refund, Goto
<1> DEFINE Good(new) ==
             /\ Write(r, new) /\ Rows(new)
             /\ r \in DOMAIN new /\ DOMAIN new \subseteq {r} \cup Client
             /\ new[r] \in ReturnRow
             /\ new[r].sale = call[r].sale /\ new[r].item = call[r].item
<1>2. ASSUME NEW safe \in SUBSET SafeEntry, NEW debt \in Nat,
             Write(r, [x \in {r} |-> ReturnOf(r, safe, debt)])
      PROVE  \E new : Good(new)
  <2>1. PICK new : new = [x \in {r} |-> ReturnOf(r, safe, debt)]
    OBVIOUS
  <2>2. DOMAIN new = {r} /\ new[r] = ReturnOf(r, safe, debt)
    BY <2>1
  <2>3. Rows(new)
    BY <2>1, <2>2, ReturnOfType, IdVersions DEF Rows
  <2> QED
    BY <1>2, <2>1, <2>2, <2>3, ReturnOfType
<1>3. CASE call[r].kind = "full"
  <2> DEFINE c == sale[r].client
             total == TotalAmount(call[r].sale, sale[r])
             refund == DebtRefund(sale[r].owed, Head(todo[r]), total)
             safe == Expense(PaidBack(r))
  <2>1. total > 0 /\ RefundDebt(r, safe)
    BY <1>3 DEF Refund
  <2>2. sale[r] \in SaleRow /\ call[r].sale \in Id /\ todo[r] # <<>> /\ r \in Id
    BY <1>1, <1>3, RequestType, IdVersions DEF ReturnControl
  <2>3. total \in Nat \ {0}
    BY <2>1, <2>2, TotalType
  <2>4. c \in Client /\ sale[r].owed \in Nat
    BY <2>2 DEF SaleRow
  <2>5. refund \in Nat
    BY <2>2, <2>4, TodoType, SubtotalType, TimesType DEF DebtRefund
  <2>6. safe \in SUBSET SafeEntry
    BY DEF Expense, PaidBack, SafeEntry
  <2> HIDE DEF total, refund, safe
  <2>7. PICK debt \in Nat : debt = Rounded(refund, total)
    BY <2>3, <2>5, RoundedType
  <2>8. CASE refund > 0 /\ Seen(r, c).live
    <3>1. PICK row, client : /\ row = ReturnOf(r, safe, debt)
                            /\ client = [Seen(r, c) EXCEPT !.debt = TakenOff(@, refund, total)]
      OBVIOUS
    <3>2. PICK new : new = [x \in {r, c} |-> IF x = r THEN row ELSE client]
      OBVIOUS
    <3>3. Write(r, new)
      BY <2>1, <2>7, <2>8, <3>1, <3>2 DEF RefundDebt, refund, total
    <3>4. Seen(r, c) \in ClientRow
      BY <2>4, SeenType, VersionOf DEF Typed
    <3>5. TakenOff(Seen(r, c).debt, refund, total) \in Int
      <4>1. Seen(r, c).debt \in Int
        BY <3>4 DEF ClientRow
      <4>2. Seen(r, c).debt * total \in Int
        BY <2>3, <4>1
      <4>3. (Seen(r, c).debt * total) - refund \in Int
        BY <2>5, <4>2
      <4> QED
        BY <2>3, <4>3, RoundedType DEF TakenOff
    <3>6. client \in ClientRow
      BY <3>1, <3>4, <3>5 DEF ClientRow
    <3>7. /\ row \in ReturnRow /\ row.sale = call[r].sale /\ row.item = call[r].item
      BY <2>6, <3>1, ReturnOfType
    <3>8. DOMAIN new = {r, c} /\ new[r] = row /\ new[c] = client /\ c # r
      BY <2>4, <3>2, IdVersions
    <3>9. Rows(new)
      BY <2>4, <3>2, <3>6, <3>7, <3>8, IdVersions, VersionOf DEF Rows
    <3> QED
      BY <1>1, <2>4, <3>3, <3>7, <3>8, <3>9
  <2>9. CASE ~(refund > 0 /\ Seen(r, c).live)
    <3>1. Write(r, [x \in {r} |-> ReturnOf(r, safe, debt)])
      BY <2>1, <2>7, <2>9 DEF RefundDebt, refund, total
    <3> QED
      BY <1>1, <1>2, <2>6, <3>1
  <2> QED
    BY <2>8, <2>9
<1>4. CASE call[r].kind # "full"
  <2>1. PICK safe \in SUBSET SafeEntry : Write(r, [x \in {r} |-> ReturnOf(r, safe, 0)])
    BY <1>4 DEF Refund, Expense, SafeEntry
  <2> QED
    BY <1>1, <1>2, <2>1
<1> QED
  BY <1>3, <1>4

(* Whatever a request does next, it is one of these.                       *)
Act(r) == Receive(r) \/ ReceiveReturn(r) \/ Step(r) \/ ReturnStep(r) \/ Fail(r)

LEMMA ReturnActs ==
  ASSUME NEW r \in Req, ReturnControl(r), Act(r)
  PROVE  LockItem(r) \/ ReturnStep(r) \/ Fail(r)
<1>1. call[r].op = "return"
  BY RequestType DEF ReturnControl
<1> QED
  BY <1>1 DEF ReturnControl, Act, Receive, ReceiveReturn, Step, GetCurrentOpen, OpenShift,
         DeductItem, RestoreItem, InsertSale, UpdateDebt, CommitTx, GetSale, CheckStatus,
         CheckReturns, ReadItems, RemoveSale, AggregateSales, CloseShift

LEMMA SaleActs ==
  ASSUME NEW r \in Req, ~Returning(r), pc[r] \in Statement, Act(r)
  PROVE  Receive(r) \/ Step(r) \/ Fail(r) \/ ReceiveReturn(r)
BY DEF Returning, Statement, Act, ReturnStep, GetReturnedSale, GetSaleItem, CheckReturned,
       GiveBack, TakeNew, Refund, InsertReturn

(* Two statements update a product, by absolutes.                          *)
Updates(r) == (GiveBack(r) \/ TakeNew(r)) /\ ~Refuse(r)

LEMMA UpdatesEffect ==
  ASSUME Typed, NoOversell, NEW r \in Req, ReturnControl(r), Updates(r)
  PROVE  /\ pc[r] = "write" /\ todo[r] # <<>> /\ product[r] \in ProductRow
         /\ Head(todo[r]).product \in Product
         /\ \E n \in Nat : UpdateStock(r, Head(todo[r]).product, n, product[r].warehouse)
         /\ pc' = [pc EXCEPT ![r] = "refund"] \/ pc' = [pc EXCEPT ![r] = "lock"]
         /\ todo' = todo \/ todo' = [todo EXCEPT ![r] = Tail(@)]
         /\ pc'[r] = "refund" /\ call[r].kind = "full" => todo' = todo
         /\ pc'[r] = "lock" => todo'[r] # <<>>
         /\ UNCHANGED <<product, call, shift, sale, totals>>
<1>1. pc[r] = "write"
  BY DEF Updates, GiveBack, TakeNew
<1>2. /\ Head(todo[r]).product \in Product /\ Head(todo[r]).quantity \in Nat
      /\ product[r].shop \in Nat /\ product[r] \in ProductRow /\ todo[r] # <<>>
  BY <1>1, ReadFilled, ProductType DEF ReturnControl
<1>3. \E n \in Nat : UpdateStock(r, Head(todo[r]).product, n, product[r].warehouse)
  <2>1. CASE GiveBack(r)
    <3>1. product[r].shop + Head(todo[r]).quantity \in Nat
      BY <1>2
    <3> QED
      BY <2>1, <3>1 DEF GiveBack
  <2>2. CASE TakeNew(r)
    <3>1. Enough(r, Head(todo[r]).quantity)
          => product[r].shop - Head(todo[r]).quantity \in Nat
      BY <1>2 DEF Enough
    <3> QED
      BY <2>2, <3>1 DEF TakeNew, Updates
  <2> QED
    BY <2>1, <2>2 DEF Updates
<1>4. call[r].kind # "full" /\ GiveBack(r) => Len(todo[r]) = 2
  BY DEF GiveBack, ComesBack
<1>5. todo[r] \in Seq(Item)
  BY DEF Typed
<1>6. Len(todo[r]) = 2 => Tail(todo[r]) # <<>>
  <2>1. PICK rest \in Seq(Item) : rest = todo[r]
    BY <1>5
  <2>2. Len(rest) = 2 => Len(Tail(rest)) = 1
    OBVIOUS
  <2>3. Len(<<>>) = 0
    BY EmptySeq, Zenon
  <2>4. ASSUME Len(rest) = 2, Tail(rest) = <<>> PROVE FALSE
    <3>1. Len(Tail(rest)) = 0
      BY <2>3, <2>4, Zenon
    <3> QED
      BY <2>2, <2>4, <3>1
  <2> QED
    BY <2>1, <2>4
<1>7. GiveBack(r) /\ pc'[r] = "lock" => todo'[r] = Tail(todo[r]) /\ call[r].kind # "full"
  BY DEF GiveBack, Goto, Typed
<1>8. TakeNew(r) => pc'[r] = "refund" /\ call[r].kind # "full"
  BY DEF TakeNew, Updates, Goto, Typed, ComesBack
<1> QED
  BY <1>1, <1>2, <1>3, <1>4, <1>6, <1>7, <1>8 DEF Updates, GiveBack, TakeNew, Goto, Typed

(* What a return reads on the pool changes only its locals.                *)
Reads(r) == (GetReturnedSale(r) \/ GetSaleItem(r) \/ CheckReturned(r)) /\ ~Refuse(r)

Commits(r) == InsertReturn(r) /\ ~Refuse(r)

LEMMA ReturnCases ==
  ASSUME NEW r \in Req, LockItem(r) \/ ReturnStep(r) \/ Fail(r)
  PROVE  \/ Refuse(r) \/ LockItem(r) \/ Reads(r) \/ Updates(r) \/ Commits(r)
         \/ Refund(r) /\ ~Refuse(r)
BY DEF ReturnStep, Reads, Updates, Commits, Fail

LEMMA ReadsEffect ==
  ASSUME Typed, NEW r \in Req, ReturnControl(r), Reads(r)
  PROVE  /\ UNCHANGED <<db, goods, call, shift, totals>>
         /\ pc[r] \in {"sale", "item", "returned"}
         /\ pc' \in {[pc EXCEPT ![r] = "item"], [pc EXCEPT ![r] = "returned"],
                     [pc EXCEPT ![r] = "lock"]}
         /\ sale' \in [Req -> SaleRow \cup {NoRow}] /\ todo' \in [Req -> Seq(Item)]
         /\ \A q \in Req \ {r} : sale'[q] = sale[q] /\ todo'[q] = todo[q]
         /\ sale'[r] \in SaleRow
         /\ pc'[r] # "item" => todo'[r] # <<>>
         /\ pc'[r] = "item" <=> pc[r] = "sale"
<1>1. call[r] \in ReturnBody /\ pc \in [Req -> {pc[q] : q \in Req}]
  BY DEF ReturnControl, Typed
<1>2. call[r].sale \in Id /\ call[r].item.of \in Id
  BY <1>1, RequestType
<1>3. CASE GetReturnedSale(r)
  <2>1. table[call[r].sale] \in SaleRow
    BY <1>2, <1>3, KindType DEF GetReturnedSale, Typed, Reads
  <2> QED
    BY <1>3, <2>1 DEF GetReturnedSale, Typed, Reads, Goto
<1>4. CASE GetSaleItem(r)
  <2> DEFINE i == call[r].item
  <2>1. ItemExists(i) /\ pc[r] = "item"
    BY <1>4 DEF GetSaleItem, Reads
  <2>2. PICK items \in Seq(Item) : items = table[i.of].items
    BY <1>2, <2>1, KindType DEF Typed, ItemExists, ItemExistsIn, Kind, SaleRow
  <2>3. items[i.index] \in Item
    BY <2>1, <2>2 DEF ItemExists, ItemExistsIn
  <2>4. <<items[i.index]>> \in Seq(Item) /\ <<items[i.index]>> # <<>>
    BY <2>3
  <2>5. /\ todo' = [todo EXCEPT ![r] = <<items[i.index]>>]
        /\ pc' = [pc EXCEPT ![r] = "returned"]
        /\ UNCHANGED <<db, goods, call, shift, sale, totals>>
    BY <1>4, <2>2 DEF GetSaleItem, Reads, Goto
  <2>6. sale[r] \in SaleRow
    BY <2>1 DEF ReturnControl
  <2> QED
    BY <2>1, <2>4, <2>5, <2>6 DEF Typed
<1>5. CASE CheckReturned(r)
  <2>1. pc[r] = "returned" /\ todo[r] # <<>> /\ sale[r] \in SaleRow
    BY <1>5 DEF CheckReturned, ReturnControl
  <2>2. Moves(r) \in Seq(Item) /\ Moves(r) # <<>>
    BY <2>1, MovesType
  <2>3. /\ todo' = [todo EXCEPT ![r] = Moves(r)]
        /\ pc' = [pc EXCEPT ![r] = "lock"]
        /\ UNCHANGED <<db, goods, call, shift, sale, totals>>
    BY <1>5 DEF CheckReturned, Reads, Goto
  <2> QED
    BY <2>1, <2>2, <2>3 DEF Typed
<1> QED
  BY <1>3, <1>4, <1>5 DEF Reads

-----------------------------------------------------------------------------
(* A step of a return, kind by kind, keeps what it must.                   *)

LEMMA ReturnTypeStep ==
  ASSUME Typed, NoOversell, NEW r \in Req, ReturnControl(r),
         LockItem(r) \/ ReturnStep(r) \/ Fail(r)
  PROVE  Typed'
<1>0. Holding(r)
  BY DEF ReturnControl
<1>1. CASE Refuse(r)
  BY <1>1, RefuseTypes
<1>2. CASE LockItem(r)
  BY <1>0, <1>2, LockItemTypes
<1>3. CASE Reads(r)
  BY <1>3, ReadsEffect DEF Typed, RowsOK, Locked, db, goods
<1>4. CASE Updates(r)
  <2>1. /\ product[r] \in ProductRow /\ todo[r] # <<>> /\ Head(todo[r]).product \in Product
        /\ pc' = [pc EXCEPT ![r] = "refund"] \/ pc' = [pc EXCEPT ![r] = "lock"]
        /\ todo' = todo \/ todo' = [todo EXCEPT ![r] = Tail(@)]
        /\ UNCHANGED <<product, call, shift, sale, totals>>
    BY <1>4, UpdatesEffect
  <2>2. PICK n \in Nat : UpdateStock(r, Head(todo[r]).product, n, product[r].warehouse)
    BY <1>4, UpdatesEffect
  <2>3. n \in Int /\ product[r].warehouse \in Int /\ Tail(todo[r]) \in Seq(Item)
    BY <2>1, TodoType DEF ProductRow
  <2>4. RowsOK' /\ moved' \in [Req -> [Product -> Movement]]
    BY <2>1, <2>2, <2>3, UpdateStockTypes
  <2> QED
    BY <2>1, <2>3, <2>4 DEF Typed
<1>5. CASE Refund(r) /\ ~Refuse(r)
  <2>1. /\ pc' = [pc EXCEPT ![r] = "return"] /\ UNCHANGED <<goods, locals>>
        /\ \E new : Write(r, new) /\ Rows(new)
    BY <1>5, RefundEffect
  <2>2. RowsOK'
    BY <2>1, WriteTypes DEF Typed
  <2> QED
    BY <2>1, <2>2 DEF Typed, goods, locals
<1>6. CASE Commits(r)
  <2>1. Commit(r) /\ Leave(r, "ok") /\ UNCHANGED moved
    BY <1>6 DEF Commits, InsertReturn
  <2>2. RowsOK'
    BY <2>1, CommitTypes DEF Typed
  <2> QED
    BY <2>1, <2>2, LeaveTypes DEF Typed
<1> QED
  BY <1>1, <1>2, <1>3, <1>4, <1>5, <1>6, ReturnCases

LEMMA ReturnIsLocal ==
  ASSUME Typed, NoOversell, NEW r \in Req, ReturnControl(r), NEW q \in Req \ {r},
         LockItem(r) \/ ReturnStep(r) \/ Fail(r)
  PROVE  Own(q)' = Own(q)
<1>1. CASE Refuse(r)
  BY <1>1, RollbackEffect DEF Refuse, Leave, Goto, Typed, Own
<1>2. CASE LockItem(r)
  BY <1>2, StepIsLocal DEF Step
<1>3. CASE Reads(r)
  <2>1. /\ UNCHANGED <<db, goods, call, shift, totals>>
        /\ pc' \in {[pc EXCEPT ![r] = "item"], [pc EXCEPT ![r] = "returned"],
                    [pc EXCEPT ![r] = "lock"]}
        /\ sale'[q] = sale[q] /\ todo'[q] = todo[q]
    BY <1>3, ReadsEffect
  <2>2. pc'[q] = pc[q]
    BY <2>1 DEF Typed
  <2> QED
    BY <2>1, <2>2 DEF Own, db, goods
<1>4. CASE Updates(r)
  <2>1. /\ pc' = [pc EXCEPT ![r] = "refund"] \/ pc' = [pc EXCEPT ![r] = "lock"]
        /\ todo' = todo \/ todo' = [todo EXCEPT ![r] = Tail(@)]
        /\ UNCHANGED <<product, call, shift, sale, totals>>
    BY <1>4, UpdatesEffect
  <2>2. PICK n \in Nat : UpdateStock(r, Head(todo[r]).product, n, product[r].warehouse)
    BY <1>4, UpdatesEffect
  <2>3. draft'[q] = draft[q] /\ moved'[q] = moved[q]
    BY <2>2, WriteEffect DEF UpdateStock, Typed
  <2> QED
    BY <2>1, <2>3 DEF Typed, Own
<1>5. CASE Refund(r) /\ ~Refuse(r)
  <2>1. /\ pc' = [pc EXCEPT ![r] = "return"] /\ UNCHANGED <<goods, locals>>
        /\ \E new : Write(r, new)
    BY <1>5, RefundEffect
  <2>2. draft'[q] = draft[q]
    BY <2>1, WriteEffect DEF Typed
  <2> QED
    BY <2>1, <2>2 DEF Typed, Own, goods, locals
<1>6. CASE Commits(r)
  <2>1. Commit(r) /\ Leave(r, "ok") /\ UNCHANGED moved
    BY <1>6 DEF Commits, InsertReturn
  <2>2. draft'[q] = draft[q]
    BY <2>1, CommitEffect DEF Typed
  <2> QED
    BY <2>1, <2>2 DEF Leave, Goto, Typed, Own
<1> QED
  BY <1>1, <1>2, <1>3, <1>4, <1>5, <1>6, ReturnCases

LEMMA ReturnControlStep ==
  ASSUME Typed, NoOversell, NEW r \in Req, ReturnControl(r),
         LockItem(r) \/ ReturnStep(r) \/ Fail(r)
  PROVE  ReturnControl(r)'
<1>0. Holding(r) /\ call[r] \in ReturnBody
  BY DEF ReturnControl
<1>1. CASE Refuse(r)
  BY <1>1, RollbackEffect DEF Refuse, Leave, Goto, Typed, ReturnControl, Holding
<1>2. CASE LockItem(r) /\ ~Refuse(r)
  <2> DEFINE p == Head(todo[r]).product
  <2>1. /\ pc[r] = "lock" /\ pc' = [pc EXCEPT ![r] = "write"] /\ UNCHANGED <<moved, locals>>
        /\ GetByIDForUpdate(r, p)
    BY <1>2 DEF LockItem, Goto
  <2>2. p \in Locked(r)' /\ draft'[r][p] = Seen(r, p) /\ product'[r] = Seen(r, p)
    BY <2>1, LockRowEffect DEF GetByIDForUpdate, Typed
  <2>3. /\ pc'[r] = "write" /\ call'[r] = call[r] /\ sale'[r] = sale[r] /\ todo'[r] = todo[r]
    BY <2>1 DEF Typed, locals
  <2>4. Head(todo[r])' = Head(todo[r])
    BY <2>3
  <2>5. Holding(r)'
    BY <1>0, <2>1, <2>2, <2>3, <2>4 DEF Holding
  <2> QED
    BY <2>1, <2>3, <2>5 DEF ReturnControl
<1>3. CASE Reads(r)
  <2>1. /\ call' = call /\ draft' = draft /\ pc[r] \in {"sale", "item", "returned"}
        /\ pc'[r] \in {"item", "returned", "lock"}
        /\ sale'[r] \in SaleRow
        /\ pc'[r] # "item" => todo'[r] # <<>>
    BY <1>3, ReadsEffect DEF Typed, db
  <2> QED
    BY <2>1 DEF ReturnControl, Holding
<1>4. CASE Updates(r)
  <2>1. /\ pc[r] = "write" /\ todo[r] # <<>>
        /\ pc'[r] \in {"refund", "lock"}
        /\ (pc'[r] = "refund" /\ call[r].kind = "full") => todo'[r] = todo[r]
        /\ pc'[r] = "lock" => todo'[r] # <<>>
        /\ call' = call /\ sale' = sale
    BY <1>4, UpdatesEffect DEF Typed
  <2> QED
    BY <2>1 DEF ReturnControl, Holding
<1>5. CASE Refund(r) /\ ~Refuse(r)
  <2>1. pc'[r] = "return" /\ call' = call
    BY <1>5, RefundEffect DEF Typed, locals
  <2> QED
    BY <2>1 DEF ReturnControl, Holding
<1>6. CASE Commits(r)
  <2>1. pc'[r] = "ok" /\ call' = call
    BY <1>6 DEF Commits, InsertReturn, Leave, Goto, Typed
  <2> QED
    BY <2>1 DEF ReturnControl, Holding
<1> QED
  BY <1>1, <1>2, <1>3, <1>4, <1>5, <1>6, ReturnCases

LEMMA ReturnExclusive ==
  ASSUME Typed, NoOversell, Exclusive, NEW r \in Req, ReturnControl(r),
         LockItem(r) \/ ReturnStep(r) \/ Fail(r)
  PROVE  Exclusive'
<1>1. ASSUME NEW new, Write(r, new) PROVE Exclusive'
  BY <1>1, WriteExclusive DEF Typed
<1>2. CASE Refuse(r) \/ Commits(r)
  <2>1. Locked(r)' = {} /\ \A q \in Req \ {r} : draft'[q] = draft[q]
    BY <1>2, RollbackEffect, CommitEffect DEF Refuse, Commits, InsertReturn, Typed
  <2> QED
    BY <2>1 DEF Exclusive, Locked
<1>3. CASE LockItem(r)
  BY <1>3, ExclusiveStep DEF Step
<1>4. CASE Reads(r)
  BY <1>4, ReadsEffect DEF Exclusive, Locked, db
<1>5. CASE Updates(r)
  BY <1>1, <1>5, UpdatesEffect DEF UpdateStock
<1>6. CASE Refund(r) /\ ~Refuse(r)
  BY <1>1, <1>6, RefundEffect
<1> QED
  BY <1>2, <1>3, <1>4, <1>5, <1>6, ReturnCases

(* Outside its transaction a return has no draft either, and a product it  *)
(* has locked differs from its committed version by what it has moved.     *)
LEMMA ReturnLedger ==
  ASSUME Typed, NoOversell, NEW r \in Req, ReturnControl(r), Quiet(r), Ledger(r),
         LockItem(r) \/ ReturnStep(r) \/ Fail(r)
  PROVE  Quiet(r)' /\ Ledger(r)' /\ NoOversell'
<1>0. Holding(r)
  BY DEF ReturnControl
<1>1. CASE Refuse(r)
  BY <1>1, RefuseLedger, RefuseFilled, RollbackEffect DEF Refuse, Typed, Quiet
<1>2. CASE LockItem(r) /\ ~Refuse(r)
  <2>1. pc'[r] = "write"
    BY <1>2 DEF LockItem, Goto, Typed
  <2> QED
    BY <1>0, <1>2, <2>1, LockItemLedger, LockItemFilled DEF Quiet, Outside
<1>3. CASE Updates(r)
  <2>1. /\ pc[r] = "write" /\ pc'[r] \in {"refund", "lock"}
    BY <1>3, UpdatesEffect DEF Typed
  <2>2. PICK n \in Nat : UpdateStock(r, Head(todo[r]).product, n, product[r].warehouse)
    BY <1>3, UpdatesEffect
  <2>3. n \in Int
    OBVIOUS
  <2> QED
    BY <1>0, <2>1, <2>2, <2>3, UpdateLedger, UpdateFilled DEF Quiet, Outside
<1>4. CASE Commits(r)
  <2>1. Commit(r) /\ pc'[r] = "ok"
    BY <1>4 DEF Commits, InsertReturn, Leave, Goto, Typed
  <2>2. Locked(r)' = {} /\ draft'[r] = NoDraft
    BY <2>1, CommitEffect DEF Typed
  <2> QED
    BY <2>1, <2>2, CommitFilled DEF Quiet, Ledger
<1>5. CASE Reads(r) \/ (Refund(r) /\ ~Refuse(r))
  <2>1. pc[r] # "ok" /\ pc'[r] \in {"item", "returned", "lock", "return"}
    <3>1. CASE Reads(r)
      BY <3>1, ReadsEffect DEF Typed
    <3>2. CASE Refund(r) /\ ~Refuse(r)
      BY <3>2, RefundEffect DEF Typed
    <3> QED
      BY <1>5, <3>1, <3>2
  <2>2. GoodsKept(r) /\ \A q \in Req \ {r} : draft'[q] = draft[q]
    <3>1. CASE Reads(r)
      BY <3>1, ReadsEffect DEF GoodsKept, Locked, db, goods
    <3>2. CASE Refund(r) /\ ~Refuse(r)
      <4>1. moved' = moved
        BY <3>2, RefundEffect DEF goods
      <4>2. PICK new : Write(r, new) /\ DOMAIN new \subseteq {r} \cup Client
        BY <3>2, RefundEffect
      <4>3. DOMAIN new \cap Product = {}
        BY <4>2, IdVersions, NamesAssumption
      <4> QED
        BY <4>1, <4>2, <4>3, OtherRowsWritten, WriteEffect DEF Typed
    <3> QED
      BY <1>5, <3>1, <3>2
  <2>3. Ledger(r)'
    BY <2>1, <2>2 DEF GoodsKept, Ledger
  <2>4. NoOversell'
    <3>1. \A p \in Product : /\ Filled(table'[p])
                             /\ p \in Locked(r)' => Filled(draft'[r][p])
      BY <2>2, FilledRows DEF GoodsKept
    <3> QED
      BY <2>2, <3>1, StaysFilled
  <2> QED
    BY <2>1, <2>3, <2>4 DEF Quiet, Outside
<1> QED
  BY <1>1, <1>2, <1>3, <1>4, <1>5, ReturnCases

-----------------------------------------------------------------------------
(* Any request.                                                            *)

LEMMA SaleConduct ==
  ASSUME Typed, NEW r \in Req, Conduct(r), ~Returning(r), Receive(r) \/ Step(r) \/ Fail(r)
  PROVE  Conduct(r)' /\ ~Returning(r)'
<1>1. Control(r)' /\ pc'[r] \in Statement /\ call'[r] \in Body \cup {NoCall}
  BY ControlStep, StatementStep DEF Conduct
<1>2. ~Returning(r)'
  BY <1>1, BodyType DEF Returning, NoCall
<1> QED
  BY <1>1, <1>2 DEF Conduct

LEMMA ReceiveReturnConduct ==
  ASSUME Typed, NEW r \in Req, Quiet(r), ReceiveReturn(r)
  PROVE  /\ Typed' /\ Conduct(r)' /\ GoodsKept(r) /\ draft' = draft /\ table' = table
         /\ \A q \in Req \ {r} : Own(q)' = Own(q)
<1>1. PICK b \in ReturnBody : call' = [call EXCEPT ![r] = b]
  BY DEF ReceiveReturn
<1>2. /\ pc[r] = "idle" /\ pc' = [pc EXCEPT ![r] = "sale"]
      /\ UNCHANGED <<db, goods, shift, sale, todo, totals>>
  BY DEF ReceiveReturn, Goto
<1>3. /\ call'[r] = b /\ pc'[r] = "sale" /\ draft'[r] = NoDraft
      /\ \A q \in Req \ {r} : call'[q] = call[q] /\ pc'[q] = pc[q]
  BY <1>1, <1>2 DEF Typed, Quiet, Outside, db
<1>4. ReturnControl(r)' /\ Returning(r)'
  BY <1>3, RequestType DEF ReturnControl, Holding, Returning
<1>5. Typed'
  BY <1>1, <1>2 DEF Typed, RowsOK, Locked, db, goods
<1>6. \A q \in Req \ {r} : Own(q)' = Own(q)
  BY <1>2, <1>3 DEF Own, db, goods
<1> QED
  BY <1>2, <1>4, <1>5, <1>6 DEF Conduct, GoodsKept, Locked, db, goods

LEMMA ActCases ==
  ASSUME NEW r \in Req, Conduct(r), Act(r)
  PROVE  \/ /\ Returning(r) /\ ReturnControl(r)
            /\ LockItem(r) \/ ReturnStep(r) \/ Fail(r)
         \/ /\ ~Returning(r) /\ Control(r)
            /\ Receive(r) \/ Step(r) \/ Fail(r)
         \/ ~Returning(r) /\ Control(r) /\ ReceiveReturn(r)
BY ReturnActs, SaleActs DEF Conduct

LEMMA ActIsLocal ==
  ASSUME ReturnsInv, NEW r \in Req, Act(r), NEW q \in Req \ {r}
  PROVE  Own(q)' = Own(q)
<1> USE DEF ReturnsInv
<1>1. CASE ReturnControl(r) /\ (LockItem(r) \/ ReturnStep(r) \/ Fail(r))
  BY <1>1, ReturnIsLocal
<1>2. CASE Receive(r) \/ Step(r) \/ Fail(r)
  BY <1>2, StepIsLocal
<1>3. CASE ReceiveReturn(r)
  BY <1>3, ReceiveReturnConduct
<1> QED
  BY <1>1, <1>2, <1>3, ActCases

(* The committed rows change when a transaction commits and when a shift   *)
(* is opened.                                                              *)
LEMMA TableMoves ==
  ASSUME NEW r \in Req, Act(r)
  PROVE  \/ table' = table
         \/ OpenShift(r)
         \/ (CommitTx(r) \/ Commits(r)) /\ Commit(r)
<1>1. ASSUME Refuse(r) PROVE table' = table
  BY <1>1 DEF Refuse, Rollback
<1>2. ASSUME NEW new, Write(r, new) PROVE table' = table
  BY <1>2 DEF Write
<1>3. CASE Receive(r) \/ ReceiveReturn(r) \/ GetCurrentOpen(r) \/ GetSale(r) \/ CheckStatus(r)
           \/ CheckReturns(r) \/ ReadItems(r) \/ AggregateSales(r) \/ Fail(r)
  BY <1>1, <1>3 DEF Receive, ReceiveReturn, GetCurrentOpen, GetSale, CheckStatus, CheckReturns,
                    ReadItems, AggregateSales, Fail, db
<1>4. CASE LockItem(r) \/ DeductItem(r) \/ RestoreItem(r)
  BY <1>1, <1>2, <1>4 DEF LockItem, GetByIDForUpdate, LockRow, DeductItem, RestoreItem, UpdateStock
<1>5. CASE InsertSale(r) \/ UpdateDebt(r) \/ RemoveSale(r) \/ CloseShift(r)
  BY <1>1, <1>2, <1>5 DEF InsertSale, UpdateDebt, RemoveSale, CloseShift, db
<1>6. CASE GetReturnedSale(r) \/ GetSaleItem(r) \/ CheckReturned(r)
  BY <1>1, <1>6 DEF GetReturnedSale, GetSaleItem, CheckReturned, db
<1>7. CASE GiveBack(r) \/ TakeNew(r)
  BY <1>1, <1>2, <1>7 DEF GiveBack, TakeNew, UpdateStock
<1>8. CASE Refund(r)
  BY <1>1, <1>2, <1>8 DEF Refund, RefundDebt
<1>9. CASE InsertReturn(r) \/ CommitTx(r)
  BY <1>1, <1>9 DEF InsertReturn, CommitTx, Commits
<1> QED
  BY <1>3, <1>4, <1>5, <1>6, <1>7, <1>8, <1>9 DEF Act, Step, ReturnStep

(* No step of r changes a row that another request has locked.             *)
LEMMA LockedStay ==
  ASSUME ReturnsInv, NEW r \in Req, Act(r), NEW q \in Req \ {r}, NEW x \in Row \cap Locked(q)
  PROVE  table'[x] = table[x]
<1>1. CASE Commit(r)
  <2>1. x \notin Locked(r)
    BY DEF ReturnsInv, Exclusive
  <2>2. table'[x] = Seen(r, x)
    BY <1>1, CommitEffect DEF ReturnsInv, Typed
  <2> QED
    BY <2>1, <2>2 DEF Seen
<1>2. CASE OpenShift(r)
  <2>1. x # r
    BY <1>2 DEF OpenShift, Autocommit, Free
  <2> QED
    BY <1>2, <2>1 DEF OpenShift, Autocommit, ReturnsInv, Typed, RowsOK, Rows
<1>3. CASE table' = table
  BY <1>3
<1> QED
  BY <1>1, <1>2, <1>3, TableMoves

LEMMA ReturnsInit == Init => ReturnsInv
<1> SUFFICES ASSUME Init PROVE ReturnsInv
  OBVIOUS
<1>1. Inv /\ \A r \in Req : pc[r] = "idle" /\ call[r] = NoCall
  BY InvInit DEF Init
<1>2. Typed
  BY <1>1, TypedOK DEF Inv
<1>3. ASSUME NEW r \in Req PROVE Conduct(r)
  BY <1>1 DEF Inv, Conduct, Returning, NoCall, Statement
<1> QED
  BY <1>1, <1>2, <1>3 DEF Inv, ReturnsInv

LEMMA ReturnsStep == ReturnsInv /\ [ReturnsNext]_vars => ReturnsInv'
<1> SUFFICES ASSUME ReturnsInv, [ReturnsNext]_vars PROVE ReturnsInv'
  OBVIOUS
<1>1. CASE UNCHANGED vars
  BY <1>1 DEF ReturnsInv, vars, locals, Typed, RowsOK, Exclusive, NoOversell, Conduct, Returning,
              ReturnControl, Holding, Control, Quiet, Ledger, Locked
<1>2. ASSUME NEW r \in Req, Act(r) PROVE ReturnsInv'
  <2> USE DEF ReturnsInv
  <2>1. /\ Typed' /\ Exclusive' /\ NoOversell'
        /\ Conduct(r)' /\ Quiet(r)' /\ Ledger(r)'
    <3>1. CASE Returning(r) /\ ReturnControl(r) /\ (LockItem(r) \/ ReturnStep(r) \/ Fail(r))
      <4>1. ReturnControl(r)' /\ Returning(r)'
        BY <3>1, ReturnControlStep, RequestType DEF ReturnControl, Returning
      <4> QED
        BY <3>1, <4>1, ReturnTypeStep, ReturnExclusive, ReturnLedger DEF Conduct
    <3>2. CASE ~Returning(r) /\ Control(r) /\ (Receive(r) \/ Step(r) \/ Fail(r))
      BY <3>2, TypeStep, ExclusiveStep, NoOversellStep, QuietStep, LedgerStep, SaleConduct
    <3>3. CASE ReceiveReturn(r)
      <4>1. /\ Typed' /\ Conduct(r)' /\ GoodsKept(r) /\ draft' = draft /\ table' = table
        BY <3>3, ReceiveReturnConduct
      <4>2. Exclusive' /\ NoOversell'
        BY <4>1 DEF Exclusive, NoOversell, Locked
      <4>3. pc[r] = "idle" /\ pc'[r] = "sale"
        BY <3>3 DEF ReceiveReturn, Goto, Typed
      <4> QED
        BY <4>1, <4>2, <4>3 DEF GoodsKept, Ledger, Quiet, Outside
    <3> QED
      BY <1>2, <3>1, <3>2, <3>3, ActCases
  <2>2. ASSUME NEW q \in Req \ {r} PROVE Conduct(q)' /\ Quiet(q)' /\ Ledger(q)'
    <3>1. Own(q)' = Own(q)
      BY <1>2, ActIsLocal
    <3>2. \A p \in Product \cap Locked(q) : table'[p] = table[p]
      BY <1>2, LockedStay, VersionOf
    <3>3. Conduct(q)'
      BY <3>1 DEF Own, Conduct, Returning, ReturnControl, Holding, Control, Locked
    <3> QED
      BY <3>1, <3>2, <3>3 DEF Own, Quiet, Ledger, Locked
  <2> QED
    BY <2>1, <2>2
<1> QED
  BY <1>1, <1>2 DEF ReturnsNext, Act

LEMMA ReturnsInvariance == ReturnsSpec => []ReturnsInv
BY ReturnsInit, ReturnsStep, PTL DEF ReturnsSpec

(* Whatever is sold, deleted, returned and exchanged at once, every row    *)
(* and every local keeps its type: in particular no return takes less than *)
(* nothing off a debt, whatever its sale was discounted to.                *)
THEOREM ReturnsTypeCorrect == ReturnsSpec => []ReturnsTypeOK
<1>1. ReturnsInv => ReturnsTypeOK
  <2> SUFFICES ASSUME ReturnsInv PROVE ReturnsTypeOK
    OBVIOUS
  <2>1. ASSUME NEW r \in Req
        PROVE  /\ pc[r] \in Statement \cup {"sale", "item", "returned", "refund", "return"}
               /\ call[r] \in Body \cup ReturnBody \cup {NoCall}
    <3>1. CASE Returning(r)
      BY <3>1 DEF ReturnsInv, Conduct, ReturnControl, Statement
    <3>2. CASE ~Returning(r)
      BY <3>2 DEF ReturnsInv, Conduct
    <3> QED
      BY <3>1, <3>2
  <2> QED
    BY <2>1 DEF ReturnsInv, Typed, ReturnsTypeOK
<1> QED
  BY <1>1, ReturnsInvariance, PTL

(* Exchanges do not oversell either: the new product of an exchange is     *)
(* compared under its lock, like an item of a sale, and what comes back    *)
(* never lowers a quantity.                                                *)
THEOREM ReturnsNeverOversold == ReturnsSpec => []NoOversell
<1>1. ReturnsInv => NoOversell
  BY DEF ReturnsInv
<1> QED
  BY <1>1, ReturnsInvariance, PTL

-----------------------------------------------------------------------------
(* SaleReturns implements Stock too.                                       *)

LEMMA ReturnsCommitMoves ==
  ASSUME ReturnsInv, NEW r \in Req, Act(r), CommitTx(r) \/ Commits(r)
  PROVE  Goods!Move(r)
<1>1. pc[r] \in {"commit", "return"} /\ Commit(r) /\ Leave(r, "ok") /\ UNCHANGED moved
  BY DEF CommitTx, Commits, InsertReturn
<1> QED
  BY <1>1, CommitMoves DEF ReturnsInv

LEMMA ReturnsStutter ==
  ASSUME ReturnsInv, NEW r \in Req, Act(r), ~CommitTx(r), ~Commits(r)
  PROVE  Shown' = Shown /\ Done' = Done
<1> USE DEF ReturnsInv
<1>1. CASE ~Returning(r) /\ Control(r) /\ (Receive(r) \/ Step(r) \/ Fail(r))
  BY <1>1, OthersStutter
<1>2. CASE ReceiveReturn(r)
  <2>1. table' = table /\ GoodsKept(r) /\ \A q \in Req \ {r} : Own(q)' = Own(q)
    BY <1>2, ReceiveReturnConduct
  <2>2. pc[r] = "idle" /\ pc'[r] = "sale"
    BY <1>2 DEF ReceiveReturn, Goto, Typed
  <2> QED
    BY <2>1, <2>2 DEF Shown, Done, Own
<1>3. CASE ReturnControl(r) /\ (LockItem(r) \/ ReturnStep(r) \/ Fail(r))
  <2>1. table' = table
    <3>1. ~OpenShift(r)
      BY <1>3 DEF OpenShift, ReturnControl
    <3> QED
      BY <3>1, TableMoves
  <2>2. pc[r] # "ok"
    BY <1>3 DEF LockItem, ReturnStep, Fail, InFlight, GetReturnedSale, GetSaleItem, CheckReturned,
                GiveBack, TakeNew, Refund, InsertReturn
  <2>3. pc'[r] # "ok"
    <3>1. CASE Refuse(r)
      BY <3>1 DEF Refuse, Leave, Goto, Typed
    <3>2. CASE LockItem(r) /\ ~Refuse(r)
      BY <3>2 DEF LockItem, Goto, Typed
    <3>3. CASE Reads(r)
      BY <1>3, <3>3, ReadsEffect DEF Typed
    <3>4. CASE Updates(r)
      BY <1>3, <3>4, UpdatesEffect DEF Typed
    <3>5. CASE Refund(r) /\ ~Refuse(r)
      BY <1>3, <3>5, RefundEffect DEF Typed
    <3> QED
      BY <1>3, <3>1, <3>2, <3>3, <3>4, <3>5, ReturnCases
  <2>4. \A q \in Req \ {r} : Own(q)' = Own(q)
    BY ActIsLocal
  <2> QED
    BY <2>1, <2>2, <2>3, <2>4 DEF Shown, Done, Own
<1> QED
  BY <1>1, <1>2, <1>3, ActCases

(* A return or an exchange moves its goods at one instant, its commit, or  *)
(* not at all, and by exactly what it asked for; nothing is lost when the  *)
(* old and the new product of two exchanges are the same rows in opposite  *)
(* order.                                                                  *)
THEOREM ReturnsMoveAtomically == ReturnsSpec => MovesAtomically
<1>1. Init => Goods!Init
  BY GoodsInit
<1>2. ReturnsInv /\ [ReturnsNext]_vars => [Goods!Next]_<<Shown, Done>>
  <2> SUFFICES ASSUME ReturnsInv, [ReturnsNext]_vars PROVE [Goods!Next]_<<Shown, Done>>
    OBVIOUS
  <2>1. CASE UNCHANGED vars
    BY <2>1 DEF vars, Shown, Done
  <2>2. ASSUME NEW r \in Req, Act(r), CommitTx(r) \/ Commits(r)
        PROVE  [Goods!Next]_<<Shown, Done>>
    BY <2>2, ReturnsCommitMoves DEF Goods!Next
  <2>3. ASSUME NEW r \in Req, Act(r), ~CommitTx(r), ~Commits(r)
        PROVE  [Goods!Next]_<<Shown, Done>>
    BY <2>3, ReturnsStutter
  <2> QED
    BY <2>1, <2>2, <2>3 DEF ReturnsNext, Act
<1> QED
  BY <1>1, <1>2, ReturnsInvariance, PTL DEF ReturnsSpec, MovesAtomically, Goods!Spec, Shown, Done

-----------------------------------------------------------------------------
(***************************************************************************)
(* Returns and what they return. The guard of Delete looks for returns     *)
(* before its transaction, the return finds its sale before its own: only  *)
(* the row locks behind the foreign keys are between them. Drafted says    *)
(* what a transaction may do to a paper: insert the one of its own name,   *)
(* delete a sale no return refers to, or close a shift; Placed that the    *)
(* item a return has found is there for as long as its sale is.            *)
(***************************************************************************)
Drafting(r, x, row) ==
  \/ /\ x = r
     /\ row # NoRow /\ row.kind = "return" =>
          Returning(r) /\ row.sale = call[r].sale /\ row.item = call[r].item
  \/ call[r].op = "delete" /\ Kind(x, "sale") /\ ~Referenced(x) /\ row = NoRow
  \/ Kind(x, "shift") /\ row # NoRow /\ row.kind = "shift"

Drafted(r) == \A x \in Locked(r) \cap Id : Drafting(r, x, draft[r][x])

Found == {"returned", "lock", "write", "refund", "return"}

Placed(r) ==
  Returning(r) /\ pc[r] \in Found =>
    LET i == call[r].item
    IN Existed(i.of) /\ (Kind(i.of, "sale") => ItemExists(i))

Filed ==
  /\ Unborn
  /\ ReturnsHaveItems
  /\ \A r \in Req : Drafted(r) /\ Placed(r)

LEMMA ReturnKind ==
  ASSUME RowsOK, NEW y \in Id, Kind(y, "return")
  PROVE  table[y] \in ReturnRow /\ table[y].sale \in Id /\ table[y].item.of \in Id
<1>1. table[y] \in ReturnRow
  BY KindType DEF Kind, KindIn, IdRow, PaperRow, SaleRow, ShiftRow, BookingRow, ReturnRow
<1> QED
  BY <1>1 DEF ReturnRow, ItemId

LEMMA NotDone ==
  ASSUME NEW r \in Req, Act(r)
  PROVE  pc[r] # "ok"
<1>1. CASE Receive(r) \/ ReceiveReturn(r) \/ Fail(r)
  BY <1>1 DEF Receive, ReceiveReturn, Fail, InFlight
<1>2. CASE Step(r)
  BY <1>2 DEF Step, GetCurrentOpen, OpenShift, LockItem, DeductItem, RestoreItem, InsertSale,
         UpdateDebt, CommitTx, GetSale, CheckStatus, CheckReturns, ReadItems, RemoveSale,
         AggregateSales, CloseShift
<1>3. CASE ReturnStep(r)
  BY <1>3 DEF ReturnStep, GetReturnedSale, GetSaleItem, CheckReturned, GiveBack, TakeNew, Refund,
         InsertReturn
<1> QED
  BY <1>1, <1>2, <1>3 DEF Act

(* What a step of r may do to the paper named x.                           *)
LEMMA PapersChange ==
  ASSUME ReturnsInv, Filed, NEW r \in Req, Act(r), NEW x \in Id
  PROVE  \/ table'[x] = table[x]
         \/ /\ x = r /\ ~Existed(r) /\ table[r] = NoRow /\ pc'[r] = "ok"
            /\ Kind(r, "return")' =>
                 /\ Commits(r) /\ ReturnControl(r) /\ call[r].op = "return"
                 /\ table'[r].sale = call[r].sale /\ table'[r].item = call[r].item
         \/ Kind(x, "sale") /\ ~Referenced(x) /\ table'[x] = NoRow /\ ~Commits(r)
         \/ Kind(x, "shift") /\ Kind(x, "shift")'
<1> USE DEF ReturnsInv
<1>1. ~Existed(r) /\ table[r] = NoRow /\ r \in Id
  BY NotDone, NamesAssumption DEF Existed, Filed, Unborn, Id
<1>2. CASE OpenShift(r)
  <2>1. /\ table' = [table EXCEPT ![r] = [kind |-> "shift", status |-> "open",
                                          rank |-> Cardinality(Shifts), totals |-> NoTotals]]
        /\ pc'[r] = "ok"
    BY <1>2 DEF OpenShift, Autocommit, Leave, Goto, Typed
  <2>2. DOMAIN table = Row /\ r \in Row /\ table = [y \in DOMAIN table |-> table[y]]
    BY IdVersions DEF Typed, RowsOK, Rows
  <2>3. x # r => table'[x] = table[x]
    BY <2>1
  <2>4. ~Kind(r, "return")'
    BY <2>1, <2>2 DEF Kind, KindIn
  <2> QED
    BY <1>1, <2>1, <2>3, <2>4
<1>3. CASE (CommitTx(r) \/ Commits(r)) /\ Commit(r)
  <2>1. table'[x] = Seen(r, x) /\ pc'[r] = "ok"
    BY <1>3, CommitEffect, VersionOf DEF Typed, CommitTx, Commits, InsertReturn, Leave, Goto
  <2>2. CASE x \notin Locked(r)
    BY <2>1, <2>2 DEF Seen
  <2>3. CASE x \in Locked(r)
    <3>1. Drafting(r, x, table'[x])
      BY <2>1, <2>3 DEF Seen, Filed, Drafted
    <3>2. Returning(r) => ReturnControl(r) /\ ~CommitTx(r)
      BY DEF Conduct, ReturnControl, CommitTx
    <3>3. ~Returning(r) => ~Commits(r)
      BY DEF Conduct, Commits, InsertReturn, Statement
    <3>4. call[r].op = "delete" => ~Commits(r)
      BY <3>3 DEF Returning
    <3> QED
      BY <1>1, <1>3, <2>1, <3>1, <3>2, <3>4 DEF Drafting, Kind, KindIn, Returning
  <2> QED
    BY <2>2, <2>3
<1> QED
  BY <1>2, <1>3, TableMoves

LEMMA NameStays ==
  ASSUME ReturnsInv, NEW r \in Req, Act(r), NEW x \in Id, Existed(x)
  PROVE  Existed(x)' /\ x # r
<1>1. x # r
  BY NotDone, NamesAssumption DEF Existed
<1>2. CASE x \in Past
  BY <1>1, <1>2 DEF Existed
<1>3. CASE x \in Req
  <2>1. pc'[x] = pc[x]
    BY <1>1, <1>3, ActIsLocal DEF Own
  <2> QED
    BY <1>1, <2>1 DEF Existed
<1> QED
  BY <1>2, <1>3 DEF Id

LEMMA UnbornKept ==
  ASSUME ReturnsInv, Filed, NEW r \in Req, Act(r)
  PROVE  Unborn'
<1> SUFFICES ASSUME NEW q \in Req, ~Existed(q)' PROVE table'[q] = NoRow
  BY DEF Unborn
<1>1. ~Existed(q)
  BY NameStays DEF Id
<1>2. table[q] = NoRow /\ q \in Id
  BY <1>1 DEF Filed, Unborn, Id
<1> QED
  BY <1>2, PapersChange DEF Existed, Kind, KindIn

(* A transaction that writes such rows only still drafts such rows only.   *)
LEMMA DraftWritten ==
  ASSUME RowsOK, NEW r \in Req, Drafted(r), NEW new, Write(r, new), call'[r] = call[r],
         \A x \in DOMAIN new \cap Id : Drafting(r, x, new[x])
  PROVE  Drafted(r)'
<1>1. table' = table /\ Locked(r)' = Locked(r) \cup DOMAIN new
  BY WriteEffect
<1>2. ASSUME NEW x \in Locked(r)', x \in Id
      PROVE  Drafting(r, x, draft'[r][x])
  <2>1. draft'[r][x] = IF x \in DOMAIN new THEN new[x] ELSE draft[r][x]
    BY <1>2, WriteEffect
  <2> QED
    BY <1>1, <1>2, <2>1 DEF Drafted
<1>3. ASSUME NEW x, NEW row, Drafting(r, x, row) PROVE Drafting(r, x, row)'
  BY <1>1, <1>3 DEF Drafting, Returning, Kind, KindIn, Referenced
<1> QED
  BY <1>2, <1>3 DEF Drafted

LEMMA DraftedNothing ==
  ASSUME NEW r \in Req, draft[r] = NoDraft
  PROVE  Drafted(r)
BY DEF Drafted, Locked, NoDraft

LEMMA NothingDrafted ==
  ASSUME NEW r \in Req, draft'[r] = NoDraft
  PROVE  Drafted(r)'
BY DEF Drafted, Locked, NoDraft

LEMMA DraftedKept ==
  ASSUME NEW r \in Req, Drafted(r), UNCHANGED db, call'[r] = call[r]
  PROVE  Drafted(r)'
BY DEF db, Drafted, Drafting, Locked, Returning, Kind, KindIn, Referenced

(* What a request that sells, deletes, opens or closes writes.             *)
LEMMA SaleDrafts ==
  ASSUME ReturnsInv, Filed, NEW r \in Req, ~Returning(r), Control(r),
         Receive(r) \/ Step(r) \/ Fail(r)
  PROVE  Drafted(r)'
<1> USE DEF ReturnsInv
<1>1. CASE Refuse(r)
  BY <1>1, RollbackEffect, NothingDrafted DEF Refuse, Typed
<1>2. CASE CommitTx(r)
  BY <1>2, CommitEffect, NothingDrafted DEF CommitTx, Typed
<1>3. CASE /\ Receive(r) \/ GetCurrentOpen(r) \/ OpenShift(r) \/ GetSale(r) \/ CheckStatus(r)
              \/ CheckReturns(r) \/ ReadItems(r) \/ AggregateSales(r)
           /\ ~Refuse(r)
  <2>1. draft[r] = NoDraft
    BY <1>3 DEF Receive, GetCurrentOpen, OpenShift, GetSale, CheckStatus, CheckReturns, ReadItems,
                AggregateSales, Quiet, Outside
  <2>2. draft' = draft
    BY <1>3 DEF Receive, GetCurrentOpen, OpenShift, Autocommit, GetSale, CheckStatus, CheckReturns,
                ReadItems, AggregateSales, db
  <2> QED
    BY <2>1, <2>2, NothingDrafted
<1>4. CASE (LockItem(r) \/ DeductItem(r) \/ RestoreItem(r)) /\ ~Refuse(r)
  <2>1. call'[r] = call[r] /\ Head(todo[r]).product \notin Id
    <3>1. pc[r] \in {"lock", "write"}
      BY <1>4 DEF LockItem, DeductItem, RestoreItem
    <3>2. Head(todo[r]).product \in Product
      BY <3>1, TodoType DEF Control
    <3> QED
      BY <1>4, <3>2, NamesAssumption DEF LockItem, DeductItem, RestoreItem, locals
  <2>2. \E new : Write(r, new) /\ DOMAIN new = {Head(todo[r]).product}
    <3>1. ASSUME NEW n, NEW m, UpdateStock(r, Head(todo[r]).product, n, m)
          PROVE  \E new : Write(r, new) /\ DOMAIN new = {Head(todo[r]).product}
      BY <3>1 DEF UpdateStock
    <3>2. CASE LockItem(r)
      BY <1>4, <3>2 DEF LockItem, GetByIDForUpdate, LockRow
    <3>3. CASE DeductItem(r)
      BY <1>4, <3>1, <3>3 DEF DeductItem
    <3>4. CASE RestoreItem(r)
      BY <3>1, <3>4 DEF RestoreItem
    <3> QED
      BY <1>4, <3>2, <3>3, <3>4
  <2> QED
    BY <2>1, <2>2, DraftWritten DEF Filed, Typed
<1>5. CASE InsertSale(r) /\ ~Refuse(r)
  <2>1. PICK new : Write(r, [x \in {r} |-> new]) /\ new.kind = "sale" /\ call'[r] = call[r]
    BY <1>5 DEF InsertSale
  <2>2. Drafting(r, r, new)
    BY <2>1 DEF Drafting
  <2> QED
    BY <2>1, <2>2, DraftWritten DEF Filed, Typed
<1>6. CASE UpdateDebt(r)
  <2>1. call'[r] = call[r] /\ sale[r].client \notin Id
    <3>1. sale[r].client \in Client
      BY <1>6 DEF UpdateDebt, Control, SaleRow
    <3> QED
      BY <1>6, <3>1, NamesAssumption DEF UpdateDebt, locals
  <2>2. UNCHANGED db \/ \E new : Write(r, new) /\ DOMAIN new = {sale[r].client}
    BY <1>6 DEF UpdateDebt
  <2> QED
    BY <2>1, <2>2, DraftWritten, DraftedKept DEF Filed, Typed
<1>7. CASE RemoveSale(r) /\ ~Refuse(r)
  <2>1. call'[r] = call[r] /\ call[r].op = "delete" /\ ~Referenced(call[r].sale)
    BY <1>7 DEF RemoveSale, Control, locals
  <2>2. CASE UNCHANGED db
    BY <2>1, <2>2, DraftedKept DEF Filed
  <2>3. CASE Kind(call[r].sale, "sale") /\ Write(r, [y \in {call[r].sale} |-> NoRow])
    <3>1. Drafting(r, call[r].sale, NoRow)
      BY <2>1, <2>3 DEF Drafting
    <3> QED
      BY <2>1, <2>3, <3>1, DraftWritten DEF Filed, Typed
  <2> QED
    BY <1>7, <2>2, <2>3 DEF RemoveSale
<1>8. CASE CloseShift(r) /\ ~Refuse(r)
  <2>0. PICK closed, booking :
          /\ closed = [table[shift[r]] EXCEPT !.status = "closed", !.totals = totals[r]]
          /\ booking = [kind |-> "booking", shift |-> shift[r], sales |-> totals[r].sales,
                        entries |-> {e \in Entry : e.of \in totals[r].paid}]
    OBVIOUS
  <2>1. /\ Write(r, [x \in {shift[r], r} |-> IF x = shift[r] THEN closed ELSE booking])
        /\ closed = [table[shift[r]] EXCEPT !.status = "closed", !.totals = totals[r]]
        /\ booking.kind = "booking"
    BY <1>8, <2>0 DEF CloseShift
  <2>2. shift[r] \in Id /\ Kind(shift[r], "shift") /\ call'[r] = call[r]
    BY <1>8 DEF CloseShift, StillOpen, OpenShifts, Shifts, locals
  <2>3. closed # NoRow /\ closed.kind = "shift"
    <3>1. closed \in ShiftRow
      <4>1. table[shift[r]] \in ShiftRow /\ totals[r] \in Totals
        BY <2>2, KindType DEF Typed
      <4> QED
        BY <2>1, <4>1 DEF ShiftRow
    <3> QED
      BY <3>1, NamesAssumption DEF ShiftRow, PaperRow
  <2>4. Drafting(r, shift[r], closed) /\ (r # shift[r] => Drafting(r, r, booking))
    BY <2>1, <2>2, <2>3 DEF Drafting
  <2> QED
    BY <2>1, <2>2, <2>4, DraftWritten DEF Filed, Typed
<1> QED
  BY <1>1, <1>2, <1>3, <1>4, <1>5, <1>6, <1>7, <1>8 DEF Step, Fail

LEMMA ReturnKeepsCall ==
  ASSUME Typed, NEW r \in Req, ReturnControl(r), LockItem(r) \/ ReturnStep(r) \/ Fail(r)
  PROVE  call'[r] = call[r]
<1>1. CASE Refuse(r) \/ Commits(r)
  BY <1>1 DEF Refuse, Commits, InsertReturn, Leave
<1>2. CASE Reads(r)
  BY <1>2, ReadsEffect
<1>3. CASE LockItem(r) /\ ~Refuse(r)
  BY <1>3 DEF LockItem, locals
<1>4. CASE Updates(r)
  BY <1>4 DEF Updates, GiveBack, TakeNew
<1>5. CASE Refund(r) /\ ~Refuse(r)
  BY <1>5, RefundEffect DEF locals
<1> QED
  BY <1>1, <1>2, <1>3, <1>4, <1>5, ReturnCases

(* What a request that returns goods writes.                               *)
LEMMA ReturnDrafts ==
  ASSUME ReturnsInv, Filed, NEW r \in Req, Returning(r), ReturnControl(r),
         LockItem(r) \/ ReturnStep(r) \/ Fail(r)
  PROVE  Drafted(r)'
<1> USE DEF ReturnsInv
<1>1. CASE Refuse(r)
  BY <1>1, RollbackEffect, NothingDrafted DEF Refuse, Typed
<1>2. CASE Commits(r)
  BY <1>2, CommitEffect, NothingDrafted DEF Commits, InsertReturn, Typed
<1>3. CASE Reads(r)
  BY <1>3, ReadsEffect, DraftedKept DEF Filed
<1>4. CASE (LockItem(r) \/ Updates(r)) /\ ~Refuse(r)
  <2>1. call'[r] = call[r] /\ Head(todo[r]).product \notin Id
    <3>1. pc[r] \in {"lock", "write"}
      BY <1>4 DEF LockItem, Updates, GiveBack, TakeNew
    <3>2. Head(todo[r]).product \in Product
      BY <3>1, TodoType DEF ReturnControl, Holding
    <3> QED
      BY <1>4, <3>2, NamesAssumption DEF LockItem, Updates, GiveBack, TakeNew, locals
  <2>2. \E new : Write(r, new) /\ DOMAIN new = {Head(todo[r]).product}
    <3>1. CASE LockItem(r)
      BY <1>4, <3>1 DEF LockItem, GetByIDForUpdate, LockRow
    <3>2. CASE Updates(r)
      <4>1. PICK n, m : UpdateStock(r, Head(todo[r]).product, n, m)
        BY <3>2, UpdatesEffect
      <4> QED
        BY <4>1 DEF UpdateStock
    <3> QED
      BY <1>4, <3>1, <3>2
  <2> QED
    BY <2>1, <2>2, DraftWritten DEF Filed, Typed
<1>5. CASE Refund(r) /\ ~Refuse(r)
  <2>1. PICK new : /\ Write(r, new) /\ r \in DOMAIN new /\ DOMAIN new \subseteq {r} \cup Client
                   /\ new[r].sale = call[r].sale /\ new[r].item = call[r].item
    BY <1>5, RefundEffect DEF Typed
  <2>2. DOMAIN new \cap Id \subseteq {r}
    BY <2>1, NamesAssumption
  <2>3. Drafting(r, r, new[r])
    BY <2>1 DEF Drafting
  <2>4. call'[r] = call[r]
    BY <1>5, RefundEffect DEF Typed, locals
  <2> QED
    BY <2>1, <2>2, <2>3, <2>4, DraftWritten DEF Filed, Typed
<1> QED
  BY <1>1, <1>2, <1>3, <1>4, <1>5, ReturnCases

(* Nobody refers to a paper that a transaction is about to delete: the     *)
(* insert of a return waits for the locks of what it refers to.            *)
LEMMA DraftedStep ==
  ASSUME ReturnsInv, Filed, NEW r \in Req, Act(r)
  PROVE  \A q \in Req : Drafted(q)'
<1> USE DEF ReturnsInv
<1>1. Drafted(r)'
  <2>1. CASE Returning(r)
    BY <2>1, ActCases, ReturnDrafts
  <2>2. CASE ReceiveReturn(r)
    <3>1. draft' = draft /\ draft[r] = NoDraft
      BY <2>2 DEF ReceiveReturn, Quiet, Outside, db
    <3> QED
      BY <3>1, NothingDrafted
  <2>3. CASE ~Returning(r) /\ ~ReceiveReturn(r)
    BY <2>3, ActCases, SaleDrafts
  <2> QED
    BY <2>1, <2>2, <2>3
<1>2. ASSUME NEW q \in Req \ {r}, NEW x \in Locked(q), x \in Id
      PROVE  Drafting(q, x, draft[q][x])'
  <2>1. Drafting(q, x, draft[q][x])
    BY <1>2 DEF Filed, Drafted
  <2>2. call'[q] = call[q] /\ draft'[q] = draft[q] /\ table'[x] = table[x]
    BY <1>2, ActIsLocal, LockedStay, VersionOf DEF Own
  <2>3. ~Referenced(x) /\ Kind(x, "sale") => ~Referenced(x)'
    <3> SUFFICES ASSUME ~Referenced(x), Kind(x, "sale"), NEW y \in Id, Kind(y, "return")',
                        x \in {table'[y].sale, table'[y].item.of}
                 PROVE  FALSE
      BY DEF Referenced
    <3>1. table'[y] # table[y]
      BY DEF Referenced, Kind, KindIn
    <3>2. ~(Kind(y, "shift")' /\ Kind(y, "return")') /\ table'[y] # NoRow
      BY DEF Kind, KindIn
    <3>3. /\ y = r /\ Commits(r)
          /\ table'[r].sale = call[r].sale /\ table'[r].item = call[r].item
      BY <3>1, <3>2, PapersChange
    <3>4. \A z \in Referents(r) : Free(r, z)
      BY <3>3 DEF Commits, InsertReturn
    <3> QED
      BY <1>2, <3>3, <3>4 DEF Referents, Free
  <2> QED
    BY <2>1, <2>2, <2>3 DEF Drafting, Returning, Kind, KindIn
<1>3. ASSUME NEW q \in Req \ {r} PROVE Drafted(q)'
  <2>1. draft'[q] = draft[q]
    BY ActIsLocal DEF Own
  <2> QED
    BY <1>2, <2>1 DEF Drafted, Locked
<1> QED
  BY <1>1, <1>3

(* No step takes from a return its sale or its item.                       *)
LEMMA ReferencesStep ==
  ASSUME ReturnsInv, Filed, NEW r \in Req, Act(r)
  PROVE  ReturnsHaveItems'
<1> USE DEF ReturnsInv
<1> SUFFICES ASSUME NEW y \in Id, Kind(y, "return")'
             PROVE  KindIn(table', table'[y].sale, "sale") /\ ItemExistsIn(table', table'[y].item)
  BY DEF ReturnsHaveItems, ReferencesIn, Kind
<1>1. CASE table'[y] = table[y]
  <2>1. Kind(y, "return") /\ table[y].sale \in Id /\ table[y].item.of \in Id
    BY <1>1, ReturnKind DEF Kind, KindIn, Typed
  <2>2. Kind(table[y].sale, "sale") /\ ItemExistsIn(table, table[y].item)
    BY <2>1 DEF Filed, ReturnsHaveItems, ReferencesIn, Kind
  <2>3. Kind(table[y].item.of, "sale") /\ Referenced(table[y].sale) /\ Referenced(table[y].item.of)
    BY <2>1, <2>2 DEF ItemExistsIn, Referenced, Kind
  <2>4. ASSUME NEW x \in Id, Referenced(x), Kind(x, "sale") PROVE table'[x] = table[x]
    <3>1. table[x] # NoRow /\ ~Kind(x, "shift")
      BY <2>4 DEF Kind, KindIn
    <3> QED
      BY <2>4, <3>1, PapersChange
  <2>5. /\ table'[table[y].sale] = table[table[y].sale]
        /\ table'[table[y].item.of] = table[table[y].item.of]
    BY <2>1, <2>2, <2>3, <2>4
  <2> QED
    BY <1>1, <2>2, <2>5 DEF ItemExistsIn, Kind, KindIn
<1>2. CASE table'[y] # table[y]
  <2>1. table'[y] # NoRow /\ ~Kind(y, "shift")'
    BY DEF Kind, KindIn
  <2>2. /\ y = r /\ Commits(r) /\ ReturnControl(r) /\ call[r].op = "return" /\ table[r] = NoRow
        /\ table'[r].sale = call[r].sale /\ table'[r].item = call[r].item
    BY <1>2, <2>1, PapersChange
  <2>3. Kind(call[r].sale, "sale") /\ Kind(call[r].item.of, "sale") /\ pc[r] = "return"
    <3>1. Commits(r) => pc[r] = "return" /\ \A x \in Referents(r) : Kind(x, "sale")
      BY DEF Commits, InsertReturn
    <3> QED
      BY <2>2, <3>1 DEF Referents
  <2>4. ItemExistsIn(table, call[r].item)
    <3>1. Placed(r)
      BY DEF Filed
    <3> QED
      BY <2>2, <2>3, <3>1 DEF Placed, Found, Returning, ItemExists
  <2>5. call[r].sale \in Id /\ call[r].item.of \in Id
    BY <2>2, RequestType DEF ReturnControl
  <2>6. ASSUME NEW x \in Id, Kind(x, "sale") PROVE table'[x] = table[x]
    <3>1. table[x] # NoRow /\ ~Kind(x, "shift")
      BY <2>6 DEF Kind, KindIn
    <3> QED
      BY <2>2, <2>6, <3>1, PapersChange
  <2> QED
    BY <2>2, <2>3, <2>4, <2>5, <2>6 DEF ItemExistsIn, Kind, KindIn
<1> QED
  BY <1>1, <1>2

(* The item a return has found is there for as long as its sale is.        *)
LEMMA PlacedStep ==
  ASSUME ReturnsInv, Filed, NEW r \in Req, Act(r)
  PROVE  \A q \in Req : Placed(q)'
<1> USE DEF ReturnsInv
<1>1. ASSUME NEW q \in Req, Returning(q), ReturnControl(q), pc[q] \in Found, call'[q] = call[q]
      PROVE  Placed(q)'
  <2>0. PICK x : x = call[q].item.of
    OBVIOUS
  <2>1. x \in Id /\ Existed(x) /\ (Kind(x, "sale") => ItemExists(call[q].item))
    BY <1>1, <2>0, RequestType DEF Filed, Placed, ReturnControl
  <2>2. Existed(x)' /\ x # r
    BY <2>1, NameStays
  <2>3. Kind(x, "sale")' => table'[x] = table[x]
    BY <2>1, <2>2, PapersChange DEF Kind, KindIn
  <2> QED
    BY <1>1, <2>0, <2>1, <2>2, <2>3 DEF Placed, ItemExists, ItemExistsIn, Kind, KindIn
<1>2. ASSUME NEW q \in Req \ {r} PROVE Placed(q)'
  <2>1. call'[q] = call[q] /\ pc'[q] = pc[q]
    BY ActIsLocal DEF Own
  <2> QED
    BY <1>1, <2>1 DEF Placed, Returning, Conduct
<1>3. Placed(r)'
  <2> SUFFICES ASSUME Returning(r)', pc'[r] \in Found PROVE Placed(r)'
    BY DEF Placed
  <2>1. CASE ~Returning(r)
    <3>1. CASE ReceiveReturn(r)
      BY <3>1 DEF ReceiveReturn, Goto, Typed, Found
    <3>2. CASE ~ReceiveReturn(r)
      BY <2>1, <3>2, ActCases, SaleConduct
    <3> QED
      BY <3>1, <3>2
  <2>2. CASE Returning(r) /\ pc[r] \in Found
    <3>1. ReturnControl(r) /\ (LockItem(r) \/ ReturnStep(r) \/ Fail(r))
      BY <2>2, ActCases
    <3>2. call'[r] = call[r]
      BY <3>1, ReturnKeepsCall
    <3> QED
      BY <1>1, <2>2, <3>1, <3>2
  <2>3. CASE Returning(r) /\ pc[r] \notin Found
    <3>1. ReturnControl(r) /\ GetSaleItem(r) /\ ~Refuse(r)
      BY <2>3, ActCases DEF Found, ReturnStep, LockItem, Fail, Refuse, Leave, Goto, Typed,
         GetReturnedSale, GetSaleItem, CheckReturned, GiveBack, TakeNew, Refund, InsertReturn
    <3>2. ItemExists(call[r].item) /\ table' = table /\ call' = call
      BY <3>1 DEF GetSaleItem, db
    <3>3. PICK x \in Id : x = call[r].item.of
      BY <3>1, RequestType DEF ReturnControl
    <3>4. Existed(x)
      BY <3>2, <3>3 DEF ItemExists, ItemExistsIn, KindIn, Filed, Unborn, Existed, Id
    <3>5. Existed(x)'
      BY <3>4, NameStays
    <3> QED
      BY <3>2, <3>3, <3>5 DEF Placed, ItemExists, Existed
  <2> QED
    BY <2>1, <2>2, <2>3
<1> QED
  BY <1>2, <1>3

LEMMA FiledInit == Init => Filed
<1> SUFFICES ASSUME Init PROVE Filed
  OBVIOUS
<1>1. Unborn
  BY InitRowAssumption DEF Init, Unborn
<1>2. ReturnsHaveItems
  BY ReferencesAssumption DEF Init, ReturnsHaveItems
<1>3. ASSUME NEW r \in Req PROVE Drafted(r) /\ Placed(r)
  <2>1. draft[r] = NoDraft /\ pc[r] = "idle"
    BY DEF Init
  <2> QED
    BY <2>1, DraftedNothing DEF Placed, Found
<1> QED
  BY <1>1, <1>2, <1>3 DEF Filed

LEMMA FiledStep == ReturnsInv /\ Filed /\ [ReturnsNext]_vars => Filed'
<1> SUFFICES ASSUME ReturnsInv, Filed, [ReturnsNext]_vars PROVE Filed'
  OBVIOUS
<1>1. CASE UNCHANGED vars
  <2>1. Unborn' /\ ReturnsHaveItems'
    BY <1>1 DEF Filed, Unborn, Existed, ReturnsHaveItems, vars
  <2>2. ASSUME NEW r \in Req PROVE Drafted(r)' /\ Placed(r)'
    <3>1. Drafted(r)'
      BY <1>1, DraftedKept DEF Filed, vars, db, locals
    <3>2. Placed(r)'
      BY <1>1 DEF Filed, Placed, Returning, Existed, Kind, KindIn, ItemExists, vars, locals
    <3> QED
      BY <3>1, <3>2
  <2> QED
    BY <2>1, <2>2 DEF Filed
<1>2. ASSUME NEW r \in Req, Act(r) PROVE Filed'
  BY <1>2, UnbornKept, ReferencesStep, DraftedStep, PlacedStep DEF Filed
<1> QED
  BY <1>1, <1>2 DEF ReturnsNext, Act

(* No return outlives its sale or its item, although Delete looks for      *)
(* returns before its transaction, at the sale only, and a return finds    *)
(* its sale and its item before its own: when both have passed their       *)
(* guards, the insert waits for the deletion and is refused, or the        *)
(* deletion finds the return.                                              *)
THEOREM ReturnsKeepTheirItems == ReturnsSpec => []ReturnsHaveItems
<1>1. Init => ReturnsInv /\ Filed
  BY ReturnsInit, FiledInit
<1>2. ReturnsInv /\ Filed /\ [ReturnsNext]_vars => (ReturnsInv /\ Filed)'
  BY ReturnsStep, FiledStep
<1>3. Filed => ReturnsHaveItems
  BY DEF Filed
<1> QED
  BY <1>1, <1>2, <1>3, PTL DEF ReturnsSpec

-----------------------------------------------------------------------------
(***************************************************************************)
(* Returns and the sums. For a request that sells, deletes, opens or       *)
(* closes the books of Sales_proofs hold (Mine); Account is what a return  *)
(* keeps instead: that the sale it has fetched is the one in the database  *)
(* for as long as that exists, that the goods it has moved and has still   *)
(* to move are the item that comes back and the one that leaves in         *)
(* exchange, that it inserts a return of just these, and that the debt it  *)
(* has written is the client's debt with the sale's part taken off.        *)
(***************************************************************************)
Fetched(r) ==
  pc[r] \in {"item", "returned", "lock", "write", "refund", "return"} =>
    /\ sale[r] \in SaleRow
    /\ Existed(call[r].sale)
    /\ Kind(call[r].sale, "sale") => table[call[r].sale] = sale[r]

\* The pieces that r brings back and those it takes in exchange.
OldOf(r) == table[call[r].item.of].items[call[r].item.index].product
Back(r) == [product |-> OldOf(r), quantity |-> call[r].quantity]
Forth(r) == [product |-> call[r].new, quantity |-> call[r].quantity]
Pieces(item, p) == IF item.product = p THEN item.quantity ELSE 0
Gives(r, p) == Pieces(Back(r), p) - Pieces(Forth(r), p)

Moving(r) ==
  /\ pc[r] = "returned" => Head(todo[r]).product = OldOf(r)
  /\ pc[r] \in {"lock", "write"} =>
       \/ /\ todo[r] = IF call[r].kind = "full" THEN <<Back(r)>> ELSE <<Back(r), Forth(r)>>
          /\ \A p \in Product : moved[r][p].shop = 0
       \/ /\ call[r].kind # "full" /\ todo[r] = <<Forth(r)>>
          /\ \A p \in Product : moved[r][p].shop = Pieces(Back(r), p)
  /\ pc[r] \in {"refund", "return"} =>
       /\ call[r].kind = "full" => todo[r] = <<Back(r)>>
       /\ \A p \in Product : moved[r][p].shop = Gives(r, p)

Carrying(r) == pc[r] \in Found /\ Kind(call[r].item.of, "sale") => Moving(r)

\* The whole of the sale, and what the return takes off the debt as a multiple of 1/total.
WholeOf(r) == TotalAmount(call[r].sale, sale[r])
OffOf(r) == DebtRefund(sale[r].owed, Head(todo[r]), WholeOf(r))

Recorded(r) ==
  pc[r] = "return" =>
    /\ r \in Locked(r)
    /\ \E safe \in SUBSET SafeEntry :
         draft[r][r] =
           ReturnOf(r, safe, IF call[r].kind = "full" THEN Rounded(OffOf(r), WholeOf(r)) ELSE 0)
    /\ call[r].kind = "full" => WholeOf(r) \in Nat \ {0} /\ OffOf(r) \in Nat

Refunding(r) == pc[r] = "return" /\ call[r].kind = "full"

Forgiven(r) ==
  \A c \in Client :
    IF c \in Locked(r)
      THEN /\ Refunding(r) /\ c = sale[r].client /\ OffOf(r) > 0
           /\ draft[r][c] = [table[c] EXCEPT !.debt = TakenOff(@, OffOf(r), WholeOf(r))]
      ELSE Refunding(r) /\ c = sale[r].client /\ table[c].live => OffOf(r) = 0

Account(r) == Fetched(r) /\ Carrying(r) /\ Recorded(r) /\ Forgiven(r)

-----------------------------------------------------------------------------
(* A step of a return and its own account.                                 *)

(* A handler that returns has no account.                                  *)
LEMMA NoAccount ==
  ASSUME NEW r \in Req, pc'[r] \in {"sale", "ok", "failed"}, Locked(r)' = {}
  PROVE  Account(r)'
<1>1. Fetched(r)' /\ Carrying(r)' /\ Recorded(r)' /\ ~Refunding(r)'
  BY DEF Fetched, Carrying, Found, Recorded, Refunding
<1> QED
  BY <1>1 DEF Account, Forgiven

(* An update of one product adds to what r has moved of it.                *)
LEMMA UpdateMoves ==
  ASSUME Typed, NEW r \in Req, product[r] \in ProductRow, NEW p \in Product, NEW n \in Int,
         UpdateStock(r, p, n, product[r].warehouse)
  PROVE  \A x \in Product :
           /\ moved[r][x].shop \in Int
           /\ moved'[r][x].shop = moved[r][x].shop + IF x = p THEN n - product[r].shop ELSE 0
<1>1. PICK m : m = [shop |-> moved[r][p].shop + n - product[r].shop,
                    warehouse |-> moved[r][p].warehouse + product[r].warehouse
                                  - product[r].warehouse]
  OBVIOUS
<1>2. moved' = [moved EXCEPT ![r] = [moved[r] EXCEPT ![p] = m]]
  BY <1>1 DEF UpdateStock
<1>3. moved[r] \in [Product -> Movement] /\ moved \in [Req -> [Product -> Movement]]
  BY DEF Typed
<1>4. moved'[r] = [moved[r] EXCEPT ![p] = m]
  BY <1>2, <1>3
<1>5. moved'[r][p] = m /\ \A x \in Product \ {p} : moved'[r][x] = moved[r][x]
  BY <1>3, <1>4
<1>6. product[r].shop \in Int /\ \A x \in Product : moved[r][x].shop \in Int
  BY <1>3 DEF Movement, ProductRow
<1>7. m.shop = moved[r][p].shop + (n - product[r].shop)
  BY <1>1, <1>6
<1> QED
  BY <1>5, <1>6, <1>7

(* Between its guards and its commit a return is where it was: the rows    *)
(* are, and so is the item it has found.                                   *)
LEMMA SameItem ==
  ASSUME NEW r, table' = table, call'[r] = call[r]
  PROVE  /\ OldOf(r)' = OldOf(r) /\ Back(r)' = Back(r) /\ Forth(r)' = Forth(r)
         /\ \A p : Gives(r, p)' = Gives(r, p)
         /\ Kind(call[r].item.of, "sale")' = Kind(call[r].item.of, "sale")
         /\ Kind(call[r].sale, "sale")' = Kind(call[r].sale, "sale")
BY DEF OldOf, Back, Forth, Gives, Kind, KindIn

LEMMA FetchedStays ==
  ASSUME ReturnsInv, NEW r \in Req, Act(r), ReturnControl(r), Fetched(r),
         pc[r] \in {"item", "returned", "lock", "write", "refund", "return"},
         table' = table, call'[r] = call[r], sale'[r] = sale[r]
  PROVE  Fetched(r)'
<1>1. call[r].sale \in Id
  BY RequestType DEF ReturnControl
<1>2. Existed(call[r].sale)'
  <2>1. PICK x \in Id : x = call[r].sale
    BY <1>1
  <2>2. Existed(x)'
    BY <2>1, NameStays DEF Fetched
  <2> QED
    BY <2>1, <2>2
<1> QED
  BY <1>2, SameItem DEF Fetched

(* What a return reads before its transaction.                             *)
LEMMA ReadsAccount ==
  ASSUME ReturnsInv, Filed, NEW r \in Req, Act(r), Returning(r), ReturnControl(r), Account(r),
         Reads(r)
  PROVE  Account(r)'
<1> USE DEF ReturnsInv
<1>1. /\ UNCHANGED <<db, goods, call, shift, totals>>
      /\ table' = table /\ draft' = draft /\ moved' = moved /\ call'[r] = call[r]
      /\ pc[r] \in {"sale", "item", "returned"} /\ pc'[r] \in {"item", "returned", "lock"}
  BY ReadsEffect DEF Typed, db, goods
<1>2. draft[r] = NoDraft /\ Locked(r) = {} /\ Locked(r)' = {}
  BY <1>1 DEF ReturnControl, Locked, NoDraft
<1>3. Recorded(r)' /\ Forgiven(r)'
  BY <1>1, <1>2 DEF Recorded, Forgiven, Refunding
<1>4. PICK y \in Id, i \in Id : y = call[r].sale /\ i = call[r].item.of
  BY RequestType DEF ReturnControl
<1>5. CASE GetReturnedSale(r)
  <2>1. Kind(y, "sale") /\ pc'[r] = "item" /\ sale'[r] = table[y]
    BY <1>4, <1>5 DEF GetReturnedSale, Reads, Goto, Typed
  <2>2. table[y] \in SaleRow /\ Existed(y)
    BY <2>1, KindType DEF Typed, Filed, Unborn, Existed, Kind, KindIn, Id
  <2>3. Existed(y)'
    BY <2>2, NameStays
  <2>4. Fetched(r)'
    BY <1>1, <1>4, <2>1, <2>2, <2>3 DEF Fetched
  <2>5. Carrying(r)'
    BY <2>1 DEF Carrying, Found
  <2> QED
    BY <1>3, <2>4, <2>5 DEF Account
<1>6. CASE GetSaleItem(r)
  <2>1. /\ pc[r] = "item" /\ pc'[r] = "returned" /\ sale' = sale
        /\ todo'[r] = <<table[i].items[call[r].item.index]>>
    BY <1>4, <1>6 DEF GetSaleItem, Reads, Goto, Typed
  <2>2. Fetched(r)'
    BY <1>1, <2>1, FetchedStays DEF Account
  <2>3. Head(todo'[r]).product = OldOf(r)
    BY <1>4, <2>1 DEF OldOf
  <2>4. Carrying(r)'
    BY <1>1, <2>1, <2>3, SameItem DEF Carrying, Moving
  <2> QED
    BY <1>3, <2>2, <2>4 DEF Account
<1>7. CASE CheckReturned(r)
  <2>1. /\ pc[r] = "returned" /\ pc'[r] = "lock" /\ sale' = sale
        /\ todo'[r] = Moves(r)
    BY <1>7 DEF CheckReturned, Reads, Goto, Typed
  <2>2. Fetched(r)'
    BY <1>1, <2>1, FetchedStays DEF Account
  <2>3. \A p \in Product : moved[r][p].shop = 0
    BY <1>2, <2>1 DEF Ledger, NoMove
  <2>4. Kind(i, "sale") =>
          todo'[r] = IF call[r].kind = "full" THEN <<Back(r)>> ELSE <<Back(r), Forth(r)>>
    BY <1>4, <2>1 DEF Account, Carrying, Moving, Found, Moves, Back, Forth
  <2>5. Carrying(r)'
    BY <1>1, <1>4, <2>1, <2>3, <2>4, SameItem DEF Carrying, Moving
  <2> QED
    BY <1>3, <2>2, <2>5 DEF Account
<1> QED
  BY <1>5, <1>6, <1>7 DEF Reads

(* The lock of a product.                                                  *)
LEMMA LockAccount ==
  ASSUME ReturnsInv, NEW r \in Req, Act(r), Returning(r), ReturnControl(r), Account(r),
         LockItem(r), ~Refuse(r)
  PROVE  Account(r)'
<1> USE DEF ReturnsInv
<1> DEFINE p == Head(todo[r]).product
<1>1. /\ pc[r] = "lock" /\ pc'[r] = "write" /\ GetByIDForUpdate(r, p)
      /\ moved' = moved /\ call' = call /\ sale' = sale /\ todo' = todo
  BY DEF LockItem, Goto, Typed, locals
<1>2. table' = table /\ Locked(r)' = Locked(r) \cup {p} /\ p \in Product
  BY <1>1, LockRowEffect, TodoType DEF GetByIDForUpdate, Typed, ReturnControl, Holding
<1>3. Fetched(r)'
  BY <1>1, <1>2, FetchedStays DEF Account
<1>4. Carrying(r)'
  BY <1>1, <1>2, SameItem DEF Account, Carrying, Moving, Found
<1>5. Recorded(r)'
  BY <1>1 DEF Recorded
<1>6. Forgiven(r)'
  <2>1. \A c \in Client : c \notin Locked(r)'
    BY <1>1, <1>2, NamesAssumption DEF Account, Forgiven, Refunding
  <2> QED
    BY <1>1, <2>1 DEF Forgiven, Refunding
<1> QED
  BY <1>3, <1>4, <1>5, <1>6 DEF Account

(* The two updates of a product: the first brings the item back, the       *)
(* second takes the new product of an exchange.                            *)
LEMMA UpdatesAccount ==
  ASSUME ReturnsInv, NEW r \in Req, Act(r), Returning(r), ReturnControl(r), Account(r), Updates(r)
  PROVE  Account(r)'
<1> USE DEF ReturnsInv
<1> DEFINE p == Head(todo[r]).product
<1>1. /\ pc[r] = "write" /\ product[r] \in ProductRow /\ p \in Product /\ todo[r] \in Seq(Item)
      /\ call' = call /\ sale' = sale /\ pc'[r] \in {"refund", "lock"}
  BY UpdatesEffect DEF Typed
<1>2. PICK n \in Nat : UpdateStock(r, p, n, product[r].warehouse)
  BY UpdatesEffect
<1>3. table' = table /\ Locked(r)' = Locked(r)
  BY <1>1, <1>2, UpdateStockEffect DEF ReturnControl
<1>4. Fetched(r)'
  BY <1>1, <1>3, FetchedStays DEF Account
<1>5. Recorded(r)'
  BY <1>1 DEF Recorded
<1>6. Forgiven(r)'
  BY <1>1, <1>3 DEF Account, Forgiven, Refunding
<1>7. \A x \in Product :
        /\ moved[r][x].shop \in Int
        /\ moved'[r][x].shop = moved[r][x].shop + IF x = p THEN n - product[r].shop ELSE 0
  BY <1>1, <1>2, UpdateMoves
<1>8. PICK back, forth : back = Back(r) /\ forth = Forth(r)
  OBVIOUS
<1>9. /\ back.product = OldOf(r) /\ back.quantity = call[r].quantity
      /\ forth.product = call[r].new /\ forth.quantity = call[r].quantity
      /\ call[r].quantity \in Nat
      /\ call[r].kind = "full" => forth.product \notin Product
  BY <1>8, RequestType, NamesAssumption DEF Back, Forth, ReturnControl, Row
<1>10. product[r].shop \in Int /\ Head(todo[r]).quantity \in Int
  BY <1>1, TodoType DEF ProductRow, Holding, ReturnControl
<1>11. \A a, b : Len(<<a, b>>) = 2 /\ Len(<<a>>) = 1 /\ Head(<<a>>) = a /\ Head(<<a, b>>) = a
                 /\ Tail(<<a, b>>) = <<b>>
  OBVIOUS
<1> DEFINE first == /\ todo[r] = IF call[r].kind = "full" THEN <<back>> ELSE <<back, forth>>
                    /\ \A x \in Product : moved[r][x].shop = 0
           second == /\ call[r].kind # "full" /\ todo[r] = <<forth>>
                     /\ \A x \in Product : moved[r][x].shop = Pieces(back, x)
<1>12. Kind(call[r].item.of, "sale") => first \/ second
  BY <1>1, <1>8 DEF Account, Carrying, Moving, Found
<1>13. CASE GiveBack(r)
  <2>1. /\ ComesBack(r) /\ UpdateStock(r, p, product[r].shop + Head(todo[r]).quantity,
                                       product[r].warehouse)
        /\ IF call[r].kind = "full" THEN pc'[r] = "refund" /\ todo'[r] = todo[r]
           ELSE pc'[r] = "lock" /\ todo'[r] = Tail(todo[r])
    BY <1>13 DEF GiveBack, Goto, Typed
  <2>2. product[r].shop + Head(todo[r]).quantity \in Int
    BY <1>10
  <2>3. \A x \in Product :
          moved'[r][x].shop = moved[r][x].shop + IF x = p THEN Head(todo[r]).quantity ELSE 0
    <3>1. \A x \in Product :
            moved'[r][x].shop = moved[r][x].shop +
              IF x = p THEN (product[r].shop + Head(todo[r]).quantity) - product[r].shop ELSE 0
      BY <1>1, <2>1, <2>2, UpdateMoves
    <3> QED
      BY <1>10, <3>1
  <2>4. ASSUME Kind(call[r].item.of, "sale")
        PROVE  /\ todo[r] = IF call[r].kind = "full" THEN <<back>> ELSE <<back, forth>>
               /\ \A x \in Product : moved'[r][x].shop = Pieces(back, x)
    <3>1. first
      BY <1>11, <1>12, <2>1, <2>4 DEF ComesBack
    <3>2. Head(todo[r]) = back
      BY <1>11, <3>1
    <3> QED
      BY <1>9, <2>3, <3>1, <3>2 DEF Pieces
  <2>5. call[r].kind = "full" =>
          \A x \in Product : Pieces(back, x) = Pieces(back, x) - Pieces(forth, x)
    BY <1>9 DEF Pieces
  <2>6. Carrying(r)'
    <3> SUFFICES ASSUME Kind(call[r].item.of, "sale") PROVE Moving(r)'
      BY <1>1, <1>3, SameItem DEF Carrying
    <3>1. CASE call[r].kind = "full"
      <4>1. pc'[r] = "refund" /\ todo'[r] = <<Back(r)>>
        BY <1>8, <2>1, <2>4, <3>1
      <4>2. \A x \in Product : moved'[r][x].shop = Gives(r, x)
        BY <1>8, <2>4, <2>5, <3>1 DEF Gives
      <4>3. Back(r)' = Back(r) /\ \A x : Gives(r, x)' = Gives(r, x)
        BY <1>1, <1>3, SameItem
      <4> QED
        BY <4>1, <4>2, <4>3 DEF Moving
    <3>2. CASE call[r].kind # "full"
      <4>1. pc'[r] = "lock" /\ todo'[r] = <<Forth(r)>> /\ call'[r].kind # "full"
        <5>1. todo[r] = <<back, forth>> /\ todo'[r] = Tail(todo[r]) /\ pc'[r] = "lock"
          BY <2>1, <2>4, <3>2
        <5>2. Tail(<<back, forth>>) = <<forth>>
          BY <1>11
        <5> QED
          BY <1>1, <1>8, <3>2, <5>1, <5>2
      <4>2. \A x \in Product : moved'[r][x].shop = Pieces(Back(r), x)
        BY <1>8, <2>4
      <4>3. Back(r)' = Back(r) /\ Forth(r)' = Forth(r)
        BY <1>1, <1>3, SameItem
      <4> QED
        BY <4>1, <4>2, <4>3 DEF Moving
    <3> QED
      BY <3>1, <3>2
  <2> QED
    BY <1>4, <1>5, <1>6, <2>6 DEF Account
<1>14. CASE TakeNew(r)
  <2>1. /\ ~ComesBack(r) /\ UpdateStock(r, p, product[r].shop - Head(todo[r]).quantity,
                                        product[r].warehouse)
        /\ pc'[r] = "refund"
    BY <1>14 DEF TakeNew, Updates, Goto, Typed
  <2>2. product[r].shop - Head(todo[r]).quantity \in Int
    BY <1>10
  <2>3. \A x \in Product :
          moved'[r][x].shop = moved[r][x].shop - IF x = p THEN Head(todo[r]).quantity ELSE 0
    <3>1. \A x \in Product :
            moved'[r][x].shop = moved[r][x].shop +
              IF x = p THEN (product[r].shop - Head(todo[r]).quantity) - product[r].shop ELSE 0
      BY <1>1, <2>1, <2>2, UpdateMoves
    <3> QED
      BY <1>7, <1>10, <3>1
  <2>4. ASSUME Kind(call[r].item.of, "sale")
        PROVE  \A x \in Product : moved'[r][x].shop = Pieces(back, x) - Pieces(forth, x)
    <3>1. second
      BY <1>11, <1>12, <2>1, <2>4 DEF ComesBack
    <3>2. Head(todo[r]) = forth
      BY <1>11, <3>1
    <3> QED
      BY <1>9, <2>3, <3>1, <3>2 DEF Pieces
  <2>5. Carrying(r)'
    <3> SUFFICES ASSUME Kind(call[r].item.of, "sale") PROVE Moving(r)'
      BY <1>1, <1>3, SameItem DEF Carrying
    <3>1. call[r].kind # "full"
      BY <2>1 DEF ComesBack
    <3>2. \A x \in Product : moved'[r][x].shop = Gives(r, x)
      BY <1>8, <2>4 DEF Gives
    <3> QED
      BY <1>1, <1>3, <2>1, <3>1, <3>2, SameItem DEF Moving
  <2> QED
    BY <1>4, <1>5, <1>6, <2>5 DEF Account
<1> QED
  BY <1>13, <1>14 DEF Updates

(* The row that Refund inserts, and the client's.                          *)
LEMMA RefundAccount ==
  ASSUME ReturnsInv, NEW r \in Req, Act(r), Returning(r), ReturnControl(r), Account(r),
         Refund(r), ~Refuse(r)
  PROVE  Account(r)'
<1> USE DEF ReturnsInv
<1>1. /\ pc[r] = "refund" /\ pc'[r] = "return" /\ call' = call /\ sale' = sale /\ todo' = todo
      /\ moved' = moved
  BY RefundEffect DEF Typed, goods, locals
<1>2. PICK y \in Id : y = call[r].sale
  BY RequestType DEF ReturnControl
<1>3. sale[r] \in SaleRow /\ r \in Id
  BY <1>1, IdVersions DEF ReturnControl
<1>4. \A c \in Client : c \notin Locked(r)
  BY <1>1 DEF Account, Forgiven, Refunding
<1>5. PICK c : c = sale[r].client
  OBVIOUS
<1>6. c \in Client /\ c # r /\ Seen(r, c) = table[c] /\ sale[r].owed \in Nat
  BY <1>3, <1>4, <1>5, IdVersions DEF SaleRow, Seen
<1>7. PICK total, refund : total = WholeOf(r) /\ refund = OffOf(r)
  OBVIOUS
<1>8. /\ WholeOf(r)' = total /\ OffOf(r)' = refund
      /\ Refunding(r)' <=> call[r].kind = "full"
  BY <1>1, <1>7 DEF WholeOf, OffOf, Refunding
<1>9. total \in Int
  BY <1>2, <1>3, <1>7, TotalType DEF WholeOf
<1>10. ASSUME table' = table PROVE Fetched(r)' /\ Carrying(r)'
  <2>1. Fetched(r)'
    BY <1>1, <1>10, FetchedStays DEF Account
  <2>2. Carrying(r)'
    BY <1>1, <1>10, SameItem DEF Account, Carrying, Moving, Found
  <2> QED
    BY <2>1, <2>2
<1>11. ASSUME NEW safe \in SUBSET SafeEntry, NEW debt,
              Write(r, [x \in {r} |-> ReturnOf(r, safe, debt)]),
              debt = IF call[r].kind = "full" THEN Rounded(refund, total) ELSE 0,
              call[r].kind = "full" => total \in Nat \ {0} /\ refund \in Nat,
              call[r].kind = "full" /\ table[c].live => refund = 0
       PROVE  Account(r)'
  <2>1. PICK new : new = [x \in {r} |-> ReturnOf(r, safe, debt)]
    OBVIOUS
  <2>2. /\ table' = table /\ Locked(r)' = Locked(r) \cup {r}
        /\ draft'[r][r] = ReturnOf(r, safe, debt)
    <3>1. Write(r, new) /\ DOMAIN new = {r} /\ new[r] = ReturnOf(r, safe, debt)
      BY <1>11, <2>1
    <3> QED
      BY <3>1, WriteEffect DEF Typed
  <2>3. ReturnOf(r, safe, debt)' = ReturnOf(r, safe, debt)
    BY <1>1 DEF ReturnOf
  <2>4. Recorded(r)'
    BY <1>1, <1>8, <1>11, <2>2 DEF Recorded, ReturnOf
  <2>5. Forgiven(r)'
    <3>1. \A d \in Client : d \notin Locked(r)'
      BY <1>4, <2>2, IdVersions
    <3>2. sale'[r].client = c
      BY <1>1, <1>5
    <3>3. ASSUME Refunding(r)', table'[c].live PROVE OffOf(r)' = 0
      BY <1>8, <1>11, <2>2, <3>3
    <3> QED
      BY <3>1, <3>2, <3>3 DEF Forgiven
  <2> QED
    BY <1>10, <2>2, <2>4, <2>5 DEF Account
<1>12. CASE call[r].kind # "full"
  <2>1. PICK safe \in SUBSET SafeEntry : Write(r, [x \in {r} |-> ReturnOf(r, safe, 0)])
    BY <1>12 DEF Refund, Expense, SafeEntry
  <2> QED
    BY <1>11, <1>12, <2>1
<1>13. CASE call[r].kind = "full"
  <2>0. PICK safe : safe = Expense(PaidBack(r))
    OBVIOUS
  <2>1. RefundDebt(r, safe) /\ total > 0
    BY <1>7, <1>13, <2>0 DEF Refund, WholeOf
  <2>2. safe \in SUBSET SafeEntry
    BY <2>0 DEF Expense, PaidBack, SafeEntry
  <2>3. total \in Nat \ {0}
    BY <1>9, <2>1
  <2>4. refund \in Nat
    <3>1. todo[r] # <<>>
      BY <1>1, <1>13 DEF ReturnControl
    <3>2. Head(todo[r]) \in Item
      BY <3>1, TodoType
    <3> QED
      BY <1>6, <1>7, <3>2, SubtotalType, TimesType DEF OffOf, DebtRefund
  <2>5. CASE ~(refund > 0 /\ table[c].live)
    <3>1. Write(r, [x \in {r} |-> ReturnOf(r, safe, Rounded(refund, total))])
      BY <1>5, <1>6, <1>7, <2>1, <2>5 DEF RefundDebt, OffOf, WholeOf
    <3>2. table[c].live => refund = 0
      BY <2>4, <2>5
    <3> QED
      BY <1>11, <1>13, <2>2, <2>3, <2>4, <3>1, <3>2
  <2>6. CASE refund > 0 /\ table[c].live
    <3>1. PICK row, client : /\ row = ReturnOf(r, safe, Rounded(refund, total))
                            /\ client = [table[c] EXCEPT !.debt = TakenOff(@, refund, total)]
      OBVIOUS
    <3>2. PICK new : new = [x \in {r, c} |-> IF x = r THEN row ELSE client]
      OBVIOUS
    <3>3. Write(r, new)
      BY <1>5, <1>6, <1>7, <2>1, <2>6, <3>1, <3>2 DEF RefundDebt, OffOf, WholeOf
    <3>4. /\ table' = table /\ Locked(r)' = Locked(r) \cup {r, c}
          /\ draft'[r][r] = row /\ draft'[r][c] = client
      <4>1. DOMAIN new = {r, c} /\ new[r] = row /\ new[c] = client
        BY <1>6, <3>2
      <4> QED
        BY <3>3, <4>1, WriteEffect DEF Typed
    <3>5. Recorded(r)'
      BY <1>1, <1>8, <1>13, <2>2, <2>3, <2>4, <3>1, <3>4 DEF Recorded, ReturnOf
    <3>6. Forgiven(r)'
      BY <1>1, <1>4, <1>5, <1>8, <1>13, <2>6, <3>1, <3>4, IdVersions DEF Forgiven
    <3> QED
      BY <1>10, <3>4, <3>5, <3>6 DEF Account
  <2> QED
    BY <2>5, <2>6
<1> QED
  BY <1>12, <1>13

(* Any step of a return, and its own account.                              *)
LEMMA AccountStep ==
  ASSUME ReturnsInv, Filed, NEW r \in Req, Act(r), Returning(r), ReturnControl(r), Account(r)
  PROVE  Account(r)'
<1>1. CASE Refuse(r)
  BY <1>1, RollbackEffect, NoAccount DEF Refuse, Leave, Goto, ReturnsInv, Typed
<1>2. CASE Commits(r)
  BY <1>2, CommitEffect, NoAccount DEF Commits, InsertReturn, Leave, Goto, ReturnsInv, Typed
<1> QED
  BY <1>1, <1>2, ReturnActs, ReturnCases, ReadsAccount, LockAccount, UpdatesAccount, RefundAccount

-----------------------------------------------------------------------------
(* A step of r and the account, or the books, of another request.          *)

LEMMA ReturnsSound ==
  ASSUME ReturnsInv, NEW r \in Req, ~Returning(r)
  PROVE  Sound(r)
BY DEF ReturnsInv, Conduct, Sound

\* What the invariant below says of r alone.
Reckoning(r) == IF Returning(r) THEN Account(r) ELSE Mine(r)

(* Of the steps of a return only its insert changes committed rows.        *)
LEMMA ReturnTable ==
  ASSUME ReturnsInv, NEW r \in Req, Act(r), Returning(r) \/ ReceiveReturn(r)
  PROVE  table' = table \/ (Commits(r) /\ Commit(r) /\ Returning(r))
<1>1. Returning(r) => pc[r] \notin {"open", "commit"}
  BY DEF ReturnsInv, Conduct, ReturnControl
<1>2. ReceiveReturn(r) => pc[r] = "idle"
  BY DEF ReceiveReturn
<1>3. /\ OpenShift(r) => pc[r] = "open"
      /\ CommitTx(r) => pc[r] = "commit"
      /\ Commits(r) => pc[r] = "return"
  BY DEF OpenShift, CommitTx, Commits, InsertReturn
<1> QED
  BY <1>1, <1>2, <1>3, TableMoves

(* The row a return inserts.                                               *)
LEMMA ReturnFiles ==
  ASSUME ReturnsInv, Filed, NEW r \in Req, Act(r), Returning(r), Account(r), Commits(r), Commit(r)
  PROVE  /\ r \in Id /\ table[r] = NoRow /\ table'[r] \in ReturnRow /\ Kind(r, "return")'
         /\ table'[r].sale = call[r].sale /\ table'[r].item = call[r].item
         /\ table'[r].quantity = call[r].quantity /\ table'[r].new = call[r].new
         /\ table'[r].debt = IF call[r].kind = "full" THEN Rounded(OffOf(r), WholeOf(r)) ELSE 0
<1> USE DEF ReturnsInv
<1>1. pc[r] = "return" /\ ReturnControl(r) /\ r \in Id /\ r \in Row
  BY IdVersions DEF Commits, InsertReturn, Conduct
<1>2. table[r] = NoRow
  BY <1>1, NamesAssumption DEF Filed, Unborn, Existed
<1>0. PICK debt : debt = IF call[r].kind = "full" THEN Rounded(OffOf(r), WholeOf(r)) ELSE 0
  OBVIOUS
<1>3. PICK safe \in SUBSET SafeEntry : draft[r][r] = ReturnOf(r, safe, debt)
  BY <1>0, <1>1 DEF Account, Recorded
<1>4. debt \in Nat
  <2>1. CASE call[r].kind = "full"
    <3>1. PICK t \in Nat \ {0}, o \in Nat : t = WholeOf(r) /\ o = OffOf(r)
      BY <1>1, <2>1 DEF Account, Recorded
    <3>2. o \in Int /\ o >= 0
      OBVIOUS
    <3> QED
      BY <1>0, <2>1, <3>1, <3>2, RoundedType
  <2> QED
    BY <1>0, <2>1
<1>5. table'[r] = ReturnOf(r, safe, debt)
  BY <1>1, <1>3, CommitEffect DEF Typed, Seen, Account, Recorded
<1>6. ReturnOf(r, safe, debt) \in ReturnRow
  BY <1>1, <1>4, ReturnOfType
<1>7. table'[r].kind = "return" /\ table'[r] # NoRow
  BY <1>5, <1>6, NamesAssumption DEF ReturnRow, PaperRow
<1> QED
  BY <1>0, <1>1, <1>2, <1>5, <1>6, <1>7 DEF ReturnOf, Kind, KindIn

(* What the insert of a return does to the clients.                        *)
LEMMA ReturnClients ==
  ASSUME ReturnsInv, NEW r \in Req, Account(r), Commit(r), NEW c \in Client
  PROVE  /\ c \notin Locked(r) => table'[c] = table[c]
         /\ c \in Locked(r) =>
              /\ Refunding(r) /\ c = sale[r].client
              /\ table'[c] = [table[c] EXCEPT !.debt = TakenOff(@, OffOf(r), WholeOf(r))]
<1>1. table'[c] = Seen(r, c)
  BY CommitEffect, VersionOf DEF ReturnsInv, Typed
<1> QED
  BY <1>1 DEF Seen, Account, Forgiven

LEMMA LiveStays ==
  ASSUME ReturnsInv, NEW r \in Req, Act(r), Reckoning(r), NEW c \in Client
  PROVE  table'[c].live = table[c].live
<1> USE DEF ReturnsInv
<1>1. table[c] \in ClientRow
  BY VersionOf DEF Typed, RowsOK, Rows
<1>2. CASE Returning(r) \/ ReceiveReturn(r)
  BY <1>1, <1>2, ReturnTable, ReturnClients DEF Reckoning, ClientRow
<1>3. CASE ~Returning(r) /\ ~ReceiveReturn(r)
  BY <1>3, ActCases, ReturnsSound, ClientsKept DEF Reckoning
<1> QED
  BY <1>2, <1>3

(* A sale that has existed stays what it is for as long as it exists.      *)
LEMMA SaleStays ==
  ASSUME ReturnsInv, Filed, NEW r \in Req, Act(r), NEW x \in Id, Existed(x), Kind(x, "sale")'
  PROVE  table'[x] = table[x] /\ Kind(x, "sale")
<1>1. table'[x] = table[x]
  BY NameStays, PapersChange DEF Kind, KindIn
<1> QED
  BY <1>1 DEF Kind, KindIn

LEMMA AccountKept ==
  ASSUME ReturnsInv, Filed, NEW r \in Req, Act(r), Reckoning(r), NEW q \in Req \ {r},
         Returning(q), Account(q)
  PROVE  Account(q)'
<1> USE DEF ReturnsInv
<1>1. /\ pc'[q] = pc[q] /\ call'[q] = call[q] /\ sale'[q] = sale[q] /\ todo'[q] = todo[q]
      /\ moved'[q] = moved[q] /\ draft'[q] = draft[q] /\ Locked(q)' = Locked(q)
  BY ActIsLocal DEF Own, Locked
<1>2. PICK y \in Id, x \in Id : y = call[q].sale /\ x = call[q].item.of
  BY RequestType DEF Conduct, ReturnControl
<1>3. Fetched(q)'
  <2> SUFFICES ASSUME pc[q] \in {"item", "returned", "lock", "write", "refund", "return"}
               PROVE  sale'[q] \in SaleRow /\ Existed(y)'
                      /\ (Kind(y, "sale")' => table'[y] = sale'[q])
    BY <1>1, <1>2 DEF Fetched
  <2>1. /\ sale[q] \in SaleRow /\ Existed(y)
        /\ Kind(y, "sale") => table[y] = sale[q]
    BY <1>2 DEF Account, Fetched
  <2> QED
    BY <1>1, <2>1, NameStays, SaleStays
<1>4. Carrying(q)'
  <2> SUFFICES ASSUME pc[q] \in Found, Kind(x, "sale")' PROVE Moving(q)'
    BY <1>1, <1>2 DEF Carrying
  <2>1. Existed(x)
    BY <1>2 DEF Filed, Placed
  <2>2. table'[x] = table[x] /\ Kind(x, "sale")
    BY <2>1, SaleStays
  <2>3. OldOf(q)' = OldOf(q)
    BY <1>1, <1>2, <2>2 DEF OldOf
  <2>4. Back(q)' = Back(q) /\ Forth(q)' = Forth(q)
    BY <1>1, <2>3 DEF Back, Forth
  <2>5. \A p : Gives(q, p)' = Gives(q, p)
    BY <2>4 DEF Gives
  <2>6. Moving(q)
    BY <1>2, <2>2 DEF Account, Carrying
  <2> QED
    BY <1>1, <2>3, <2>4, <2>5, <2>6 DEF Moving
<1>5. WholeOf(q)' = WholeOf(q) /\ OffOf(q)' = OffOf(q) /\ Refunding(q)' = Refunding(q)
  BY <1>1 DEF WholeOf, OffOf, Refunding
<1>6. Recorded(q)'
  BY <1>1, <1>5 DEF Account, Recorded, ReturnOf
<1>7. Forgiven(q)'
  <2>1. \A c \in Client : table'[c].live = table[c].live
    BY LiveStays
  <2>2. \A c \in Client \cap Locked(q) : table'[c] = table[c]
    BY LockedStay, VersionOf
  <2> QED
    BY <1>1, <1>5, <2>1, <2>2 DEF Account, Forgiven
<1> QED
  BY <1>3, <1>4, <1>6, <1>7 DEF Account

LEMMA GoneRemains ==
  ASSUME ReturnsInv, NEW r \in Req, Act(r), NEW q \in Req \ {r}, Gone(q)
  PROVE  Gone(q)'
<1>1. PICK w \in Req \ {q} : pc[w] = "ok" /\ call[w] = call[q]
  BY DEF Gone
<1>2. w # r
  BY <1>1, NotDone
<1>3. pc'[w] = "ok" /\ call'[w] = call[w] /\ call'[q] = call[q]
  BY <1>1, <1>2, ActIsLocal DEF Own
<1> QED
  BY <1>1, <1>3 DEF Gone

(* Nor does a return touch what the books of another request are about.    *)
LEMMA ReturnSpares ==
  ASSUME ReturnsInv, Filed, NEW r \in Req, Act(r), Returning(r) \/ ReceiveReturn(r),
         Reckoning(r), NEW q \in Req \ {r}, Mine(q)
  PROVE  Spares(q)
<1> USE DEF ReturnsInv
<1>1. Own(q)' = Own(q) /\ (Gone(q) => Gone(q)')
  BY ActIsLocal, GoneRemains
<1>2. ASSUME NEW x \in Id, table'[x] # table[x]
      PROVE  \/ x = r /\ ~Existed(x) /\ table[x] = NoRow
             \/ Kind(x, "shift") /\ Kind(x, "shift")'
  BY <1>2, ReturnTable, PapersChange
<1>3. ASSUME NEW x \in Id
      PROVE  /\ Existed(x) => Existed(x)'
             /\ Existed(x) /\ table[x] = NoRow => table'[x] = NoRow
             /\ Kind(x, "shift") => Kind(x, "shift")'
             /\ x \in Locked(q) /\ table[x] # NoRow => table'[x] = table[x]
  <2>1. Existed(x) => Existed(x)'
    BY NameStays
  <2>2. x \in Locked(q) => table'[x] = table[x]
    BY LockedStay, VersionOf
  <2> QED
    BY <1>2, <2>1, <2>2 DEF Kind, KindIn
<1>4. ASSUME NEW x \in Id, Deleting(q), x = call[q].sale, table[x] = sale[q],
             sale[q] \in SaleRow
      PROVE  table'[x] = sale[q]
  <2>1. table[x] # NoRow /\ table[x].kind = "sale"
    BY <1>4, NamesAssumption DEF SaleRow, PaperRow
  <2> QED
    BY <1>2, <1>4, <2>1 DEF Kind, KindIn
<1>5. \A c \in Client : /\ table'[c].live = table[c].live
                        /\ c \in Locked(q) => table'[c] = table[c]
  BY LiveStays, LockedStay, VersionOf
<1>6. Deleting(q) => sale[q] \in SaleRow
  BY DEF Mine, Deleted
<1> QED
  BY <1>1, <1>3, <1>4, <1>5, <1>6 DEF Spares

(* The account or the books of any request at a step of r.                 *)
LEMMA ReckoningStep ==
  ASSUME ReturnsInv, Filed, NEW r \in Req, Act(r), Reckoning(r), NEW q \in Req, Reckoning(q)
  PROVE  Reckoning(q)'
<1> USE DEF ReturnsInv
<1>1. CASE q # r /\ Returning(q)
  <2>1. Account(q)'
    BY <1>1, AccountKept DEF Reckoning
  <2>2. Returning(q)'
    BY <1>1, ActIsLocal DEF Own, Returning
  <2> QED
    BY <2>1, <2>2 DEF Reckoning
<1>2. CASE q # r /\ ~Returning(q)
  <2>1. Sound(q) /\ Mine(q) /\ Unborn
    BY <1>2, ReturnsSound DEF Reckoning, Filed
  <2>2. ~Returning(q)'
    BY <1>2, ActIsLocal DEF Own, Returning
  <2>3. CASE Returning(r) \/ ReceiveReturn(r)
    <3>1. Spares(q)
      BY <1>2, <2>1, <2>3, ReturnSpares
    <3> QED
      BY <2>1, <2>2, <3>1, BooksKept DEF Reckoning
  <2>4. CASE ~Returning(r) /\ ~ReceiveReturn(r)
    <3>1. Sound(r) /\ Mine(r) /\ (Receive(r) \/ Step(r) \/ Fail(r))
      BY <2>4, ActCases, ReturnsSound DEF Reckoning
    <3> QED
      BY <1>2, <2>1, <2>2, <3>1, OthersBooks DEF Reckoning
  <2> QED
    BY <2>3, <2>4
<1>3. CASE q = r /\ Returning(r)
  <2>1. ReturnControl(r) /\ Account(r)
    BY <1>3 DEF Conduct, Reckoning
  <2>2. Account(r)'
    BY <1>3, <2>1, AccountStep
  <2>3. Returning(r)'
    BY <1>3, <2>1, ReturnActs, ReturnKeepsCall DEF Returning
  <2> QED
    BY <1>3, <2>2, <2>3 DEF Reckoning
<1>4. CASE q = r /\ ReceiveReturn(r)
  <2>1. pc'[r] = "sale" /\ draft' = draft /\ draft[r] = NoDraft /\ Returning(r)'
    <3>1. Conduct(r)' /\ draft' = draft
      BY <1>4, ReceiveReturnConduct
    <3>2. pc[r] = "idle" /\ pc'[r] = "sale"
      BY <1>4 DEF ReceiveReturn, Goto, Typed
    <3> QED
      BY <3>1, <3>2 DEF Conduct, Quiet, Outside, Statement
  <2>2. Locked(r)' = {}
    BY <2>1 DEF Locked, NoDraft
  <2> QED
    BY <1>4, <2>1, <2>2, NoAccount DEF Reckoning
<1>5. CASE q = r /\ ~Returning(r) /\ ~ReceiveReturn(r)
  <2>1. Sound(r) /\ Mine(r) /\ Unborn /\ (Receive(r) \/ Step(r) \/ Fail(r))
    BY <1>5, ActCases, ReturnsSound DEF Reckoning, Filed
  <2>2. ~Returning(r)'
    BY <1>5, <2>1, SaleConduct
  <2> QED
    BY <1>5, <2>1, <2>2, OwnBooks DEF Reckoning
<1> QED
  BY <1>1, <1>2, <1>3, <1>4, <1>5

-----------------------------------------------------------------------------
(* Sums over the returns.                                                  *)

\* What the row of y adds to the pieces of p that have come back, and to what c is forgiven.
BackBy(t, y, p) ==
  IF y \in ReturnIds(t)
    THEN (IF ProductOf(t, y) = p THEN t[y].quantity ELSE 0)
           - (IF t[y].new = p THEN t[y].quantity ELSE 0)
    ELSE 0
ForgivenBy(t, y, c) ==
  IF y \in ReturnIds(t) /\ t[t[y].sale].client = c THEN t[y].debt ELSE 0

ReturnsTyped(t) == \A y \in Id : KindIn(t, y, "return") => t[y] \in ReturnRow

LEMMA TableReturns ==
  ASSUME NEW t, Rows(t), DOMAIN t = Row
  PROVE  ReturnsTyped(t)
BY VersionOf DEF ReturnsTyped, KindIn, Rows, IdRow, PaperRow, ShiftRow, SaleRow, BookingRow,
                 ReturnRow

LEMMA TermTypes ==
  ASSUME NEW t, ReturnsTyped(t), NEW y \in Id, NEW a
  PROVE  BackBy(t, y, a) \in Int /\ ForgivenBy(t, y, a) \in Nat
<1>1. CASE y \in ReturnIds(t)
  <2>1. t[y].quantity \in Nat /\ t[y].debt \in Nat
    BY <1>1 DEF ReturnsTyped, ReturnIds, ReturnRow
  <2> QED
    BY <1>1, <2>1 DEF BackBy, ForgivenBy
<1>2. CASE y \notin ReturnIds(t)
  BY <1>2 DEF BackBy, ForgivenBy
<1> QED
  BY <1>1, <1>2

(* When what one row adds changes, the sums change by it.                  *)
LEMMA BackChanges ==
  ASSUME NEW t, NEW u, ReturnsTyped(t), ReturnsTyped(u), NEW x \in Id, NEW p,
         \A y \in Id \ {x} : BackBy(u, y, p) = BackBy(t, y, p)
  PROVE  /\ BackIn(t, p) \in Int
         /\ BackIn(u, p) = BackIn(t, p) - BackBy(t, x, p) + BackBy(u, x, p)
<1> DEFINE f == [y \in Id |-> BackBy(t, y, p)]
           h == [y \in Id |-> BackBy(u, y, p)]
<1>1. f \in [Id -> Int] /\ h \in [Id -> Int]
  BY TermTypes
<1>2. \A y \in Id \ {x} : h[y] = f[y]
  OBVIOUS
<1>3. BackIn(t, p) = SumFunction(f) /\ BackIn(u, p) = SumFunction(h)
  BY DEF BackIn, BackBy
<1>4. f[x] = BackBy(t, x, p) /\ h[x] = BackBy(u, x, p)
  OBVIOUS
<1> HIDE DEF f, h
<1>5. IsFiniteSet(Id)
  BY NamesAssumption
<1>6. SumFunction(h) = SumFunction(f) - f[x] + h[x] /\ SumFunction(f) \in Int
  BY <1>1, <1>2, <1>5, SumChange, FunctionSumInt
<1> QED
  BY <1>3, <1>4, <1>6

LEMMA ForgivenChanges ==
  ASSUME NEW t, NEW u, ReturnsTyped(t), ReturnsTyped(u), NEW x \in Id, NEW c,
         \A y \in Id \ {x} : ForgivenBy(u, y, c) = ForgivenBy(t, y, c)
  PROVE  /\ ForgivenIn(t, c) \in Int
         /\ ForgivenIn(u, c) = ForgivenIn(t, c) - ForgivenBy(t, x, c) + ForgivenBy(u, x, c)
<1> DEFINE f == [y \in Id |-> ForgivenBy(t, y, c)]
           h == [y \in Id |-> ForgivenBy(u, y, c)]
<1>1. f \in [Id -> Int] /\ h \in [Id -> Int]
  <2>1. \A y \in Id : ForgivenBy(t, y, c) \in Int /\ ForgivenBy(u, y, c) \in Int
    BY TermTypes
  <2> QED
    BY <2>1
<1>2. \A y \in Id \ {x} : h[y] = f[y]
  OBVIOUS
<1>3. ForgivenIn(t, c) = SumFunction(f) /\ ForgivenIn(u, c) = SumFunction(h)
  BY DEF ForgivenIn, ForgivenBy
<1>4. f[x] = ForgivenBy(t, x, c) /\ h[x] = ForgivenBy(u, x, c)
  OBVIOUS
<1> HIDE DEF f, h
<1>5. IsFiniteSet(Id)
  BY NamesAssumption
<1>6. SumFunction(h) = SumFunction(f) - f[x] + h[x] /\ SumFunction(f) \in Int
  BY <1>1, <1>2, <1>5, SumChange, FunctionSumInt
<1> QED
  BY <1>3, <1>4, <1>6

(* The returns there are remain, and so do their sales and items.          *)
LEMMA ReturnsStay ==
  ASSUME ReturnsInv, Filed, NEW r \in Req, Act(r), NEW y \in ReturnIds(table)
  PROVE  /\ y \in ReturnIds(table') /\ table'[y] = table[y] /\ y # r
         /\ table'[table[y].sale] = table[table[y].sale]
         /\ table'[table[y].item.of] = table[table[y].item.of]
<1>1. y \in Id /\ Kind(y, "return")
  BY DEF ReturnIds, Kind
<1>2. table[y] # NoRow /\ table[y].kind = "return"
  BY <1>1 DEF Kind, KindIn
<1>3. table'[y] = table[y] /\ y # r
  <2>1. ~Kind(y, "sale") /\ ~Kind(y, "shift")
    BY <1>2 DEF Kind, KindIn
  <2>2. table[r] = NoRow
    BY NotDone, NamesAssumption DEF Existed, Filed, Unborn
  <2> QED
    BY <1>1, <1>2, <2>1, <2>2, PapersChange
<1>4. table[y].sale \in Id /\ table[y].item.of \in Id
  BY <1>1, ReturnKind DEF ReturnsInv, Typed
<1>5. Kind(table[y].sale, "sale") /\ Kind(table[y].item.of, "sale")
  BY <1>1 DEF Filed, ReturnsHaveItems, ReferencesIn, ItemExistsIn, Kind
<1>6. Referenced(table[y].sale) /\ Referenced(table[y].item.of)
  BY <1>1 DEF Referenced
<1>7. ASSUME NEW x \in Id, Referenced(x), Kind(x, "sale") PROVE table'[x] = table[x]
  <2>1. table[x] # NoRow /\ ~Kind(x, "shift")
    BY <1>7 DEF Kind, KindIn
  <2> QED
    BY <1>7, <2>1, PapersChange
<1>8. /\ table'[table[y].sale] = table[table[y].sale]
      /\ table'[table[y].item.of] = table[table[y].item.of]
  BY <1>4, <1>5, <1>6, <1>7
<1>9. y \in ReturnIds(table')
  BY <1>1, <1>2, <1>3 DEF ReturnIds, KindIn
<1> QED
  BY <1>3, <1>8, <1>9

(* Only the insert of a return adds one.                                   *)
LEMMA ReturnsNew ==
  ASSUME ReturnsInv, Filed, NEW r \in Req, Act(r), NEW y \in ReturnIds(table'),
         y \notin ReturnIds(table)
  PROVE  y = r /\ Commits(r)
<1>1. y \in Id /\ Kind(y, "return")' /\ ~Kind(y, "return")
  BY DEF ReturnIds, Kind
<1>2. table'[y] # NoRow /\ ~Kind(y, "shift")' /\ table'[y] # table[y]
  BY <1>1 DEF Kind, KindIn
<1> QED
  BY <1>1, <1>2, PapersChange

LEMMA TermsStay ==
  ASSUME ReturnsInv, Filed, NEW r \in Req, Act(r), NEW y \in Id, ~(y = r /\ Commits(r))
  PROVE  /\ \A p : BackBy(table', y, p) = BackBy(table, y, p)
         /\ \A c : ForgivenBy(table', y, c) = ForgivenBy(table, y, c)
         /\ \A c : y \in HalvesOf(c)' <=> y \in HalvesOf(c)
<1>1. CASE y \in ReturnIds(table)
  <2>1. /\ y \in ReturnIds(table') /\ table'[y] = table[y]
        /\ table'[table[y].sale] = table[table[y].sale]
        /\ table'[table[y].item.of] = table[table[y].item.of]
    BY <1>1, ReturnsStay
  <2>2. ProductOf(table', y) = ProductOf(table, y)
    BY <2>1 DEF ProductOf
  <2>3. /\ \A p : BackBy(table', y, p) = BackBy(table, y, p)
        /\ \A c : ForgivenBy(table', y, c) = ForgivenBy(table, y, c)
    BY <1>1, <2>1, <2>2 DEF BackBy, ForgivenBy
  <2>4. \A c : y \in HalvesOf(c)' <=> y \in HalvesOf(c)
    BY <1>1, <2>1, <2>2 DEF HalvesOf
  <2> QED
    BY <2>3, <2>4
<1>2. CASE y \notin ReturnIds(table)
  <2>1. y \notin ReturnIds(table')
    BY <1>2, ReturnsNew
  <2> QED
    BY <1>2, <2>1 DEF BackBy, ForgivenBy, HalvesOf
<1> QED
  BY <1>1, <1>2

(* The sums over the returns when r makes a step.                          *)
LEMMA ReturnSums ==
  ASSUME ReturnsInv, Typed', Filed, NEW r \in Req, Act(r), NEW p, NEW c
  PROVE  /\ BackIn(table, p) \in Int /\ ForgivenIn(table, c) \in Int
         /\ BackIn(table', p) =
              IF Commits(r) THEN BackIn(table, p) + BackBy(table', r, p) ELSE BackIn(table, p)
         /\ ForgivenIn(table', c) =
              IF Commits(r) THEN ForgivenIn(table, c) + ForgivenBy(table', r, c)
              ELSE ForgivenIn(table, c)
<1>1. ReturnsTyped(table) /\ ReturnsTyped(table') /\ r \in Id
  BY TableReturns, IdVersions DEF ReturnsInv, Typed, RowsOK
<1>2. r \notin ReturnIds(table)
  BY ReturnsStay
<1>3. BackBy(table, r, p) = 0 /\ ForgivenBy(table, r, c) = 0
  BY <1>2 DEF BackBy, ForgivenBy
<1>4. /\ \A y \in Id \ {r} : BackBy(table', y, p) = BackBy(table, y, p)
      /\ \A y \in Id \ {r} : ForgivenBy(table', y, c) = ForgivenBy(table, y, c)
  BY TermsStay
<1>5. ~Commits(r) => BackBy(table', r, p) = 0 /\ ForgivenBy(table', r, c) = 0
  BY <1>1, <1>3, TermsStay
<1>6. /\ BackIn(table, p) \in Int
      /\ BackIn(table', p) = BackIn(table, p) - BackBy(table, r, p) + BackBy(table', r, p)
  BY <1>1, <1>4, BackChanges
<1>7. /\ ForgivenIn(table, c) \in Int
      /\ ForgivenIn(table', c)
           = ForgivenIn(table, c) - ForgivenBy(table, r, c) + ForgivenBy(table', r, c)
  BY <1>1, <1>4, ForgivenChanges
<1>8. BackBy(table', r, p) \in Int /\ ForgivenBy(table', r, c) \in Int
  BY <1>1, TermTypes
<1> QED
  BY <1>3, <1>5, <1>6, <1>7, <1>8

LEMMA HalvesGrow ==
  ASSUME ReturnsInv, Filed, NEW r \in Req, Act(r), NEW c
  PROVE  /\ Cardinality(HalvesOf(c)) \in Nat /\ Cardinality(HalvesOf(c))' \in Nat
         /\ Cardinality(HalvesOf(c)) <= Cardinality(HalvesOf(c))'
         /\ (Commits(r) /\ r \in HalvesOf(c)') =>
              Cardinality(HalvesOf(c))' = Cardinality(HalvesOf(c)) + 1
<1>1. PICK S, T : S = HalvesOf(c) /\ T = HalvesOf(c)'
  OBVIOUS
<1>2. S \subseteq Id /\ T \subseteq Id /\ IsFiniteSet(Id)
  BY <1>1, NamesAssumption DEF HalvesOf, ReturnIds
<1>3. IsFiniteSet(S) /\ IsFiniteSet(T)
  BY <1>2, FS_Subset
<1>4. r \notin S
  BY <1>1, ReturnsStay DEF HalvesOf
<1>5. \A y \in Id \ {r} : y \in T <=> y \in S
  BY <1>1, TermsStay
<1>6. r \in T => T = S \cup {r}
  BY <1>2, <1>4, <1>5
<1>7. S \subseteq T
  BY <1>2, <1>4, <1>5
<1>8. Cardinality(S) \in Nat /\ Cardinality(T) \in Nat /\ Cardinality(S) <= Cardinality(T)
  BY <1>3, <1>7, FS_CardinalityType, FS_Subset
<1>9. r \in T => Cardinality(T) = Cardinality(S) + 1
  BY <1>3, <1>4, <1>6, FS_AddElement
<1> QED
  BY <1>1, <1>8, <1>9

(* The return that r inserts brings back what r has moved, and its sale    *)
(* and item are the ones that r has found.                                 *)
LEMMA InsertedReturn ==
  ASSUME ReturnsInv, Filed, NEW r \in Req, Act(r), Returning(r), Account(r), Commits(r), Commit(r)
  PROVE  /\ r \in ReturnIds(table')
         /\ sale[r] \in SaleRow /\ table'[call[r].sale] = sale[r]
         /\ ProductOf(table', r) = OldOf(r) /\ Moving(r)
         /\ \A p \in Product : moved[r][p].shop = Gives(r, p) /\ BackBy(table', r, p) = Gives(r, p)
<1> USE DEF ReturnsInv
<1>1. /\ pc[r] = "return" /\ call[r] \in ReturnBody
      /\ Kind(call[r].sale, "sale") /\ Kind(call[r].item.of, "sale")
  BY DEF Commits, InsertReturn, Referents, Conduct, ReturnControl
<1>2. PICK y \in Id, x \in Id : y = call[r].sale /\ x = call[r].item.of
  BY <1>1, RequestType
<1>3. table[y] = sale[r] /\ sale[r] \in SaleRow
  BY <1>1, <1>2 DEF Account, Fetched
<1>4. ASSUME NEW z \in Id, Kind(z, "sale") PROVE table'[z] = table[z]
  <2>1. table[z] # NoRow /\ ~Kind(z, "shift") /\ z # r
    <3>1. table[r] = NoRow
      BY ReturnFiles
    <3> QED
      BY <1>4, <3>1 DEF Kind, KindIn
  <2> QED
    BY <1>4, <2>1, PapersChange
<1>5. table'[y] = sale[r] /\ table'[x] = table[x]
  BY <1>1, <1>2, <1>3, <1>4
<1>6. /\ r \in Id /\ Kind(r, "return")' /\ table'[r].item = call[r].item
      /\ table'[r].quantity = call[r].quantity /\ table'[r].new = call[r].new
  BY ReturnFiles
<1>7. r \in ReturnIds(table')
  BY <1>6 DEF ReturnIds, Kind
<1>8. ProductOf(table', r) = OldOf(r)
  BY <1>2, <1>5, <1>6 DEF ProductOf, OldOf
<1>9. Moving(r)
  BY <1>1 DEF Account, Carrying, Found
<1>10. \A p \in Product : moved[r][p].shop = Gives(r, p)
  BY <1>1, <1>9 DEF Moving
<1>11. \A p \in Product : BackBy(table', r, p) = Gives(r, p)
  BY <1>6, <1>7, <1>8 DEF BackBy, Gives, Pieces, Back, Forth
<1> QED
  BY <1>2, <1>3, <1>5, <1>7, <1>8, <1>9, <1>10, <1>11

(* The insert of a return changes no sum over the sales.                   *)
LEMMA SalesSame ==
  ASSUME ReturnsInv, Filed, NEW r \in Req, Act(r), Returning(r), Account(r), Commits(r), Commit(r),
         NEW a
  PROVE  SoldIn(table', a) = SoldIn(table, a) /\ OwedIn(table', a) = OwedIn(table, a)
<1>1. ~Kind(r, "sale") /\ ~Kind(r, "sale")'
  <2>1. table[r] = NoRow /\ Kind(r, "return")'
    BY ReturnFiles
  <2> QED
    BY <2>1 DEF Kind, KindIn
<1>2. \A x \in Id : Kind(x, "sale") => Kind(x, "sale")' /\ table'[x] = table[x]
  BY <1>1, PapersChange DEF Kind, KindIn
<1>3. \A x \in Id : Kind(x, "sale")' => Kind(x, "sale")
  BY <1>1, PapersChange DEF Kind, KindIn
<1>4. SaleIds(table') = SaleIds(table) /\ \A x \in SaleIds(table) : table'[x] = table[x]
  BY <1>2, <1>3 DEF SaleIds, Kind
<1> QED
  BY <1>4, SumsUnchanged

-----------------------------------------------------------------------------
(* Goods and debts against the sales and the returns.                      *)

LEMMA DeletedOnceEarlier ==
  ASSUME ReturnsInv, NEW r \in Req, Act(r), DeletedOnce'
  PROVE  DeletedOnce
<1>1. ASSUME NEW q \in Req, pc[q] = "ok" PROVE pc'[q] = "ok" /\ call'[q] = call[q]
  <2>1. q # r
    BY <1>1, NotDone
  <2> QED
    BY <1>1, <2>1, ActIsLocal DEF Own
<1> QED
  BY <1>1 DEF DeletedOnce

LEMMA ProductTerms ==
  ASSUME NEW t, Rows(t), DOMAIN t = Row, NEW p \in Product
  PROVE  t[p].shop \in Int /\ SoldIn(t, p) \in Int /\ BackIn(t, p) \in Int
<1>1. SalesTyped(t) /\ ReturnsTyped(t)
  BY TableTyped, TableReturns
<1>2. t[p] \in ProductRow
  BY VersionOf DEF Rows
<1>3. CASE Id = {}
  BY <1>2, <1>3, FunctionSumEmpty DEF SoldIn, BackIn, ProductRow
<1>4. CASE Id # {}
  BY <1>1, <1>2, <1>4, SoldChanges, BackChanges DEF ProductRow
<1> QED
  BY <1>3, <1>4

(* What comes back is on a return, what leaves in exchange too.            *)
LEMMA GoodsMove ==
  ASSUME ReturnsInv, Typed', Filed, NEW r \in Req, Act(r), Reckoning(r), DeletedOnce',
         NEW p \in Product
  PROVE  GoodsIn(table', p) = GoodsIn(table, p)
<1> USE DEF ReturnsInv
<1>1. table[p].shop \in Int /\ SoldIn(table, p) \in Int
  BY ProductTerms DEF Typed, RowsOK
<1>2. /\ BackIn(table, p) \in Int
      /\ BackIn(table', p) =
           IF Commits(r) THEN BackIn(table, p) + BackBy(table', r, p) ELSE BackIn(table, p)
  BY ReturnSums
<1>3. CASE ~Returning(r) /\ ~ReceiveReturn(r)
  <2>1. Sound(r) /\ Mine(r) /\ Unborn /\ (Receive(r) \/ Step(r) \/ Fail(r))
    BY <1>3, ActCases, ReturnsSound DEF Reckoning, Filed
  <2>2. table'[p].shop + SoldIn(table', p) = table[p].shop + SoldIn(table, p)
    BY <2>1, StockMoves
  <2>3. ~Commits(r)
    BY <1>3 DEF Conduct, Commits, InsertReturn, Statement
  <2>4. BackIn(table', p) = BackIn(table, p)
    BY <1>2, <2>3
  <2>5. table'[p].shop \in Int /\ SoldIn(table', p) \in Int
    BY ProductTerms DEF Typed, RowsOK
  <2> QED
    BY <1>1, <1>2, <2>2, <2>4, <2>5 DEF GoodsIn
<1>4. CASE Returning(r) \/ ReceiveReturn(r)
  <2>1. CASE table' = table
    BY <2>1
  <2>2. CASE Commits(r) /\ Commit(r) /\ Returning(r)
    <3>1. Account(r) /\ Ledger(r) /\ pc[r] # "ok"
      BY <2>2, NotDone DEF Reckoning
    <3>2. moved[r][p].shop \in Int /\ table'[p].shop = table[p].shop + moved[r][p].shop
      BY <2>2, <3>1, CommitShips
    <3>3. moved[r][p].shop = BackBy(table', r, p)
      BY <2>2, <3>1, InsertedReturn
    <3>4. SoldIn(table', p) = SoldIn(table, p)
      BY <2>2, <3>1, SalesSame
    <3> QED
      BY <1>1, <1>2, <2>2, <3>2, <3>3, <3>4 DEF GoodsIn
  <2> QED
    BY <1>4, <2>1, <2>2, ReturnTable
<1> QED
  BY <1>3, <1>4

LEMMA ClientTerms ==
  ASSUME NEW t, Rows(t), DOMAIN t = Row, NEW c \in Client
  PROVE  /\ t[c] \in ClientRow /\ t[c].debt \in Int
         /\ OwedIn(t, c) \in Int /\ ForgivenIn(t, c) \in Int
<1>1. SalesTyped(t) /\ ReturnsTyped(t)
  BY TableTyped, TableReturns
<1>2. t[c] \in ClientRow /\ t[c].debt \in Int
  <2>1. t[c] \in ClientRow
    BY VersionOf DEF Rows
  <2> QED
    BY <2>1 DEF ClientRow
<1>3. CASE Id = {}
  BY <1>2, <1>3, FunctionSumEmpty DEF OwedIn, ForgivenIn
<1>4. CASE Id # {}
  BY <1>1, <1>2, <1>4, OwedChanges, ForgivenChanges
<1> QED
  BY <1>3, <1>4

(* What a return is recorded to have taken off the debt of c has been      *)
(* taken off it, or one less when the refund was halfway.                  *)
LEMMA ReturnForgives ==
  ASSUME ReturnsInv, Filed, NEW r \in Req, Act(r), Returning(r), Account(r), Commits(r),
         Commit(r), NEW c \in Client, table[c].live
  PROVE  LET k == table'[c].debt + ForgivenBy(table', r, c) - table[c].debt
         IN k \in {0, 1} /\ (k = 1 => r \in HalvesOf(c)')
<1> USE DEF ReturnsInv
<1>1. /\ pc[r] = "return" /\ call[r].sale \in Id
  BY RequestType DEF Commits, InsertReturn, Conduct, ReturnControl
<1>2. /\ r \in Id /\ r \in ReturnIds(table') /\ Moving(r)
      /\ table'[r].sale = call[r].sale /\ table'[r].new = call[r].new
      /\ table'[r].quantity = call[r].quantity
      /\ table'[r].debt = IF call[r].kind = "full" THEN Rounded(OffOf(r), WholeOf(r)) ELSE 0
      /\ sale[r] \in SaleRow /\ table'[call[r].sale] = sale[r]
      /\ ProductOf(table', r) = OldOf(r)
  BY ReturnFiles, InsertedReturn
<1>3. table[c] \in ClientRow /\ table[c].debt \in Int
  BY ClientTerms DEF Typed, RowsOK
<1>4. ForgivenBy(table', r, c) = IF sale[r].client = c THEN table'[r].debt ELSE 0
  BY <1>2 DEF ForgivenBy
<1>5. /\ c \notin Locked(r) => table'[c] = table[c]
      /\ c \in Locked(r) =>
           /\ Refunding(r) /\ c = sale[r].client
           /\ table'[c] = [table[c] EXCEPT !.debt = TakenOff(@, OffOf(r), WholeOf(r))]
  BY ReturnClients
<1>6. CASE ~(Refunding(r) /\ c = sale[r].client)
  <2>1. table'[c] = table[c] /\ ForgivenBy(table', r, c) = 0
    BY <1>1, <1>2, <1>4, <1>5, <1>6 DEF Refunding
  <2> QED
    BY <1>3, <2>1
<1>7. CASE Refunding(r) /\ c = sale[r].client
  <2>1. PICK T \in Nat \ {0}, refund \in Nat : T = WholeOf(r) /\ refund = OffOf(r)
    BY <1>7 DEF Refunding, Account, Recorded
  <2>2. ForgivenBy(table', r, c) = Rounded(refund, T)
    BY <1>2, <1>4, <1>7, <2>1 DEF Refunding
  <2>3. CASE c \notin Locked(r)
    <3>1. refund = 0 /\ table'[c] = table[c]
      BY <1>5, <1>7, <2>1, <2>3 DEF Account, Forgiven
    <3>2. Rounded(0, T) = 0
      <4>1. 0 \in Int /\ 0 \in 0 .. T - 1 /\ 0 = T * 0 + 0 /\ 2 * 0 < T
        OBVIOUS
      <4>2. (2 * 0 + T) \div (2 * T) = 0
        BY <4>1, HalfIs
      <4> QED
        BY <4>2 DEF Rounded
    <3> QED
      BY <1>3, <2>2, <3>1, <3>2
  <2>4. CASE c \in Locked(r)
    <3>1. table'[c].debt = TakenOff(table[c].debt, refund, T)
      BY <1>3, <1>5, <2>1, <2>4 DEF ClientRow
    <3>2. PICK d \in Int : d = table[c].debt
      BY <1>3
    <3>3. /\ TakenOff(d, refund, T) \in Int /\ Rounded(refund, T) \in Nat
          /\ TakenOff(d, refund, T) + Rounded(refund, T) - d \in {0, 1}
          /\ TakenOff(d, refund, T) + Rounded(refund, T) - d = 1 => (2 * refund) % (2 * T) = T
      BY RefundRounds
    <3>4. ASSUME (2 * refund) % (2 * T) = T PROVE r \in HalvesOf(c)'
      <4>1. call[r].kind = "full" /\ call[r].new = NoRow /\ todo[r] = <<Back(r)>>
        BY <1>1, <1>2, <1>7, RequestType DEF Refunding, Conduct, ReturnControl, Moving
      <4>2. PICK item : item = Back(r)
        OBVIOUS
      <4>3. refund = sale[r].owed * Subtotal(item)
        BY <2>1, <4>1, <4>2 DEF OffOf, DebtRefund
      <4>4. [product |-> ProductOf(table', r), quantity |-> table'[r].quantity] = item
        BY <1>2, <4>2 DEF Back
      <4>5. item \in Item
        <5>1. Head(todo[r]) = item
          BY <4>1, <4>2
        <5>2. todo[r] \in Seq(Item)
          BY DEF Typed
        <5>3. todo[r] # <<>>
          BY <4>1
        <5> QED
          BY <5>1, <5>2, <5>3
      <4>6. sale[r].owed \in Nat /\ Subtotal(item) \in Nat
        BY <1>2, <4>5, SubtotalType DEF SaleRow
      <4>7. 2 * sale[r].owed * Subtotal(item) = 2 * refund
        BY <4>3, <4>6
      <4>8. TotalAmount(call[r].sale, sale[r]) = T
        BY <2>1 DEF WholeOf
      <4>9. (2 * sale[r].owed * Subtotal(item)) % (2 * T) = T
        BY <3>4, <4>7
      <4> QED
        BY <1>2, <1>7, <4>1, <4>4, <4>8, <4>9 DEF HalvesOf
    <3> QED
      BY <2>2, <3>1, <3>2, <3>3, <3>4
  <2> QED
    BY <2>3, <2>4
<1> QED
  BY <1>6, <1>7

LEMMA DebtMove ==
  ASSUME ReturnsInv, Typed', Filed, NEW r \in Req, Act(r), Reckoning(r), DeletedOnce',
         NEW c \in Client, table'[c].live
  PROVE  /\ table[c].live /\ DebtIn(table, c) \in Int
         /\ DebtIn(table', c) - DebtIn(table, c)
              \in 0 .. Cardinality(HalvesOf(c))' - Cardinality(HalvesOf(c))
<1> USE DEF ReturnsInv
<1>1. table[c].live
  BY LiveStays
<1>2. table[c].debt \in Int /\ OwedIn(table, c) \in Int
  BY ClientTerms DEF Typed, RowsOK
<1>3. /\ ForgivenIn(table, c) \in Int
      /\ ForgivenIn(table', c) =
           IF Commits(r) THEN ForgivenIn(table, c) + ForgivenBy(table', r, c)
           ELSE ForgivenIn(table, c)
  BY ReturnSums
<1>4. DebtIn(table, c) \in Int
  BY <1>2, <1>3 DEF DebtIn
<1>5. PICK m \in Nat, n \in Nat :
        /\ m = Cardinality(HalvesOf(c)) /\ n = Cardinality(HalvesOf(c))' /\ m <= n
        /\ Commits(r) /\ r \in HalvesOf(c)' => n = m + 1
  BY HalvesGrow
<1>6. CASE ~Returning(r) /\ ~ReceiveReturn(r)
  <2>1. Sound(r) /\ Mine(r) /\ Unborn /\ (Receive(r) \/ Step(r) \/ Fail(r))
    BY <1>6, ActCases, ReturnsSound DEF Reckoning, Filed
  <2>2. table'[c].debt - OwedIn(table', c) = table[c].debt - OwedIn(table, c)
    BY <2>1, DebtMoves
  <2>3. ~Commits(r)
    BY <1>6 DEF Conduct, Commits, InsertReturn, Statement
  <2>4. DebtIn(table', c) = DebtIn(table, c)
    BY <1>3, <2>2, <2>3 DEF DebtIn
  <2> QED
    BY <1>1, <1>4, <1>5, <2>4
<1>7. CASE table' = table
  BY <1>1, <1>4, <1>5, <1>7
<1>8. CASE Commits(r) /\ Commit(r) /\ Returning(r)
  <2>1. Account(r)
    BY <1>8 DEF Reckoning
  <2>2. PICK k : k = table'[c].debt + ForgivenBy(table', r, c) - table[c].debt
    OBVIOUS
  <2>3. k \in {0, 1} /\ (k = 1 => r \in HalvesOf(c)')
    BY <1>1, <1>8, <2>1, <2>2, ReturnForgives
  <2>4. OwedIn(table', c) = OwedIn(table, c)
    BY <1>8, <2>1, SalesSame
  <2>5. ForgivenBy(table', r, c) \in Int /\ table'[c].debt \in Int
    <3>1. Rows(table') /\ DOMAIN table' = Row
      BY DEF Typed, RowsOK
    <3>2. ReturnsTyped(table')
      BY <3>1, TableReturns
    <3>3. table'[c] \in ClientRow
      BY <3>1, VersionOf DEF Rows
    <3>4. ForgivenBy(table', r, c) \in Nat
      BY <3>2, IdVersions, TermTypes
    <3> QED
      BY <3>3, <3>4 DEF ClientRow
  <2>6. DebtIn(table', c) = DebtIn(table, c) + k
    BY <1>2, <1>3, <1>8, <2>2, <2>4, <2>5 DEF DebtIn
  <2> QED
    BY <1>1, <1>4, <1>5, <1>8, <2>3, <2>6
<1> QED
  BY <1>6, <1>7, <1>8, ReturnTable

-----------------------------------------------------------------------------
(* The sums as an invariant: each request keeps its own reckoning, and the *)
(* goods and the debts add up.                                             *)
Reconciled ==
  /\ \A r \in Req : Reckoning(r)
  /\ GoodsReconcile
  /\ DebtsReconcile

LEMMA ReconciledInit == Init => Reconciled
<1> SUFFICES ASSUME Init PROVE Reconciled
  OBVIOUS
<1>1. table = InitRow /\ Rows(InitRow) /\ DOMAIN InitRow = Row
  BY InitRowAssumption DEF Init
<1>2. ASSUME NEW r \in Req PROVE Reckoning(r)
  <2>1. /\ pc[r] = "idle" /\ call[r] = NoCall /\ shift[r] = NoRow /\ todo[r] = <<>>
        /\ Locked(r) = {}
    BY <1>2 DEF Init, Locked, NoDraft
  <2>2. call[r].op = "none" /\ NoRow \notin Id
    BY <2>1, NamesAssumption DEF NoCall, Row
  <2>3. Course(r)
    BY <2>1, <2>2 DEF Course
  <2>4. ~Creating(r) /\ ~Deleting(r) /\ ~Closing(r) /\ ~PastDebt(r) /\ ~Returning(r)
    BY <2>1, <2>2 DEF Creating, Deleting, Closing, PastDebt, Returning
  <2>5. Papers(r) /\ Created(r) /\ Deleted(r) /\ Closed(r) /\ Carried(r) /\ Credit(r)
    BY <2>1, <2>2, <2>4 DEF Papers, Created, Deleted, Closed, Carried, Credit
  <2> QED
    BY <2>3, <2>4, <2>5 DEF Mine, Reckoning
<1>3. GoodsReconcile
  BY <1>1 DEF GoodsReconcile
<1>4. DebtsReconcile
  <2>1. ASSUME NEW c \in Client
        PROVE  DebtIn(table, c) - DebtIn(InitRow, c) \in 0 .. Cardinality(HalvesOf(c))
    <3>1. DebtIn(InitRow, c) \in Int
      BY <1>1, ClientTerms DEF DebtIn
    <3>2. PICK S : S = HalvesOf(c)
      OBVIOUS
    <3>3. S \subseteq Id
      BY <3>2 DEF HalvesOf, ReturnIds
    <3>4. Cardinality(S) \in Nat
      BY <3>3, NamesAssumption, FS_Subset, FS_CardinalityType
    <3> QED
      BY <1>1, <3>1, <3>2, <3>4
  <2> QED
    BY <2>1 DEF DebtsReconcile
<1> QED
  BY <1>2, <1>3, <1>4 DEF Reconciled

LEMMA GoodsStep ==
  ASSUME ReturnsInv, Typed', Filed, NEW r \in Req, Act(r), Reckoning(r), GoodsReconcile
  PROVE  GoodsReconcile'
<1> SUFFICES ASSUME DeletedOnce', NEW p \in Product
             PROVE  GoodsIn(table', p) = GoodsIn(InitRow, p)
  BY DEF GoodsReconcile
<1>1. GoodsIn(table, p) = GoodsIn(InitRow, p)
  BY DeletedOnceEarlier DEF GoodsReconcile
<1> QED
  BY <1>1, GoodsMove

LEMMA DebtsStep ==
  ASSUME ReturnsInv, Typed', Filed, NEW r \in Req, Act(r), Reckoning(r), DebtsReconcile
  PROVE  DebtsReconcile'
<1>1. ASSUME DeletedOnce', NEW c \in Client, table'[c].live
      PROVE  DebtIn(table', c) - DebtIn(InitRow, c) \in 0 .. Cardinality(HalvesOf(c))'
  <2>1. PICK d, e, i, m, n : /\ d = DebtIn(table, c) /\ e = DebtIn(table', c)
                             /\ i = DebtIn(InitRow, c)
                             /\ m = Cardinality(HalvesOf(c)) /\ n = Cardinality(HalvesOf(c))'
    OBVIOUS
  <2>2. table[c].live /\ d \in Int /\ e - d \in 0 .. n - m
    BY <1>1, <2>1, DebtMove
  <2>3. m \in Nat /\ n \in Nat
    BY <2>1, HalvesGrow
  <2>4. i \in Int /\ e \in Int
    BY <2>1, ClientTerms, InitRowAssumption DEF Typed, RowsOK, DebtIn
  <2>5. d - i \in 0 .. m
    BY <1>1, <2>1, <2>2, DeletedOnceEarlier DEF DebtsReconcile
  <2>6. e - i \in 0 .. n
    BY <2>2, <2>3, <2>4, <2>5
  <2> QED
    BY <2>1, <2>6
<1> QED
  BY <1>1 DEF DebtsReconcile

(* Where nothing changes.                                                  *)
LEMMA ReckoningStutters ==
  ASSUME UNCHANGED vars, NEW r \in Req, Reckoning(r)
  PROVE  Reckoning(r)'
<1>1. /\ table' = table /\ draft' = draft /\ moved' = moved /\ pc' = pc /\ call' = call
      /\ shift' = shift /\ sale' = sale /\ todo' = todo /\ totals' = totals
  BY DEF vars, locals
<1>2. CASE Returning(r)
  <2>1. Account(r) /\ Returning(r)'
    BY <1>1, <1>2 DEF Reckoning, Returning
  <2>2. Fetched(r)'
    BY <1>1, <2>1 DEF Account, Fetched, Existed, Kind, KindIn
  <2>3. Carrying(r)'
    BY <1>1, <2>1, SameItem DEF Account, Carrying, Moving
  <2>4. WholeOf(r)' = WholeOf(r) /\ OffOf(r)' = OffOf(r) /\ Locked(r)' = Locked(r)
    BY <1>1 DEF WholeOf, OffOf, Locked
  <2>5. Recorded(r)'
    BY <1>1, <2>1, <2>4 DEF Account, Recorded, ReturnOf
  <2>6. Forgiven(r)'
    BY <1>1, <2>1, <2>4 DEF Account, Forgiven, Refunding
  <2> QED
    BY <2>1, <2>2, <2>3, <2>5, <2>6 DEF Account, Reckoning
<1>3. CASE ~Returning(r)
  <2>1. Mine(r) /\ ~Returning(r)'
    BY <1>1, <1>3 DEF Reckoning, Returning
  <2>2. Course(r)' /\ Papers(r)' /\ Created(r)' /\ Deleted(r)'
    BY <1>1, <2>1 DEF Mine, Course, Papers, Created, Deleted, Kind, Locked, Creating, Deleting,
                      Gone, Existed
  <2>3. Closed(r)'
    <3>1. Closed(r) /\ Closing(r)' = Closing(r)
      BY <1>1, <2>1 DEF Mine, Closing
    <3> QED
      BY <1>1, <3>1 DEF Closed
  <2>4. Carried(r)'
    BY <1>1, <2>1 DEF Mine, Carried, Deleting, Gone
  <2>5. Credit(r)'
    BY <1>1, <2>1 DEF Mine, Credit, Locked, PastDebt, DebtDelta
  <2> QED
    BY <2>1, <2>2, <2>3, <2>4, <2>5 DEF Mine, Reckoning
<1> QED
  BY <1>2, <1>3

LEMMA ReconciledStep ==
  ReturnsInv /\ ReturnsInv' /\ Filed /\ Reconciled /\ [ReturnsNext]_vars => Reconciled'
<1> SUFFICES ASSUME ReturnsInv, ReturnsInv', Filed, Reconciled, [ReturnsNext]_vars
             PROVE  Reconciled'
  OBVIOUS
<1>1. CASE UNCHANGED vars
  <2>1. \A r \in Req : Reckoning(r)'
    BY <1>1, ReckoningStutters DEF Reconciled
  <2>2. table' = table /\ pc' = pc /\ call' = call
    BY <1>1 DEF vars, locals
  <2>3. GoodsReconcile' /\ DebtsReconcile'
    BY <2>2 DEF Reconciled, GoodsReconcile, DebtsReconcile, DeletedOnce, HalvesOf
  <2> QED
    BY <2>1, <2>3 DEF Reconciled
<1>2. ASSUME NEW r \in Req, Act(r) PROVE Reconciled'
  <2>1. Typed' /\ Reckoning(r)
    BY DEF ReturnsInv, Reconciled
  <2>2. \A q \in Req : Reckoning(q)'
    BY <1>2, <2>1, ReckoningStep DEF Reconciled
  <2>3. GoodsReconcile'
    BY <1>2, <2>1, GoodsStep DEF Reconciled
  <2>4. DebtsReconcile'
    BY <1>2, <2>1, DebtsStep DEF Reconciled
  <2> QED
    BY <2>2, <2>3, <2>4 DEF Reconciled
<1> QED
  BY <1>1, <1>2 DEF ReturnsNext, Act

LEMMA ReconciledInvariance == ReturnsSpec => []Reconciled
<1>1. Init => ReturnsInv /\ Filed /\ Reconciled
  BY ReturnsInit, FiledInit, ReconciledInit
<1>2. ReturnsInv /\ Filed /\ Reconciled /\ [ReturnsNext]_vars
        => (ReturnsInv /\ Filed /\ Reconciled)'
  BY ReturnsStep, FiledStep, ReconciledStep
<1> QED
  BY <1>1, <1>2, PTL DEF ReturnsSpec

(* For any requests, prices and sales: the pieces in the shop and on       *)
(* existing sales, less those that returns brought back, are always those  *)
(* that were there, however returns, exchanges, sales, deletions and       *)
(* failures interleave, unless two requests have both deleted one sale.    *)
(* CreateReturn and Delete move stock by what they read before they lock   *)
(* it; that the sums hold all the same is the work of the row locks and    *)
(* the foreign keys.                                                       *)
THEOREM ReturnsReconcileGoods == ReturnsSpec => []GoodsReconcile
<1>1. Reconciled => GoodsReconcile
  BY DEF Reconciled
<1> QED
  BY <1>1, ReconciledInvariance, PTL

(* A client's debt is what the existing sales left unpaid less what their  *)
(* returns took off, except for one unit for each return whose part of the *)
(* debt was halfway: never less, whatever the order of the commits.        *)
THEOREM ReturnsReconcileDebts == ReturnsSpec => []DebtsReconcile
<1>1. Reconciled => DebtsReconcile
  BY DEF Reconciled
<1> QED
  BY <1>1, ReconciledInvariance, PTL

-----------------------------------------------------------------------------
(* What returns forgive. For every sale that is there or about to be, the  *)
(* debt is covered by the total (Covered is of a sale in a draft); and     *)
(* every return is recorded with its part of the debt, rounded. The rest   *)
(* is arithmetic: the parts of the returns of one sale are added up item   *)
(* by item.                                                                *)

LEMMA RoundedWithin ==
  ASSUME NEW n \in Nat, NEW T \in Nat \ {0}
  PROVE  2 * T * Rounded(n, T) <= 2 * n + T
<1>1. PICK a \in Int, b \in Nat \ {0} : a = 2 * n + T /\ b = 2 * T
  OBVIOUS
<1>2. PICK q \in Int, k \in 0 .. b - 1 : q = a \div b /\ a = b * q + k
  BY Quotient
<1>3. Rounded(n, T) = q
  BY <1>1, <1>2 DEF Rounded
<1>4. b * q \in Int
  BY <1>2
<1>5. b * q <= a
  BY <1>1, <1>2, <1>4
<1> QED
  BY <1>1, <1>3, <1>5

Covered(r) == Creating(r) => sale[r].owed <= TotalAmount(r, sale[r])

Priced ==
  /\ \A x \in Id : Kind(x, "sale") => table[x].owed <= TotalAmount(x, table[x])
  /\ \A r \in Req : Covered(r)
  /\ \A y \in ReturnIds(table) : WithinPart(table, y)

LEMMA PricedInit == Init => Priced
<1> SUFFICES ASSUME Init PROVE Priced
  OBVIOUS
<1>1. table = InitRow /\ \A r \in Req : pc[r] = "idle"
  BY DEF Init
<1>2. \A r \in Req : Covered(r)
  BY <1>1 DEF Covered, Creating
<1>3. ASSUME NEW x \in Id, Kind(x, "sale") PROVE table[x].owed <= TotalAmount(x, table[x])
  <2>1. x \in Past
    BY <1>1, <1>3, InitRowAssumption DEF Id, Kind, KindIn
  <2> QED
    BY <1>1, <1>3, <2>1, TotalsAssumption DEF Kind, KindIn
<1> QED
  BY <1>1, <1>2, <1>3, RecordsAssumption DEF Priced

(* A sale is checked against its total when it is inserted, and no other   *)
(* step of its request touches it.                                         *)
LEMMA CoveredStep ==
  ASSUME ReturnsInv, NEW r \in Req, Act(r), Reckoning(r), NEW q \in Req, Covered(q)
  PROVE  Covered(q)'
<1> USE DEF ReturnsInv
<1>1. CASE q # r
  <2>1. pc'[q] = pc[q] /\ call'[q] = call[q] /\ sale'[q] = sale[q]
    BY <1>1, ActIsLocal DEF Own
  <2> QED
    BY <2>1 DEF Covered, Creating
<1>2. CASE q = r
  <2>1. Conduct(r) /\ Typed
    OBVIOUS
  <2>2. CASE Returning(r)
    <3>1. call'[r] = call[r]
      BY <2>1, <2>2, ActCases, ReturnKeepsCall
    <3> QED
      BY <1>2, <2>2, <3>1 DEF Covered, Creating, Returning
  <2>3. CASE ~Returning(r) /\ ReceiveReturn(r)
    <3>1. pc'[r] = "sale"
      BY <2>3 DEF ReceiveReturn, Goto, Typed
    <3> QED
      BY <1>2, <3>1 DEF Covered, Creating
  <2>4. CASE ~Returning(r) /\ ~ReceiveReturn(r)
    <3>1. Control(r) /\ (Receive(r) \/ Step(r) \/ Fail(r))
      BY <2>1, <2>4, ActCases
    <3>2. CASE Refuse(r) \/ Fail(r) \/ CommitTx(r) \/ OpenShift(r)
      <4>1. pc'[r] \in {"ok", "failed"}
        BY <3>2 DEF Refuse, Fail, CommitTx, OpenShift, Leave, Goto, Typed
      <4> QED
        BY <1>2, <4>1 DEF Covered, Creating
    <3>3. CASE /\ Receive(r) \/ GetCurrentOpen(r) \/ GetSale(r) \/ CheckStatus(r)
                  \/ CheckReturns(r) \/ AggregateSales(r) \/ LockItem(r)
               /\ ~Refuse(r)
      <4>1. pc'[r] \notin {"debt", "commit"}
        <5>1. CASE Receive(r)
          BY <5>1 DEF Receive, Goto, Typed
        <5>2. CASE GetCurrentOpen(r)
          BY <3>3, <5>2 DEF GetCurrentOpen, Goto, Typed
        <5>3. CASE GetSale(r)
          BY <3>3, <5>3 DEF GetSale, Goto, Typed
        <5>4. CASE CheckStatus(r)
          BY <3>3, <5>4 DEF CheckStatus, Goto, Typed
        <5>5. CASE CheckReturns(r)
          BY <3>3, <5>5 DEF CheckReturns, Goto, Typed
        <5>6. CASE AggregateSales(r)
          BY <3>3, <5>6 DEF AggregateSales, Goto, Typed
        <5>7. CASE LockItem(r)
          BY <3>3, <5>7 DEF LockItem, Goto, Typed
        <5> QED
          BY <3>3, <5>1, <5>2, <5>3, <5>4, <5>5, <5>6, <5>7
      <4> QED
        BY <1>2, <4>1 DEF Covered, Creating
    <3>4. CASE DeductItem(r) /\ ~Refuse(r)
      <4>1. pc'[r] \notin {"debt", "commit"}
        BY <3>4 DEF DeductItem, AfterItems, Goto, Typed
      <4> QED
        BY <1>2, <4>1 DEF Covered, Creating
    <3>5. CASE /\ ReadItems(r) \/ RestoreItem(r) \/ RemoveSale(r) \/ CloseShift(r)
               /\ ~Refuse(r)
      <4>1. call'[r] = call[r] /\ call[r].op # "create"
        <5>1. CASE RestoreItem(r)
          BY <5>1 DEF RestoreItem
        <5>2. CASE RemoveSale(r)
          BY <3>1, <3>5, <5>2 DEF RemoveSale, Control, locals
        <5>3. CASE CloseShift(r)
          BY <2>4, <3>5, <5>3 DEF CloseShift, Reckoning, Mine, Course, locals
        <5>4. CASE ReadItems(r)
          BY <3>1, <5>4 DEF ReadItems, Control
        <5> QED
          BY <3>5, <5>1, <5>2, <5>3, <5>4
      <4> QED
        BY <1>2, <4>1 DEF Covered, Creating
    <3>6. CASE InsertSale(r) /\ ~Refuse(r)
      <4>1. PICK new : new = [kind |-> "sale", shift |-> shift[r], items |-> call[r].items,
                              paid |-> call[r].paid, owed |-> call[r].owed,
                              client |-> call[r].client]
        OBVIOUS
      <4>2. call[r].exact /\ sale'[r] = new /\ call'[r] = call[r] /\ pc[r] = "insert"
        BY <3>6, <4>1 DEF InsertSale, Typed
      <4>3. call[r] \in Body /\ call[r].op = "create"
        BY <3>1, <4>2, <2>1 DEF Control, Conduct, Returning, NoCall, Typed
      <4>4. call[r].owed <= ValueOf(call[r].items) - Discount[r]
        BY <4>2, <4>3, CreditAssumption
      <4>5. new.owed <= TotalAmount(r, new)
        BY <4>1, <4>4 DEF TotalAmount
      <4> QED
        BY <1>2, <4>2, <4>5 DEF Covered
    <3>7. CASE UpdateDebt(r)
      <4>1. pc[r] = "debt" /\ call' = call /\ sale' = sale
        BY <3>7 DEF UpdateDebt, locals
      <4> QED
        BY <1>2, <4>1 DEF Covered, Creating
    <3> QED
      BY <3>1, <3>2, <3>3, <3>4, <3>5, <3>6, <3>7 DEF Step
  <2> QED
    BY <2>2, <2>3, <2>4
<1> QED
  BY <1>1, <1>2

(* A sale that was not there before is one that r has just inserted.       *)
LEMMA NewSale ==
  ASSUME ReturnsInv, Filed, NEW r \in Req, Act(r), Reckoning(r), NEW x \in Id,
         Kind(x, "sale")', table'[x] # table[x]
  PROVE  x = r /\ Creating(r) /\ table'[r] = sale[r]
<1> USE DEF ReturnsInv
<1>1. table'[x].kind = "sale" /\ table'[x] # NoRow
  BY DEF Kind, KindIn
<1>2. x = r
  BY <1>1, PapersChange DEF Kind, KindIn
<1>3. ~Returning(r) /\ ~ReceiveReturn(r)
  <2>1. ~(Commits(r) /\ Commit(r) /\ Returning(r))
    <3> SUFFICES ASSUME Commits(r), Commit(r), Returning(r) PROVE FALSE
      OBVIOUS
    <3>1. Kind(r, "return")'
      BY ReturnFiles DEF Reckoning
    <3> QED
      BY <1>1, <1>2, <3>1 DEF Kind, KindIn
  <2> QED
    BY <2>1, ReturnTable
<1>4. Sound(r) /\ Mine(r) /\ Unborn /\ (Receive(r) \/ Step(r) \/ Fail(r))
  BY <1>3, ActCases, ReturnsSound DEF Reckoning, Filed
<1>5. CASE OpenShift(r)
  BY <1>1, <1>2, <1>4, <1>5, OpenFiles
<1>6. CASE CommitTx(r)
  <2>1. CASE call[r].op = "create"
    BY <1>2, <1>4, <1>6, <2>1, CreateFiles, CommitOps DEF Creating
  <2>2. CASE call[r].op = "delete"
    BY <1>1, <1>2, <1>4, <1>6, <2>2, DeleteFiles
  <2>3. CASE call[r].op = "close"
    <3>1. table'[r] \in BookingRow
      BY <1>4, <1>6, <2>3, CloseFiles
    <3> QED
      BY <1>1, <1>2, <3>1 DEF BookingRow
  <2>4. call[r].op \in {"create", "delete", "close"}
    BY <1>4, <1>6, CommitOps
  <2> QED
    BY <2>1, <2>2, <2>3, <2>4
<1>7. CASE ~OpenShift(r) /\ ~CommitTx(r)
  <2>1. table' = table
    BY <1>4, <1>7, TableKept
  <2> QED
    BY <2>1
<1> QED
  BY <1>5, <1>6, <1>7

(* What an item id that exists stands for.                                 *)
LEMMA ItemType ==
  ASSUME NEW t, SalesTyped(t), NEW i \in ItemId, ItemExistsIn(t, i)
  PROVE  t[i.of].items[i.index] \in Item
<1>1. i.of \in Id
  BY DEF ItemId
<1>2. t[i.of] \in SaleRow
  BY <1>1 DEF ItemExistsIn, SalesTyped
<1>3. t[i.of].items \in Seq(Item)
  BY <1>2 DEF SaleRow
<1> QED
  BY <1>3 DEF ItemExistsIn

(* The return that r inserts takes its part off the debt, or nothing.      *)
LEMMA NewReturn ==
  ASSUME ReturnsInv, Typed', Filed, NEW r \in Req, Act(r), Returning(r), Account(r), Commits(r),
         Commit(r), 0 <= TotalAmount(call[r].sale, sale[r])
  PROVE  WithinPart(table', r)
<1> USE DEF ReturnsInv
<1>1. pc[r] = "return" /\ call[r] \in ReturnBody /\ ReturnControl(r)
  BY DEF Commits, InsertReturn, Conduct, ReturnControl
<1>2. /\ table'[r].sale = call[r].sale /\ table'[r].quantity = call[r].quantity
      /\ table'[r].debt = IF call[r].kind = "full" THEN Rounded(OffOf(r), WholeOf(r)) ELSE 0
      /\ sale[r] \in SaleRow /\ table'[call[r].sale] = sale[r]
      /\ ProductOf(table', r) = OldOf(r) /\ Moving(r)
  BY ReturnFiles, InsertedReturn
<1>3. PICK item, total, owed : /\ item = Back(r) /\ total = WholeOf(r) /\ owed = sale[r].owed
  OBVIOUS
<1>4. /\ TotalAmount(call[r].sale, sale[r]) = total
      /\ [product |-> ProductOf(table', r), quantity |-> table'[r].quantity] = item
  BY <1>2, <1>3 DEF WholeOf, Back
<1>5. owed \in Nat /\ Subtotal(item) \in Nat /\ total \in Nat
  <2>1. call[r].sale \in Id
    BY <1>1, RequestType
  <2>2. total \in Int
    BY <1>2, <1>4, <2>1, TotalType
  <2>3. item \in Item
    <3>1. call[r].quantity \in Nat \ {0}
      BY <1>1, RequestType
    <3>2. OldOf(r) \in Product
      <4>1. SalesTyped(table')
        BY TableTyped DEF Typed, RowsOK
      <4>2. PICK i \in ItemId : i = call[r].item /\ i = table'[r].item
        BY <1>1, RequestType, ReturnFiles
      <4>3. ItemExistsIn(table', i)
        BY <4>2, ReferencesStep, ReturnFiles DEF ReturnsHaveItems, ReferencesIn, Kind
      <4>4. table'[i.of].items[i.index] \in Item
        BY <4>1, <4>3, ItemType
      <4> QED
        BY <1>2, <4>2, <4>4 DEF ProductOf, Item
    <3> QED
      BY <1>3, <3>1, <3>2 DEF Back, Item
  <2> QED
    BY <1>2, <1>3, <1>4, <2>2, <2>3, SubtotalType DEF SaleRow
<1>6. PICK n \in Nat : n = owed * Subtotal(item)
  BY <1>5
<1>7. 2 * total * table'[r].debt <= 2 * n + total
  <2>1. CASE call[r].kind = "full"
    <3>1. todo[r] = <<item>>
      BY <1>1, <1>2, <1>3, <2>1 DEF Moving
    <3>2. OffOf(r) = n
      BY <1>3, <1>6, <3>1 DEF OffOf, DebtRefund
    <3>3. total \in Nat \ {0}
      BY <1>1, <1>3, <2>1 DEF Account, Recorded
    <3> QED
      BY <1>2, <1>3, <2>1, <3>2, <3>3, RoundedWithin
  <2>2. CASE call[r].kind # "full"
    <3>1. table'[r].debt = 0 /\ 2 * total * 0 = 0
      BY <1>2, <1>5, <2>2
    <3> QED
      BY <1>5, <1>6, <3>1
  <2> QED
    BY <2>1, <2>2
<1>8. 2 * owed * Subtotal(item) = 2 * n
  BY <1>5, <1>6
<1> QED
  BY <1>2, <1>3, <1>4, <1>7, <1>8 DEF WithinPart

LEMMA PricedStep ==
  ASSUME ReturnsInv, Typed', Filed, NEW r \in Req, Act(r), Reckoning(r), Priced
  PROVE  Priced'
<1> USE DEF ReturnsInv
<1>1. \A q \in Req : Covered(q)'
  BY CoveredStep DEF Priced
<1>2. ASSUME NEW x \in Id, Kind(x, "sale")'
      PROVE  table'[x].owed <= TotalAmount(x, table'[x])
  <2>1. CASE table'[x] = table[x]
    BY <1>2, <2>1 DEF Priced, Kind, KindIn
  <2>2. CASE table'[x] # table[x]
    BY <1>2, <2>2, NewSale DEF Priced, Covered
  <2> QED
    BY <2>1, <2>2
<1>3. ASSUME NEW y \in ReturnIds(table') PROVE WithinPart(table', y)
  <2>1. CASE y \in ReturnIds(table)
    <3>1. /\ table'[y] = table[y] /\ table'[table[y].sale] = table[table[y].sale]
          /\ table'[table[y].item.of] = table[table[y].item.of]
      BY <2>1, ReturnsStay
    <3>2. ProductOf(table', y) = ProductOf(table, y)
      BY <3>1 DEF ProductOf
    <3>3. WithinPart(table, y)
      BY <2>1 DEF Priced
    <3> QED
      BY <3>1, <3>2, <3>3 DEF WithinPart
  <2>2. CASE y \notin ReturnIds(table)
    <3>1. y = r /\ Commits(r)
      BY <2>2, ReturnsNew
    <3>2. table' # table
      BY <2>2
    <3>3. CASE Commit(r) /\ Returning(r)
      <4>1. Account(r) /\ call[r].sale \in Id
        BY <3>3, RequestType DEF Reckoning, Conduct, ReturnControl
      <4>2. Kind(call[r].sale, "sale") /\ table[call[r].sale] = sale[r] /\ sale[r] \in SaleRow
        BY <3>1, <4>1 DEF Commits, InsertReturn, Referents, Account, Fetched
      <4>3. sale[r].owed <= TotalAmount(call[r].sale, sale[r])
        BY <4>1, <4>2 DEF Priced
      <4>4. 0 <= TotalAmount(call[r].sale, sale[r])
        BY <4>1, <4>2, <4>3, TotalType DEF SaleRow
      <4> QED
        BY <3>1, <3>3, <4>1, <4>4, NewReturn
    <3>4. Commit(r) /\ Returning(r)
      BY <3>1 DEF Commits, Conduct, InsertReturn, Statement
    <3> QED
      BY <3>3, <3>4
  <2> QED
    BY <2>1, <2>2
<1> QED
  BY <1>1, <1>2, <1>3 DEF Priced

(* The returns of one sale, from their items' side: the value of all the   *)
(* pieces that have come back is at most that of all the pieces sold.      *)
LEMMA BackWorthNoMore ==
  ASSUME NEW back \in SUBSET Id, NEW x \in Id, NEW items \in Seq(Item),
         \A y \in back : /\ Kind(y, "return") /\ table[y] \in ReturnRow /\ table[y].item.of = x
                         /\ table[y].item.index \in DOMAIN items,
         \A y \in Id : Kind(y, "return") => table[y] \in ReturnRow,
         \A k \in DOMAIN items : ReturnedQty([of |-> x, index |-> k]) <= items[k].quantity,
         NEW u \in [back -> Int],
         \A y \in back : u[y] = Price[items[table[y].item.index].product] * table[y].quantity
  PROVE  SumFunction(u) <= ValueOf(items)
<1> DEFINE K == DOMAIN items
<1>1. IsFiniteSet(Id) /\ IsFiniteSet(back) /\ IsFiniteSet(K)
  <2>1. K = 1 .. Len(items) /\ Len(items) \in Nat
    OBVIOUS
  <2> QED
    BY <2>1, NamesAssumption, FS_Subset, FS_Interval
<1>2. /\ \A k \in K : items[k].product \in Product /\ items[k].quantity \in Nat
      /\ \A y \in Id : Kind(y, "return") => table[y].quantity \in Nat
  <2>1. \A k \in K : items[k] \in Item
    OBVIOUS
  <2> QED
    BY <2>1 DEF Item, ReturnRow
<1>3. PICK g, q, w, c, v : /\ g = [y \in back |-> table[y].item.index]
                           /\ q = [y \in back |-> table[y].quantity]
                           /\ w = [k \in K |-> Price[items[k].product]]
                           /\ c = [k \in K |-> items[k].quantity]
                           /\ v = [k \in K |-> Subtotal(items[k])]
  OBVIOUS
<1>4. g \in [back -> K] /\ q \in [back -> Nat] /\ w \in [K -> Nat] /\ c \in [K -> Nat]
  <2>1. \A k \in K : Price[items[k].product] \in Nat
    BY <1>2, PriceAssumption
  <2>2. g \in [back -> K] /\ q \in [back -> Nat]
    BY <1>2, <1>3
  <2> QED
    BY <1>2, <1>3, <2>1, <2>2
<1>5. v \in [K -> Int] /\ \A k \in K : v[k] = w[k] * c[k]
  <2>1. \A k \in K : v[k] = w[k] * c[k]
    BY <1>3 DEF Subtotal
  <2>2. \A k \in K : Subtotal(items[k]) \in Int
    <3>1. \A k \in K : items[k] \in Item
      OBVIOUS
    <3> QED
      BY <3>1, SubtotalType
  <2> QED
    BY <1>3, <2>1, <2>2
<1>6. \A y \in back : u[y] = w[g[y]] * q[y]
  BY <1>3, <1>4
<1>7. ASSUME NEW k \in K
      PROVE  SumFunction(GroupOf(q, g, k)) <= c[k]
  <2>1. PICK f : f = [y \in back |-> IF g[y] = k THEN q[y] ELSE 0]
    OBVIOUS
  <2>2. PICK h : h = [y \in Id |-> IF y \in back THEN f[y] ELSE 0]
    OBVIOUS
  <2>3. PICK i : i = [of |-> x, index |-> k]
    OBVIOUS
  <2>4. PICK e : e = [y \in Id |-> IF y \in ReturnsOf(i) THEN table[y].quantity ELSE 0]
    OBVIOUS
  <2>5. f \in [back -> Int] /\ h \in [Id -> Int]
    <3>1. f \in [back -> Int]
      BY <1>4, <2>1
    <3> QED
      BY <2>2, <3>1
  <2>6. e \in [Id -> Int]
    BY <1>2, <2>4 DEF ReturnsOf
  <2>7. SumFunction(h) = SumFunction(f)
    <3>1. h = Extended(f, Id) /\ DOMAIN f = back /\ \A y \in back : f[y] \in Int
      BY <2>1, <2>5, <2>2 DEF Extended
    <3> QED
      BY <1>1, <3>1, SumRestrict
  <2>8. ASSUME NEW y \in Id PROVE h[y] <= e[y]
    <3>1. e[y] \in Nat
      BY <1>2, <2>4 DEF ReturnsOf
    <3>2. CASE y \in back /\ g[y] = k
      <4>1. table[y].item = i
        <5>1. table[y].item \in ItemId /\ table[y].item.of = x /\ table[y].item.index = k
          BY <1>3, <3>2 DEF ReturnRow
        <5> QED
          BY <2>3, <5>1 DEF ItemId
      <4>2. e[y] = table[y].quantity /\ h[y] = table[y].quantity
        BY <1>3, <2>1, <2>2, <2>4, <3>2, <4>1 DEF ReturnsOf
      <4> QED
        BY <3>1, <4>2
    <3>3. CASE ~(y \in back /\ g[y] = k)
      <4>1. h[y] = 0
        BY <2>1, <2>2, <3>3
      <4> QED
        BY <3>1, <4>1
    <3> QED
      BY <3>2, <3>3
  <2>9. SumFunction(h) <= SumFunction(e)
    BY <1>1, <2>5, <2>6, <2>8, SumMonotone
  <2>10. SumFunction(e) = ReturnedQty(i) /\ ReturnedQty(i) <= c[k]
    BY <1>3, <2>3, <2>4 DEF ReturnedQty
  <2> QED
    <3>1. SumFunction(h) \in Int /\ SumFunction(e) \in Int /\ c[k] \in Int
      BY <1>1, <1>4, <2>5, <2>6, FunctionSumInt
    <3>2. SumFunction(f) <= c[k]
      BY <2>7, <2>9, <2>10, <3>1
    <3>3. f = GroupOf(q, g, k)
      BY <1>4, <2>1 DEF GroupOf
    <3> QED
      BY <3>2, <3>3
<1>8. SumFunction(u) <= SumFunction(v)
  <2>1. \A k \in K : SumFunction(GroupOf(q, g, k)) <= c[k]
    BY <1>7
  <2>2. v \in [K -> Int] /\ (\A k \in K : v[k] = w[k] * c[k])
    BY <1>5
  <2> QED
    <3>1. Grouped(back, K, g, q, w, c, u, v)
      BY <1>1, <1>4, <1>6, <2>1, <2>2 DEF Grouped
    <3> QED
      BY <3>1, SumGrouped
<1>9. SumFunction(v) = ValueOf(items)
  BY <1>3 DEF ValueOf
<1> QED
  BY <1>8, <1>9

LEMMA PricedForgives ==
  ASSUME ReturnsInv, Filed, Priced
  PROVE  ForgivenIsOwed
<1> USE DEF ReturnsInv
<1> SUFFICES ASSUME NEW x \in Id, Kind(x, "sale"),
                    \A y \in ReturnsOfSale(x) : table[y].item.of = x,
                    \A k \in DOMAIN table[x].items :
                      ReturnedQty([of |-> x, index |-> k]) <= table[x].items[k].quantity
             PROVE  2 * TotalAmount(x, table[x])
                          * SumFunction([y \in ReturnsOfSale(x) |-> table[y].debt])
                      <= 2 * table[x].owed * ValueOf(table[x].items)
                           + TotalAmount(x, table[x]) * Cardinality(ReturnsOfSale(x))
  BY DEF ForgivenIsOwed
<1>1. PICK items, total, owed, back : /\ items = table[x].items
                                      /\ total = TotalAmount(x, table[x])
                                      /\ owed = table[x].owed
                                      /\ back = ReturnsOfSale(x)
  OBVIOUS
<1>2. Rows(table) /\ DOMAIN table = Row
  BY DEF Typed, RowsOK
<1>3. SalesTyped(table) /\ ReturnsTyped(table)
  BY <1>2, TableTyped, TableReturns
<1>4. table[x] \in SaleRow
  BY <1>3 DEF SalesTyped, Kind
<1>5. items \in Seq(Item) /\ owed \in Nat /\ total \in Int
  BY <1>1, <1>4, TotalType DEF SaleRow
<1>6. /\ back \in SUBSET Id /\ IsFiniteSet(back)
      /\ \A y \in Id : Kind(y, "return") => table[y] \in ReturnRow
      /\ \A y \in back : Kind(y, "return") /\ table[y].sale = x /\ table[y].item.of = x
  <2>1. back \in SUBSET Id
    BY <1>1 DEF ReturnsOfSale
  <2>2. IsFiniteSet(back)
    BY <2>1, NamesAssumption, FS_Subset
  <2> QED
    BY <1>1, <1>3, <2>1, <2>2 DEF ReturnsOfSale, ReturnsTyped, Kind
<1>7. \A y \in back : table[y].item.index \in DOMAIN items
  BY <1>1, <1>6 DEF Filed, ReturnsHaveItems, ReferencesIn, ItemExistsIn, Kind
<1>8. PICK d, u : /\ d = [y \in back |-> table[y].debt]
                  /\ u = [y \in back |-> Price[items[table[y].item.index].product]
                                           * table[y].quantity]
  OBVIOUS
<1>9. d \in [back -> Nat] /\ u \in [back -> Nat]
  <2>1. ASSUME NEW y \in back
        PROVE  /\ table[y].debt \in Nat
               /\ Price[items[table[y].item.index].product] * table[y].quantity \in Nat
    <3>1. table[y] \in ReturnRow
      BY <1>6
    <3>2. table[y].debt \in Nat /\ table[y].quantity \in Nat
      BY <3>1 DEF ReturnRow
    <3>3. items[table[y].item.index] \in Item
      BY <1>5, <1>7
    <3>4. Price[items[table[y].item.index].product] \in Nat
      BY <3>3, PriceAssumption DEF Item
    <3> QED
      BY <3>2, <3>4, TimesType
  <2> QED
    BY <1>8, <2>1
<1>10. ASSUME NEW y \in back PROVE 2 * total * d[y] <= 2 * owed * u[y] + total
  <2>1. y \in ReturnIds(table) /\ table[y].sale = x /\ table[y].item.of = x
    BY <1>6 DEF ReturnIds, Kind
  <2>2. PICK item : item = [product |-> ProductOf(table, y), quantity |-> table[y].quantity]
    OBVIOUS
  <2>3. 2 * total * table[y].debt <= 2 * owed * Subtotal(item) + total
    BY <1>1, <2>1, <2>2 DEF Priced, WithinPart
  <2>4. Subtotal(item) = Price[items[table[y].item.index].product] * table[y].quantity
    BY <1>1, <2>1, <2>2 DEF Subtotal, ProductOf
  <2> QED
    BY <1>8, <2>3, <2>4
<1>11. 2 * total * SumFunction(d) <= 2 * owed * SumFunction(u) + total * Cardinality(back)
  <2>1. \A y \in back : 2 * total * d[y] <= 2 * owed * u[y] + total
    BY <1>10
  <2>2. owed \in Int
    BY <1>5
  <2> QED
    BY <1>5, <1>6, <1>9, <2>1, <2>2, SumWithin
<1>12. SumFunction(u) \in Nat /\ SumFunction(u) <= ValueOf(items)
  <2>1. u \in [back -> Int]
    BY <1>9
  <2>2. \A k \in DOMAIN items : ReturnedQty([of |-> x, index |-> k]) <= items[k].quantity
    BY <1>1
  <2>3. \A y \in back : u[y] = Price[items[table[y].item.index].product] * table[y].quantity
    BY <1>8
  <2>4. SumFunction(u) <= ValueOf(items)
    BY <1>5, <1>6, <1>7, <2>1, <2>2, <2>3, BackWorthNoMore
  <2> QED
    BY <1>6, <1>9, <2>4, FunctionSumNat
<1>13. ValueOf(items) \in Int
  <2>1. ValueOf(items) = total + Discount[x]
    <3>1. PICK f : f = [i \in DOMAIN items |-> Subtotal(items[i])]
      OBVIOUS
    <3>2. IsFiniteSet(DOMAIN items) /\ \A i \in DOMAIN items : Subtotal(items[i]) \in Int
      <4>1. /\ DOMAIN items = 1 .. Len(items) /\ Len(items) \in Nat
            /\ \A i \in DOMAIN items : items[i] \in Item
        BY <1>5
      <4> QED
        BY <4>1, FS_Interval, SubtotalType
    <3>3. f \in [DOMAIN items -> Int]
      BY <3>1, <3>2
    <3>4. SumFunction(f) \in Int
      BY <3>2, <3>3, FunctionSumInt
    <3> QED
      BY <1>1, <3>1, <3>4, DiscountAssumption DEF TotalAmount, ValueOf
  <2> QED
    BY <1>5, <2>1, DiscountAssumption
<1>14. 2 * owed * SumFunction(u) <= 2 * owed * ValueOf(items)
  <2>1. PICK a \in Nat, b \in Int, s \in Nat : /\ a = ValueOf(items) - SumFunction(u)
                                               /\ b = ValueOf(items) /\ s = SumFunction(u)
    BY <1>12, <1>13
  <2>2. PICK o \in Nat : o = 2 * owed
    BY <1>5
  <2>3. o * b = o * s + o * a /\ o * a \in Nat /\ o * s \in Int
    BY <2>1
  <2>4. o * s <= o * b
    BY <2>3
  <2> QED
    BY <2>1, <2>2, <2>4
<1>15. /\ 2 * total * SumFunction(d) \in Int /\ 2 * owed * SumFunction(u) \in Int
       /\ 2 * owed * ValueOf(items) \in Int /\ total * Cardinality(back) \in Int
  <2>1. SumFunction(d) \in Nat /\ Cardinality(back) \in Nat
    BY <1>6, <1>9, FunctionSumNat, FS_CardinalityType
  <2>2. \A m, n \in Int : 2 * m * n \in Int /\ m * n \in Int
    OBVIOUS
  <2> QED
    BY <1>5, <1>12, <1>13, <2>1, <2>2
<1>16. 2 * total * SumFunction(d) <= 2 * owed * ValueOf(items) + total * Cardinality(back)
  BY <1>11, <1>14, <1>15
<1> QED
  BY <1>1, <1>8, <1>16

LEMMA PricedInvariance == ReturnsSpec => [](ReturnsInv /\ Filed /\ Priced)
<1>1. Init => ReturnsInv /\ Filed /\ Reconciled /\ Priced
  BY ReturnsInit, FiledInit, ReconciledInit, PricedInit
<1>2. ReturnsInv /\ Filed /\ Reconciled /\ Priced /\ [ReturnsNext]_vars
        => (ReturnsInv /\ Filed /\ Reconciled /\ Priced)'
  <2> SUFFICES ASSUME ReturnsInv, Filed, Reconciled, Priced, [ReturnsNext]_vars
               PROVE  (ReturnsInv /\ Filed /\ Reconciled /\ Priced)'
    OBVIOUS
  <2>1. ReturnsInv' /\ Filed' /\ Reconciled'
    BY ReturnsStep, FiledStep, ReconciledStep
  <2>2. CASE UNCHANGED vars
    <3>1. table' = table /\ pc' = pc /\ call' = call /\ sale' = sale
      BY <2>2 DEF vars, locals
    <3>2. Priced'
      BY <3>1 DEF Priced, Covered, Creating, Kind
    <3> QED
      BY <2>1, <3>2
  <2>3. ASSUME NEW r \in Req, Act(r) PROVE Priced'
    <3>1. Typed'
      BY <2>1 DEF ReturnsInv
    <3> QED
      BY <2>3, <3>1, PricedStep DEF Reconciled
  <2> QED
    BY <2>1, <2>2, <2>3 DEF ReturnsNext, Act
<1> QED
  BY <1>1, <1>2, PTL DEF ReturnsSpec

(* For any prices, discounts, sales and requests: where the returns of a   *)
(* sale name its own items and bring back no more than was sold, they      *)
(* forgive no more than the debt times value over total, and half a unit   *)
(* for each. CreateReturn rounds each refund on its own and looks at no    *)
(* other: that they stay within the debt follows from the totals that      *)
(* Create has checked.                                                     *)
THEOREM ReturnsForgiveWhatIsOwed == ReturnsSpec => []ForgivenIsOwed
<1>1. ReturnsInv /\ Filed /\ Priced => ForgivenIsOwed
  BY PricedForgives
<1> QED
  BY <1>1, PricedInvariance, PTL

=============================================================================
