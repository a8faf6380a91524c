---------------------------- MODULE Server_proofs ----------------------------
(***************************************************************************)
(* ExitIsClean of Server for any pool size, any requests and any rows. The *)
(* invariant: a transaction that has locked or written a row holds a       *)
(* connection, and who holds a connection has a statement of a transaction *)
(* before him. So pool.Close, which waits for the connections, waits for   *)
(* the transactions.                                                       *)
(***************************************************************************)
EXTENDS Server, TLAPS

TxStatement ==
  {"lock", "write", "insert", "debt", "items", "remove", "aggregate", "close",
   "commit", "counts", "expense", "list"}

\* A request that has touched rows holds a connection, and who holds one is in
\* a transaction.
Held(r) ==
  /\ draft[r] # NoDraft => r \in conns
  /\ r \in conns => pc[r] \in TxStatement

ServerInv ==
  /\ DOMAIN pc = Req /\ DOMAIN draft = Req
  /\ conns \subseteq Req
  /\ \A r \in Req : Held(r)
  /\ server = "exited" => conns = {}

-----------------------------------------------------------------------------
(* A step of request r, in its transaction or outside: it goes on there,   *)
(* or ends with nothing left in its draft.                                 *)
OneStep(r) ==
  /\ DOMAIN pc' = Req /\ DOMAIN draft' = Req
  /\ \A q \in Req \ {r} : pc'[q] = pc[q] /\ draft'[q] = draft[q]
  /\ \/ pc'[r] \in {"ok", "failed"} /\ draft'[r] = NoDraft
     \/ pc[r] \in TxStatement /\ pc'[r] \in TxStatement
     \/ pc[r] \notin TxStatement /\ draft'[r] = draft[r]

(* Goto, Write and Rollback touch one request only.                        *)
LEMMA GotoOne ==
  ASSUME ServerInv, NEW r \in Req, NEW s, Goto(r, s)
  PROVE  DOMAIN pc' = Req /\ pc'[r] = s /\ \A q \in Req \ {r} : pc'[q] = pc[q]
BY DEF ServerInv, Goto

LEMMA WriteOne ==
  ASSUME ServerInv, NEW r \in Req, NEW new, Write(r, new)
  PROVE  DOMAIN draft' = Req /\ \A q \in Req \ {r} : draft'[q] = draft[q]
BY DEF ServerInv, Write

LEMMA RefuseOne ==
  ASSUME ServerInv, NEW r \in Req, Refuse(r)
  PROVE  OneStep(r)
<1>1. Goto(r, "failed") /\ draft' = [draft EXCEPT ![r] = NoDraft]
  BY DEF Refuse, Leave, Rollback
<1>2. DOMAIN pc' = Req /\ pc'[r] = "failed" /\ \A q \in Req \ {r} : pc'[q] = pc[q]
  BY <1>1, GotoOne
<1> QED
  BY <1>1, <1>2 DEF OneStep, ServerInv

(* A statement of a transaction that leads to the next one.                *)
LEMMA TxGoesOn ==
  ASSUME ServerInv, NEW r \in Req, NEW s \in TxStatement, pc[r] \in TxStatement, Goto(r, s),
         (\E new : Write(r, new)) \/ UNCHANGED db
  PROVE  OneStep(r)
<1>1. DOMAIN pc' = Req /\ pc'[r] = s /\ \A q \in Req \ {r} : pc'[q] = pc[q]
  BY GotoOne
<1>2. DOMAIN draft' = Req /\ \A q \in Req \ {r} : draft'[q] = draft[q]
  BY WriteOne DEF ServerInv, db
<1> QED
  BY <1>1, <1>2 DEF OneStep

(* A statement on the pool, outside of any transaction.                    *)
LEMMA PoolStatement ==
  ASSUME ServerInv, NEW r \in Req, NEW s, pc[r] \notin TxStatement, Goto(r, s), draft' = draft
  PROVE  OneStep(r)
<1>1. DOMAIN pc' = Req /\ pc'[r] = s /\ \A q \in Req \ {r} : pc'[q] = pc[q]
  BY GotoOne
<1> QED
  BY <1>1 DEF OneStep, ServerInv

LEMMA StepOne ==
  ASSUME ServerInv, NEW r \in Req, Step(r) \/ NestedStep(r)
  PROVE  OneStep(r)
<1>1. CASE Refuse(r)
  BY <1>1, RefuseOne
<1>2. CASE ~Refuse(r)
  <2>1. CASE GetCurrentOpen(r)
    <3>1. pc[r] \notin TxStatement /\ draft' = draft
      BY <1>2, <2>1 DEF GetCurrentOpen, db, TxStatement
    <3>2. \E s : Goto(r, s)
      BY <1>2, <2>1 DEF GetCurrentOpen
    <3> QED
      BY <3>1, <3>2, PoolStatement
  <2>2. CASE OpenShift(r)
    BY <2>2, PoolStatement DEF OpenShift, Autocommit, Leave, TxStatement
  <2>3. CASE GetSale(r) \/ CheckStatus(r) \/ CheckReturns(r)
    <3>1. pc[r] \notin TxStatement /\ draft' = draft
      BY <1>2, <2>3 DEF GetSale, CheckStatus, CheckReturns, db, TxStatement
    <3>2. \E s : Goto(r, s)
      BY <1>2, <2>3 DEF GetSale, CheckStatus, CheckReturns
    <3> QED
      BY <3>1, <3>2, PoolStatement
  <2>4. CASE LockItem(r)
    <3>1. pc[r] \in TxStatement /\ Goto(r, "write") /\ \E new : Write(r, new)
      BY <1>2, <2>4 DEF LockItem, GetByIDForUpdate, LockRow, TxStatement
    <3> QED
      BY <3>1, TxGoesOn DEF TxStatement
  <2>5. CASE DeductItem(r) \/ RestoreItem(r)
    <3>1. pc[r] \in TxStatement /\ Goto(r, AfterItems(r, Tail(todo[r]))) /\ \E new : Write(r, new)
      BY <1>2, <2>5 DEF DeductItem, RestoreItem, UpdateStock, TxStatement
    <3>2. AfterItems(r, Tail(todo[r])) \in TxStatement
      BY DEF AfterItems, TxStatement
    <3> QED
      BY <3>1, <3>2, TxGoesOn
  <2>6. CASE InsertSale(r)
    <3>1. pc[r] \in TxStatement /\ \E new : Write(r, new)
      BY <1>2, <2>6 DEF InsertSale, TxStatement
    <3>2. \E s \in TxStatement : Goto(r, s)
      BY <1>2, <2>6 DEF InsertSale, TxStatement
    <3> QED
      BY <3>1, <3>2, TxGoesOn
  <2>7. CASE UpdateDebt(r)
    <3>1. pc[r] \in TxStatement /\ ((\E new : Write(r, new)) \/ UNCHANGED db)
      BY <2>7 DEF UpdateDebt, TxStatement
    <3>2. \E s \in TxStatement : Goto(r, s)
      BY <2>7 DEF UpdateDebt, TxStatement
    <3> QED
      BY <3>1, <3>2, TxGoesOn
  <2>8. CASE CommitTx(r)
    <3>1. Goto(r, "ok") /\ draft' = [draft EXCEPT ![r] = NoDraft]
      BY <2>8 DEF CommitTx, Leave, Commit
    <3>2. DOMAIN pc' = Req /\ pc'[r] = "ok" /\ \A q \in Req \ {r} : pc'[q] = pc[q]
      BY <3>1, GotoOne
    <3> QED
      BY <3>1, <3>2 DEF OneStep, ServerInv
  <2>9. CASE ReadItems(r) \/ AggregateSales(r)
    <3>1. pc[r] \in TxStatement /\ UNCHANGED db
      BY <2>9 DEF ReadItems, AggregateSales, TxStatement
    <3>2. \E s \in TxStatement : Goto(r, s)
      BY <2>9 DEF ReadItems, AggregateSales, AfterItems, TxStatement
    <3> QED
      BY <3>1, <3>2, TxGoesOn
  <2>10. CASE RemoveSale(r) \/ CloseShift(r)
    <3>1. pc[r] \in TxStatement /\ ((\E new : Write(r, new)) \/ UNCHANGED db)
      BY <1>2, <2>10 DEF RemoveSale, CloseShift, TxStatement
    <3>2. Goto(r, "commit")
      BY <1>2, <2>10 DEF RemoveSale, CloseShift
    <3> QED
      BY <3>1, <3>2, TxGoesOn DEF TxStatement
  <2>11. CASE ReadCounts(r) \/ Deposit(r)
    <3>1. pc[r] \in TxStatement /\ UNCHANGED db
      BY <2>11 DEF ReadCounts, Deposit, TxStatement
    <3>2. \E s \in TxStatement : Goto(r, s)
      BY <2>11 DEF ReadCounts, Deposit, AfterCounts, TxStatement
    <3> QED
      BY <3>1, <3>2, TxGoesOn
  <2>12. CASE SetCounted(r)
    <3>1. pc[r] \in TxStatement /\ \E new : Write(r, new)
      BY <2>12 DEF SetCounted, UpdateStock, TxStatement
    <3>2. \E s \in TxStatement : Goto(r, s)
      BY <2>12 DEF SetCounted, AfterCounts, TxStatement
    <3> QED
      BY <3>1, <3>2, TxGoesOn
  <2> QED
    BY <2>1, <2>2, <2>3, <2>4, <2>5, <2>6, <2>7, <2>8, <2>9, <2>10, <2>11, <2>12
       DEF Step, NestedStep
<1> QED
  BY <1>1, <1>2

-----------------------------------------------------------------------------
LEMMA ServerInvInit == ServerInit => ServerInv
  BY DEF ServerInit, Init, ServerInv, Held

LEMMA ServerInvStep == ServerInv /\ [ServerNext]_serverVars => ServerInv'
<1> SUFFICES ASSUME ServerInv, [ServerNext]_serverVars PROVE ServerInv'
  OBVIOUS
<1>1. CASE UNCHANGED serverVars
  BY <1>1 DEF ServerInv, Held, serverVars, vars, db, locals
<1>2. ASSUME NEW r \in Req, Arrive(r) PROVE ServerInv'
  <2>1. pc[r] = "idle" /\ draft' = draft /\ UNCHANGED <<server, conns>>
    BY <1>2 DEF Arrive, Receive, ReceiveNested, db
  <2>2. \E s : Goto(r, s)
    BY <1>2 DEF Arrive, Receive, ReceiveNested
  <2>3. DOMAIN pc' = Req /\ \A q \in Req \ {r} : pc'[q] = pc[q]
    BY <2>2, GotoOne
  <2>4. r \notin conns
    BY <2>1 DEF ServerInv, Held, TxStatement
  <2> QED
    BY <2>1, <2>3, <2>4 DEF ServerInv, Held
<1>3. ASSUME NEW r \in Req, Begin(r) PROVE ServerInv'
  BY <1>3 DEF Begin, InTx, PoolOpen, ServerInv, Held, TxStatement, vars, db, locals
<1>4. ASSUME NEW r \in Req, Query(r) PROVE ServerInv'
  <2>1. OneStep(r)
    BY <1>4, StepOne DEF Query
  <2>2. pc[r] \in TxStatement <=> r \in conns
    BY <1>4 DEF Query, InTx, TxStatement, ServerInv, Held
  <2>3. conns' = IF pc'[r] \in {"ok", "failed"} THEN conns \ {r} ELSE conns
    BY <1>4 DEF Query, Ended, Returned
  <2>4. server' = server
    BY <1>4 DEF Query
  <2>5. Held(r)'
    BY <2>1, <2>2, <2>3 DEF OneStep, Held, ServerInv, TxStatement
  <2>6. ASSUME NEW q \in Req \ {r} PROVE Held(q)'
    BY <2>1, <2>3 DEF OneStep, Held, ServerInv
  <2> QED
    BY <2>1, <2>3, <2>4, <2>5, <2>6 DEF OneStep, ServerInv
<1>5. ASSUME NEW r \in Req, Abort(r) PROVE ServerInv'
  <2>1. Refuse(r) /\ conns' = conns \ {r} /\ server' = server
    BY <1>5 DEF Abort, Fail, Returned
  <2>2. DOMAIN pc' = Req /\ \A q \in Req \ {r} : pc'[q] = pc[q]
    BY <2>1, GotoOne DEF Refuse, Leave
  <2>3. draft' = [draft EXCEPT ![r] = NoDraft]
    BY <2>1 DEF Refuse, Rollback
  <2> QED
    BY <2>1, <2>2, <2>3 DEF ServerInv, Held
<1>6. CASE Signal \/ ClosePool
  BY <1>6 DEF Signal, ClosePool, ServerInv, Held, vars, db, locals
<1>7. CASE Exit
  BY <1>7 DEF Exit, AllReturned, ServerInv, Held, vars, db, locals
<1> QED
  BY <1>1, <1>2, <1>3, <1>4, <1>5, <1>6, <1>7 DEF ServerNext, PoolClosed

LEMMA ServerInvariance == ServerSpec => []ServerInv
  BY ServerInvInit, ServerInvStep, PTL DEF ServerSpec

(* The exit of the process interrupts no transaction that has touched a    *)
(* row, however large the pool is and whatever its users do.               *)
THEOREM ExitStaysClean == ServerSpec => []ExitIsClean
<1>1. ServerInv => ExitIsClean
  BY DEF ServerInv, Held, ExitIsClean
<1> QED
  BY <1>1, ServerInvariance, PTL
=============================================================================
