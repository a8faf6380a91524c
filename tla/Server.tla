------------------------------- MODULE Server -------------------------------
(***************************************************************************)
(* main.go: the process that serves the requests of Sales, the pool of     *)
(* connections they share, and the shutdown. A transaction holds a         *)
(* connection from its Begin to its end, a statement on the pool borrows   *)
(* one. Two services use the pool inside a transaction and so need a       *)
(* second connection while they hold one: OwnerDeposit, and the completion *)
(* of an inventory check, which at that point has locked products as well. *)
(* Of these two the connections and the locks are modelled here and the    *)
(* rest in Debts and InventoryChecks.                                      *)
(*                                                                         *)
(* PostgreSQL sees who waits for whose row lock; it does not see who waits *)
(* for whose connection.                                                   *)
(***************************************************************************)
EXTENDS Sales

CONSTANTS
  MaxConns,   \* the size of the pool
  NestedBody  \* the deposits and the completions the users may send

VARIABLES
  server,     \* how far main has come
  conns       \* the requests that hold a connection, each one

serverVars == <<vars, server, conns>>

\* The counts of a check that is complete, in the order they are read.
CompleteBody == [op : {"complete"}, items : Seq(Item)]

DepositBody == [op : {"deposit"}]

ASSUME MaxConnsAssumption == MaxConns \in Nat \ {0}

ASSUME NestedBodyAssumption == NestedBody \subseteq CompleteBody \cup DepositBody

Ended(r) == pc[r] \in {"ok", "failed"}

-----------------------------------------------------------------------------
(* The two services that nest.                                             *)

ReceiveNested(r) ==
  /\ pc[r] = "idle"
  /\ \E b \in NestedBody :
       /\ call' = [call EXCEPT ![r] = b]
       /\ Goto(r, IF b.op = "complete" THEN "counts" ELSE "expense")
  /\ UNCHANGED <<db, goods, shift, sale, todo, totals>>

\* Where a completion goes when the items still to do are rest.
AfterCounts(rest) == IF rest # <<>> THEN "lock" ELSE "commit"

\* icRepo.GetItemsByCheckID, on the pool.
ReadCounts(r) ==
  /\ pc[r] = "counts"
  /\ todo' = [todo EXCEPT ![r] = call[r].items]
  /\ Goto(r, AfterCounts(call[r].items))
  /\ UNCHANGED <<db, goods, call, shift, sale, totals>>

\* icRepo.GetByID on the pool, for the location of the check, and UpdateStock
\* of the product LockItem has locked.
SetCounted(r) ==
  /\ pc[r] = "write"
  /\ call[r].op = "complete"
  /\ LET item == Head(todo[r])
     IN UpdateStock(r, item.product, item.quantity, product[r].warehouse)
  /\ todo' = [todo EXCEPT ![r] = Tail(@)]
  /\ Goto(r, AfterCounts(Tail(todo[r])))
  /\ UNCHANGED <<product, call, shift, sale, totals>>

\* The expense of a deposit, in its transaction; ListUnsettled, on the pool. The
\* debts it then settles are wanted by other deposits only, all in one order.
Deposit(r) ==
  /\ \/ pc[r] = "expense" /\ Goto(r, "list")
     \/ pc[r] = "list" /\ Goto(r, "commit")
  /\ UNCHANGED <<db, goods, locals>>

NestedStep(r) == ReadCounts(r) \/ SetCounted(r) \/ Deposit(r)

-----------------------------------------------------------------------------
(* The pool.                                                               *)

\* The next statement of r is one of its transaction, or on the pool inside it.
InTx(r) ==
  pc[r] \in {"lock", "write", "insert", "debt", "items", "remove", "aggregate", "close",
             "commit", "counts", "expense", "list"}

\* The next statement of r needs a second connection.
Nested(r) ==
  \/ pc[r] \in {"counts", "list"}
  \/ pc[r] = "write" /\ call[r].op = "complete"

\* A connection is free, and nobody has closed the pool.
Available == Cardinality(conns) < MaxConns

PoolOpen == server \in {"serving", "draining"}

\* Mutation of Returned: the connection of a request that has ended is not released.
NotReturned(r) == conns

\* Commit or the deferred Rollback gives the connection back.
Returned(r) == conns \ {r}

\* pool.Begin.
Begin(r) ==
  /\ InTx(r) /\ r \notin conns
  /\ PoolOpen /\ Available
  /\ conns' = conns \cup {r}
  /\ UNCHANGED <<vars, server>>

\* The next statement of r, with the connection it has or one it borrows.
Query(r) ==
  /\ InTx(r) => r \in conns
  /\ ~InTx(r) \/ Nested(r) => PoolOpen /\ Available
  /\ Step(r) \/ NestedStep(r)
  /\ conns' = IF Ended(r)' THEN Returned(r) ELSE conns
  /\ UNCHANGED server

\* An error, or the client hangs up: the context of the request is cancelled.
Abort(r) ==
  /\ server # "exited"
  /\ Fail(r)
  /\ conns' = Returned(r)
  /\ UNCHANGED server

\* Acquire finds the pool closed, but only once a connection is free: one who
\* waits is not told.
PoolClosed(r) ==
  /\ ~PoolOpen /\ Available
  /\ r \notin conns \/ Nested(r)
  /\ Abort(r)

Victim(r) == Deadlocked(r) /\ Abort(r)

-----------------------------------------------------------------------------
(* The process. The signal may come at any time.                           *)

Arrive(r) ==
  /\ server = "serving"
  /\ Receive(r) \/ ReceiveNested(r)
  /\ UNCHANGED <<server, conns>>

Signal ==
  /\ server = "serving"
  /\ server' = "draining"
  /\ UNCHANGED <<vars, conns>>

\* srv.Shutdown returns when no request is left or after ten seconds, whichever
\* comes first, and the deferred pool.Close begins.
ClosePool ==
  /\ server = "draining"
  /\ server' = "closing"
  /\ UNCHANGED <<vars, conns>>

\* Mutation of AllReturned: pool.Close does not wait.
NoWait == TRUE

\* What pool.Close waits for.
AllReturned == conns = {}

Exit ==
  /\ server = "closing" /\ AllReturned
  /\ server' = "exited"
  /\ UNCHANGED <<vars, conns>>

ServerInit == Init /\ server = "serving" /\ conns = {}

ServerNext ==
  \/ \E r \in Req : Arrive(r) \/ Begin(r) \/ Query(r) \/ PoolClosed(r) \/ Abort(r)
  \/ Signal \/ ClosePool \/ Exit

ServerSpec == ServerInit /\ [][ServerNext]_serverVars

\* The runtime runs every goroutine, the pool serves those who wait in turn,
\* PostgreSQL answers and breaks circles of row locks, and the ten seconds pass.
\* Nobody has to hang up.
ServerFairSpec ==
  /\ ServerSpec
  /\ \A r \in Req : WF_serverVars(Begin(r) \/ Query(r) \/ PoolClosed(r) \/ Victim(r))
  /\ WF_serverVars(ClosePool \/ Exit)

-----------------------------------------------------------------------------
(* Properties.                                                             *)

\* The row lock the next statement of r needs is another's.
Waiting(r) == \E q \in Req : WaitsFor(r, q)

\* Every connection is held by a request that waits for another one or for a
\* row, one at least for a connection: a circle PostgreSQL cannot see whole.
Exhausted ==
  /\ ~Available
  /\ \A r \in conns : Nested(r) \/ Waiting(r)
  /\ \E r \in conns : Nested(r)

(* Every request that has arrived ends, although sales lock the products   *)
(* in the order of their items and may wait in a circle, and although the  *)
(* pool is small: unless the process exits before, or hangs for ever with  *)
(* all its connections held around a completion or a deposit that wants a  *)
(* second one.                                                             *)
EveryRequestEnds ==
  \A r \in Req :
    (pc[r] # "idle") ~> (Ended(r) \/ server = "exited" \/ []Exhausted)

(* Once the signal has come the process exits, whatever was in flight,     *)
(* with the same exception: then pool.Close waits for ever, after the ten  *)
(* seconds of Shutdown have passed.                                        *)
ShutdownEnds == (server = "draining") ~> (server = "exited" \/ []Exhausted)

(* The exit interrupts no transaction: those that outlive the ten seconds  *)
(* of Shutdown commit or are rolled back by their own handlers, and until  *)
(* then every one that has locked or written a row holds a connection.     *)
ExitIsClean ==
  /\ \A r \in Req : draft[r] # NoDraft => r \in conns
  /\ server = "exited" => \A r \in Req : draft[r] = NoDraft
=============================================================================
