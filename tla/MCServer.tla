------------------------------ MODULE MCServer ------------------------------
(***************************************************************************)
(* The shop of MCSales behind a pool of two connections: sales that lock   *)
(* the products in opposite orders, the completion of a check of one of    *)
(* them and a deposit, until the process is told to stop.                  *)
(***************************************************************************)
EXTENDS MCSales, Server

Buy(items, owed) ==
  Create(items, IF owed > 0 THEN {"cash", "debt"} ELSE {"cash"}, owed, ann, TRUE)

LiveBody ==
  {Buy(<<Of(shirt, 1), Of(sock, 1)>>, 0), Buy(<<Of(sock, 1), Of(shirt, 1)>>, 1)}

Complete(items) == [op |-> "complete", items |-> items]

LiveNestedBody == {Complete(<<Of(shirt, 2)>>), [op |-> "deposit"]}
=============================================================================
