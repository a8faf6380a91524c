------------------------------- MODULE Stock -------------------------------
(***************************************************************************)
(* What the services that move goods promise about the stock columns of    *)
(* products, qty_shop and qty_warehouse: a request moves its goods at one  *)
(* instant or not at all, the change is exactly the sum of what its own    *)
(* statements did, whatever the others do meanwhile, and no quantity goes  *)
(* below zero. README.md ("prevent races") and the CHECK constraints of    *)
(* migrations/001_init.sql promise this; Sales implements it.              *)
(***************************************************************************)
EXTENDS Integers

CONSTANTS Req, Product

VARIABLES
  stock,    \* stock[p]: the goods of product p, in the shop and in the warehouse
  moved     \* moved[r][p]: what request r has added to them

Quantity == [shop : Nat, warehouse : Nat]

\* No movement at all.
Still == [p \in Product |-> [shop |-> 0, warehouse |-> 0]]

Init ==
  /\ stock \in [Product -> Quantity]
  /\ moved = [r \in Req |-> Still]

\* Request r, which had moved nothing, moves moved'[r], all of it at once.
Move(r) ==
  /\ moved[r] = Still
  /\ \A q \in Req \ {r} : moved'[q] = moved[q]
  /\ \A p \in Product :
       /\ stock'[p].shop = stock[p].shop + moved'[r][p].shop
       /\ stock'[p].warehouse = stock[p].warehouse + moved'[r][p].warehouse
       /\ stock'[p] \in Quantity

Next == \E r \in Req : Move(r)

Spec == Init /\ [][Next]_<<stock, moved>>
=============================================================================
