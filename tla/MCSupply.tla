------------------------------ MODULE MCSupply ------------------------------
(***************************************************************************)
(* A small storehouse for TLC: two products and a third to come, a         *)
(* supplier who is owed for an order, one who is not and one to come, and  *)
(* the requests that touch them.                                           *)
(***************************************************************************)
EXTENDS Supply, TLC

CONSTANTS shirt, sock, hat, acme, bolt, cove, first, ghost

MCProduct == {shirt, sock, hat}
MCSupplier == {acme, bolt, cove}
MCPast == {first, ghost}
MCItem == {}
MCCost == [p \in MCProduct |-> IF p = shirt THEN 2 ELSE 1]

Quantities(shop, warehouse) ==
  [kind |-> "product", shop |-> shop, warehouse |-> warehouse, live |-> TRUE]
Owed(debt) == [kind |-> "supplier", debt |-> debt, live |-> TRUE]
Of(p, shop, warehouse) == [product |-> p, shop |-> shop, warehouse |-> warehouse]

MCInitRow ==
  [x \in MCProduct \cup MCSupplier \cup Req \cup MCPast |->
     CASE x = shirt -> Quantities(1, 1)
       [] x = sock  -> Quantities(0, 2)
       [] x = acme  -> Owed(3)
       [] x = bolt  -> Owed(0)
       [] x = first -> [kind |-> "order", supplier |-> acme, moves |-> <<Of(shirt, 1, 0)>>,
                        total |-> 3, paid |-> 0, booked |-> 0, status |-> "unpaid"]
       [] OTHER     -> NoRow]

ToShop(p, n) == [op |-> "transfer", moves |-> <<Of(p, n, -n)>>]
Order(s, moves, total, paid) ==
  [op |-> "order", supplier |-> s, moves |-> moves, total |-> total, paid |-> paid]
Money(s, o, amount) ==
  [op |-> "payment", supplier |-> s, order |-> o, moves |-> <<>>, amount |-> amount]
GoodsBack(s, o, p, n) ==
  [op |-> "payment", supplier |-> s, order |-> o, moves |-> <<Of(p, -n, 0)>>, amount |-> 0]
New(x, row) == [op |-> "create", name |-> x, row |-> row]
Update(p, set, shop) ==
  [op |-> "update", product |-> p, set |-> set, shop |-> shop, warehouse |-> 0]
Rename(s) == [op |-> "rename", supplier |-> s]
Delete(x) == [op |-> "delete", row |-> x]

\* Four parts make a unit: some amounts end in a quarter or in a half, and one order
\* is paid up to less than its total rounds off. Two of the orders lock the products
\* in opposite orders, one is paid too much; ghost is the name of no order.
MCBody ==
  {ToShop(shirt, 1), ToShop(shirt, -1), ToShop(sock, 2),
   Order(acme, <<Of(shirt, 0, 1), Of(sock, 1, 0)>>, 10, 1),
   Order(bolt, <<Of(sock, 0, 1), Of(shirt, 1, 0)>>, 12, 11),
   Order(bolt, <<Of(sock, 1, 0)>>, 4, 5),
   Money(acme, first, 8), Money(acme, NoRow, 2), Money(bolt, ghost, 4),
   GoodsBack(acme, first, shirt, 1), GoodsBack(bolt, NoRow, sock, 1),
   Update(shirt, {}, 0), Update(shirt, {"shop"}, 3), Rename(acme),
   Delete(shirt), Delete(acme),
   New(hat, Quantities(1, 0)), New(cove, Owed(0)), ToShop(hat, -1),
   Order(cove, <<Of(hat, 1, 0)>>, 8, 8), GoodsBack(cove, NoRow, hat, 1), Delete(hat)}
  \cup {Money(bolt, r, 6) : r \in Req}

Symmetry == Permutations(Req)
=============================================================================
