------------------------------ MODULE MCSales ------------------------------
(***************************************************************************)
(* A small shop for TLC: two products (and one that was deleted), a client *)
(* who buys on credit, a shift that is open with two sales in it, one that *)
(* was closed with one in it, and the requests that touch them.            *)
(***************************************************************************)
EXTENDS Sales, TLC

CONSTANTS shirt, sock, hat, ann, bob, eve, sold, till, day, old, returned, ret

MCProduct == {shirt, sock, hat}
MCClient == {ann, bob}
MCPast == {eve, sold, till, day, old, returned, ret}

Of(p, n) == [product |-> p, quantity |-> n]

\* hat and bob were deleted; old is a sale on credit of two shirts, returned a
\* sale of a sock that has come back.
MCInitRow ==
  [x \in MCProduct \cup MCClient \cup Req \cup MCPast |->
     CASE x = shirt -> [kind |-> "product", shop |-> 2, warehouse |-> 1, live |-> TRUE]
       [] x = sock  -> [kind |-> "product", shop |-> 1, warehouse |-> 0, live |-> TRUE]
       [] x = hat   -> [kind |-> "product", shop |-> 1, warehouse |-> 0, live |-> FALSE]
       [] x = ann   -> [kind |-> "client", debt |-> 3, live |-> TRUE]
       [] x = bob   -> [kind |-> "client", debt |-> 0, live |-> FALSE]
       [] x = eve   -> [kind |-> "shift", status |-> "closed", rank |-> 0,
                        totals |-> [sales |-> {sold}, paid |-> {"online"}]]
       [] x = sold  -> [kind |-> "sale", shift |-> eve, items |-> <<Of(sock, 2)>>,
                        paid |-> {"online"}, owed |-> 0, client |-> ann]
       [] x = till  -> [kind |-> "booking", shift |-> eve, sales |-> {sold},
                        entries |-> {e \in Entry : e.of = "online"}]
       [] x = day   -> [kind |-> "shift", status |-> "open", rank |-> 1, totals |-> NoTotals]
       [] x = old   -> [kind |-> "sale", shift |-> day, items |-> <<Of(shirt, 2)>>,
                        paid |-> {"cash", "debt"}, owed |-> 3, client |-> ann]
       [] x = returned -> [kind |-> "sale", shift |-> day, items |-> <<Of(sock, 1)>>,
                        paid |-> {"terminal"}, owed |-> 0, client |-> ann]
       [] x = ret   -> [kind |-> "return", sale |-> returned,
                        item |-> [of |-> returned, index |-> 1], quantity |-> 1,
                        new |-> NoRow, debt |-> 0,
                        safe |-> {[type |-> "expense", balance |-> "terminal"]}]
       [] OTHER     -> NoRow]

Create(items, paid, owed, client, exact) ==
  [op |-> "create", items |-> items, paid |-> paid, owed |-> owed, client |-> client,
   exact |-> exact]

\* The two sales of both products lock them in opposite orders; one of them
\* names the same product twice.
Sale1 == Create(<<Of(shirt, 1), Of(sock, 1), Of(shirt, 1)>>, {"cash", "debt"}, 1, ann, TRUE)
Sale2 == Create(<<Of(sock, 1), Of(shirt, 1)>>, {"online"}, 0, ann, TRUE)
SaleWrong == Create(<<Of(shirt, 1)>>, {"cash"}, 0, ann, FALSE)
SaleBob == Create(<<Of(shirt, 1)>>, {"debt"}, 2, bob, TRUE)
SaleHat == Create(<<Of(hat, 1)>>, {"cash"}, 0, ann, TRUE)
Delete(x) == [op |-> "delete", sale |-> x]
Open == [op |-> "open"]
Close == [op |-> "close"]

MCBody == {Sale1, Sale2, SaleWrong, SaleBob, SaleHat, Open, Close, Delete(returned),
           Delete(old), Delete(sold)} \cup {Delete(r) : r \in Req}

Symmetry == Permutations(Req)
=============================================================================
