-------------------------- MODULE MCInventoryChecks --------------------------
(***************************************************************************)
(* The storehouse of MCSupply with a check of the shop that is half        *)
(* counted, and the requests that go on with it, complete it or start      *)
(* another while the goods move.                                           *)
(***************************************************************************)
EXTENDS MCSupply, InventoryChecks

CONSTANT spring

MCCheckPast == MCPast \cup {spring}
MCCheckItem == (Req \cup {spring}) \X MCProduct

MCCheckInitRow ==
  [x \in DOMAIN MCInitRow \cup {spring} \cup MCCheckItem |->
     CASE x = spring            -> [kind |-> "check", location |-> "shop", status |-> "in_progress"]
       [] x = <<spring, shirt>> -> [kind |-> "item", expected |-> 1, actual |-> 2]
       [] x \in DOMAIN MCInitRow -> MCInitRow[x]
       [] x = <<spring, sock>>  -> [kind |-> "item", expected |-> 0, actual |-> NoRow]
       [] OTHER                 -> NoRow]

Check(place) == [op |-> "check", location |-> place]
Qty(c, p, n) == [item |-> <<c, p>>, qty |-> n]
Counts(c, counts, complete) ==
  [op |-> "count", check |-> c, counts |-> counts, complete |-> complete]

\* Of the counts one is wrong, one names the items in the other order, and one
\* is for an item of another check.
MCCheckBody ==
  {Check("warehouse"),
   Counts(spring, <<Qty(spring, sock, 1)>>, FALSE),
   Counts(spring, <<Qty(spring, sock, -1)>>, FALSE),
   Counts(spring, <<Qty(spring, shirt, 3), Qty(spring, sock, 0)>>, TRUE),
   Counts(spring, <<Qty(spring, sock, 2), Qty(spring, shirt, 0)>>, FALSE),
   Counts(spring, <<>>, TRUE)}
  \cup UNION {{Counts(r, <<Qty(r, shirt, 0), Qty(spring, sock, 0)>>, FALSE),
               Counts(r, <<>>, TRUE)} : r \in Req}

MCGoodsBody == MCBody \cup MCCheckBody
=============================================================================
