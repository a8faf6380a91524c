--------------------------- MODULE MCSaleReturns ---------------------------
(***************************************************************************)
(* The shop of MCSales with requests that return what `old' and `returned' *)
(* sold, among a sale of the same products and deletions of both sales.    *)
(***************************************************************************)
EXTENDS MCSales, SaleReturns

CONSTANT gift

Return(x, i, n, kind, new) ==
  [op |-> "return", sale |-> x, item |-> i, quantity |-> n, kind |-> kind, new |-> new]

\* `old' has no discount: four, of which three are owed. `returned' is a sale of
\* two socks at four with a discount of two, half of it owed: what each sock gives
\* back is two of the debt of three. `gift' is discounted to nothing.
DiscountedPast == MCPast \cup {gift}
DiscountedInitRow ==
  [MCInitRow EXCEPT
     ![returned] = [@ EXCEPT !.items = <<Of(sock, 2)>>, !.owed = 3, !.paid = {"terminal", "debt"}],
     ![ret] = [@ EXCEPT !.debt = 2]]
  @@ gift :> [kind |-> "sale", shift |-> day, items |-> <<Of(sock, 1)>>, paid |-> {},
              owed |-> 0, client |-> ann]

MCPrice == [p \in MCProduct |-> IF p = sock THEN 4 ELSE 2]
MCDiscount ==
  [x \in Req \cup DiscountedPast |->
     CASE x = returned -> 2 [] x = gift -> 4 [] OTHER -> 0]

Shirts == [of |-> old, index |-> 1]
Socks == [of |-> returned, index |-> 1]
Gifts == [of |-> gift, index |-> 1]

\* The last three name an item of another sale, one of which half has come
\* back, and one that cost nothing in the end.
MCReturnBody ==
  {Return(old, Shirts, 1, "full", NoRow),
   Return(old, Shirts, 2, "exchange", sock),
   Return(old, Shirts, 1, "exchange_diff", shirt),
   Return(old, Shirts, 1, "exchange", hat),
   Return(returned, Shirts, 1, "full", NoRow),
   Return(returned, Socks, 1, "full", NoRow),
   Return(gift, Gifts, 1, "full", NoRow)}

ShopBody == {Sale2, Delete(old), Delete(returned)}
=============================================================================
