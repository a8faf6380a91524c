------------------------------ MODULE Products ------------------------------
(***************************************************************************)
(* The product rows and the two statements every stock-moving service uses *)
(* on them inside its transaction (internal/repository/product.go).        *)
(***************************************************************************)
EXTENDS Integers, ReadCommitted

CONSTANT Product

VARIABLES
  product,  \* the product row each request has in its variable `product'
  moved     \* history: what the updates of each request add to each product

ProductRow == [kind : {"product"}, shop : Int, warehouse : Int, live : BOOLEAN]

Movement == [shop : Int, warehouse : Int]

Still == [p \in Product |-> [shop |-> 0, warehouse |-> 0]]

\* Mutation of GetByIDForUpdate: a SELECT without FOR UPDATE.
GetByIDNoLock(r, p) ==
  /\ table[p].live
  /\ product' = [product EXCEPT ![r] = Seen(r, p)]
  /\ UNCHANGED db

\* SELECT ... WHERE is_deleted = false FOR UPDATE finds product p ...
GetByIDForUpdate(r, p) ==
  /\ Seen(r, p).live
  /\ LockRow(r, p)
  /\ product' = [product EXCEPT ![r] = Seen(r, p)]

\* ... or, once the lock is free, finds that p has been deleted.
ProductNotFound(r, p) == Free(r, p) /\ ~Seen(r, p).live

\* UPDATE products SET qty_shop = shop, qty_warehouse = warehouse: the new
\* quantities are absolute, computed by the caller from the row it has read.
UpdateStock(r, p, shop, warehouse) ==
  /\ Write(r, [x \in {p} |-> [Seen(r, p) EXCEPT !.shop = shop, !.warehouse = warehouse]])
  /\ moved' = [moved EXCEPT ![r][p] =
                 [shop |-> @.shop + shop - product[r].shop,
                  warehouse |-> @.warehouse + warehouse - product[r].warehouse]]
=============================================================================
