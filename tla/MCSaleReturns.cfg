SPECIFICATION ReturnsSpec
CONSTANTS
  Req = {r1, r2, r3}
  NoRow = NoRow
  shirt = shirt
  sock = sock
  hat = hat
  ann = ann
  bob = bob
  eve = eve
  sold = sold
  till = till
  day = day
  old = old
  returned = returned
  ret = ret
  gift = gift
  Product <- MCProduct
  Client <- MCClient
  Past <- DiscountedPast
  InitRow <- DiscountedInitRow
  Body <- ShopBody
  ReturnBody <- MCReturnBody
  Price <- MCPrice
  Discount <- MCDiscount
SYMMETRY Symmetry
CHECK_DEADLOCK FALSE
INVARIANTS
  ReturnsTypeOK
  NoOversell
  ReturnsHaveItems
  GoodsReconcile
  DebtsReconcile
  ForgivenIsOwed
PROPERTY
  MovesAtomically
