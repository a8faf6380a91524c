SPECIFICATION CheckSpec
CONSTANTS
  Req = {r1, r2, r3}
  NoRow = NoRow
  shirt = shirt
  sock = sock
  hat = hat
  acme = acme
  bolt = bolt
  cove = cove
  first = first
  ghost = ghost
  spring = spring
  Product <- MCProduct
  Supplier <- MCSupplier
  Past <- MCCheckPast
  Item <- MCCheckItem
  Cost <- MCCost
  Parts = 4
  InitRow <- MCCheckInitRow
  Body <- MCGoodsBody
SYMMETRY Symmetry
CHECK_DEADLOCK FALSE
INVARIANT
  SetsItsOwnCounts
