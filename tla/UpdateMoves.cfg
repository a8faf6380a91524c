SPECIFICATION Spec
CONSTANTS
  Req = {r1, r2, r3}
  NoRow = NoRow
  shirt = shirt
  sock = sock
  hat = hat
  acme = acme
  bolt = bolt
  cove = cove
  first = first
  ghost = ghost
  Product <- MCProduct
  Supplier <- MCSupplier
  Past <- MCPast
  Item <- MCItem
  Cost <- MCCost
  Parts = 4
  InitRow <- MCInitRow
  Body <- MCBody
SYMMETRY Symmetry
CHECK_DEADLOCK FALSE
INVARIANT
  UpdateMovesOnlyWhatItSets
