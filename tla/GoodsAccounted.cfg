SPECIFICATION Spec
CONSTANTS
  Req = {r1, r2, r3}
  NoRow = NoRow
  shirt = shirt
  sock = sock
  hat = hat
  ann = ann
  bob = bob
  eve = eve
  sold = sold
  till = till
  day = day
  old = old
  returned = returned
  ret = ret
  Product <- MCProduct
  Client <- MCClient
  Past <- MCPast
  InitRow <- MCInitRow
  Body <- MCBody
SYMMETRY Symmetry
CHECK_DEADLOCK FALSE
INVARIANT
  GoodsAccounted
