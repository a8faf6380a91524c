SPECIFICATION Spec
CONSTANTS
  Req = {r1, r2, r3}
  NoRow = NoRow
  ann = ann
  bob = bob
  lender = lender
  usurer = usurer
  nobody = nobody
  monday = monday
  tuesday = tuesday
  friday = friday
  Client <- MCClient
  Creditor <- MCCreditor
  Parts = 4
  Newest <- MCNewest
  InitRow <- MCInitRow
  Body <- MCBody
SYMMETRY Symmetry
CHECK_DEADLOCK FALSE
INVARIANTS
  TypeOK
  DebtsReconcile
  SafeAgrees
  SettledIsPaid
PROPERTIES
  DeletedIsFinal
