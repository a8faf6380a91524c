SPECIFICATION SessionsSpec
CONSTANTS
  Req = {r1, r2, r3}
  NoRow = NoRow
  acme = acme
  bolt = bolt
  cord = cord
  dust = dust
  olga = olga
  pavel = pavel
  Past <- MCPast
  InitRow <- MCInitRow
  Body <- MCBody
  phone = phone
  desk = desk
  lapsed = lapsed
  PastToken <- MCPastToken
  InitToken <- MCInitToken
  AuthBody <- MCAuthBody
SYMMETRY Symmetry
CHECK_DEADLOCK FALSE
INVARIANTS
  SessionsTypeOK
  KeysUnique
  WalkMissesNothing
  WalkRepeatsNothing
  TotalIsReached
  ClaimsAreCurrent
  GoneIsGone
PROPERTY
  DeletedIsFinal
