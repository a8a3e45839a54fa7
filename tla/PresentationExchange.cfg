CONSTANTS
  None = None
  ann = ann
  bob = bob
  shop = shop
  other = other
  Request <- MCRequest
  Input <- MCInput
  MaxTime = 4
SPECIFICATION Spec
INVARIANTS
  BuiltIsAccepted
  AcceptedWhereAsked
CHECK_DEADLOCK FALSE
