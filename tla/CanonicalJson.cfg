CONSTANTS
  Unsigned = Unsigned
  Refused = Refused
  Undefined = Undefined
  Family <- MCFamily
  Supported <- MCSupported
  Collation <- MCCollation
  Record <- MCRecord
  Envelope <- MCEnvelope
  Signature <- MCSignature
  MaxDepth = 2
  MaxItems = 2
  MaxUnits = 2
SPECIFICATION SigningSpec
INVARIANTS
  SignedVerifies
  ChangesAreSeen
CHECK_DEADLOCK FALSE
