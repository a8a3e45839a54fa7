SPECIFICATION Spec
CONSTANTS
  a = a
  b = b
  c = c
  x = x
  y = y
  h1 = h1
  h2 = h2
  Identity <- MCIdentity
  Nonce <- MCNonce
  Handler <- MCTwoHandlers
  Window = 2
  MaximumRequests = 2
  MaximumPeers = 2
  MaxTime = 3
  MaxCrashes = 1
SYMMETRY Symmetry
INVARIANTS
  RateIsBounded
  ReuseNeedsOverlap
CHECK_DEADLOCK FALSE
