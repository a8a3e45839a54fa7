SPECIFICATION Spec
CONSTANTS
  s1 = s1
  s2 = s2
  s3 = s3
  x = x
  y = y
  Never = Never
  Nothing = Nothing
  Key <- MCKey
  Request <- MCRequest
  Options <- MCOptions
  Send <- MCThreeSends
  Verifying <- MCVerifying
  MaxTime = 2
  MaxDelay = 1
SYMMETRY Symmetry
INVARIANTS
  SameRequestOnce
CHECK_DEADLOCK FALSE
