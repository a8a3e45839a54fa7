SPECIFICATION McpFairSpec
CONSTANTS
  s1 = s1
  s2 = s2
  x = x
  y = y
  Never = Never
  Nothing = Nothing
  Context = Context
  Key <- MCKey
  Request <- MCRequest
  Options <- MCOptions
  Arguments <- MCArguments
  Send <- MCSend
  Verifying <- MCVerifying
  MaxTime = 2
  MaxDelay = 1
INVARIANTS
  NonceHeldWhileValid
  AnswerIsTrue
  RepeatRunsOnce
  ToldIsTrue
PROPERTIES
  DeadlineIsAnswered
CHECK_DEADLOCK FALSE
