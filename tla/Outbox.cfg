SPECIFICATION FairSpec
CONSTANTS
  e1 = e1
  e2 = e2
  m1 = m1
  m2 = m2
  h1 = h1
  h2 = h2
  None = None
  EntryId <- MCEntryId
  Payload <- MCPayload
  Handler <- MCOneHandler
  MaximumAttempts = 3
  InitialBackoff = 1
  MaximumBackoff = 2
  JitterPercent = 50
  MaxCrashes = 1
INVARIANTS
  OneSender
  ScheduledUntilSettled
PROPERTIES
  ImplementsDelivery
  LockIsReleased
  SettlesUnlessEscaped
