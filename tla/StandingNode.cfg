SPECIFICATION Spec
CONSTANTS
  p1 = p1
  p2 = p2
  b1 = b1
  b2 = b2
  c1 = c1
  c2 = c2
  n1 = n1
  n2 = n2
  d1 = d1
  d2 = d2
  r1 = r1
  r2 = r2
  i1 = i1
  i2 = i2
  h1 = h1
  h2 = h2
  None = None
  ProposalId <- MCProposalId
  Body <- MCBody
  Endpoint <- MCEndpoint
  NoticeId <- MCNoticeId
  DecisionId <- MCDecisionId
  ReleaseId <- MCReleaseId
  InvalidationId <- MCInvalidationId
  ProposalInput <- MCProposalInput
  ReleaseInput <- MCReleaseInput
  InvalidationInput <- MCInvalidationInput
  Handler <- MCTwoHandlers
  MaxCrashes = 1
INVARIANTS
  RecordsAreBound
  RecordedIsQueued
  DecisionFindsCoordinator
  OneLocalDecision
  InvalidationOnce
PROPERTIES
  ReleasedStaysUnmarked
  ReleasedNotInvalidated
  NoDecisionAfterInvalidation
SYMMETRY Symmetry
CHECK_DEADLOCK FALSE
