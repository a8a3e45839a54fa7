SPECIFICATION Spec
CONSTANTS
  alice = alice
  bob = bob
  p1 = p1
  p2 = p2
  n1 = n1
  n2 = n2
  i1 = i1
  i2 = i2
  d1 = d1
  d2 = d2
  d3 = d3
  d4 = d4
  hire = hire
  s1 = s1
  s2 = s2
  None = None
  MaxTime = 3
  ProposalId <- MCProposalId
  NotificationId <- MCNotificationId
  InvalidationId <- MCInvalidationId
  DecisionId <- MCDecisionId
  Entity <- MCEntity
  Purpose <- MCPurpose
  Scope <- MCScope
  ProposalInput <- MCProposalInput
  NotificationInput <- MCNotificationInput
  DecisionInput <- MCDecisionInput
  InvalidationInput <- MCInvalidationInput
INVARIANTS
  StoresAgree
  ReleaseIsTheAgreement
PROPERTIES
  ImplementsDisclosure
