CONSTANTS
  None = None
  ann = ann
  shop = shop
  other = other
  Uri <- MCUri
  Connect <- MCConnect
  Model <- MCModel
  Definition <- MCDefinition
  Approval <- MCApproval
  Deadline = {1, 3}
  TimeoutMs = {2, 3}
  MaxDelay = 2
  MaxTime = 4
SPECIFICATION FairSpec
INVARIANTS
  CauseIsReal
  NothingLeftBehind
  PresentedWithinConsent
PROPERTY
  CallsSettle
CHECK_DEADLOCK FALSE
