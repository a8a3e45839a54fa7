CONSTANTS
  t1 = t1
  t2 = t2
  alice = alice
  bob = bob
  q1 = q1
  r1 = r1
  r2 = r2
  e1 = e1
  k1 = k1
  k2 = k2
  rootA = rootA
  rootB = rootB
  peer = peer
  operator = operator
  Handler <- MCHandler
  Query <- MCQuery
  Request <- MCRequest
  Record <- MCRecord
  ConfiguredRecord <- MCConfigured
  Announcement <- MCAnnouncement
  Descriptor <- MCDescriptor
  Anchor <- MCAnchor
  AuthorizedUntil = 2
  MaxTime = 2
SYMMETRY MCSymmetry
SPECIFICATION Spec
INVARIANTS
  DereferenceIsGranted
  AuthorizationIsFelt
  CandidateWasOffered
  VerifiersAgree
