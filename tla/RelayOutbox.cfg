SPECIFICATION Spec
CONSTANTS
  p1 = p1
  p2 = p2
  m1 = m1
  m2 = m2
  NoPeer = NoPeer
  Peers <- OnePeer
  Msgs <- TwoMessages
  MaxEdits = 1
  MaxLate = 1
  UnreachableThreshold = 2
  AuthFailureThreshold = 2
SYMMETRY PeerAndMessageSymmetry
INVARIANTS
  TypeOK
  OneRowPerEntity
  OneCopyPerMessage
  InSyncWhenQuiet
PROPERTIES
  PromiseSpec
CHECK_DEADLOCK FALSE
