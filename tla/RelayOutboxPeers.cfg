SPECIFICATION Spec
CONSTANTS
  p1 = p1
  p2 = p2
  m1 = m1
  m2 = m2
  NoPeer = NoPeer
  Peers <- TwoPeers
  Msgs <- OneMessage
  MaxEdits = 2
  MaxLate = 1
  UnreachableThreshold = 2
  AuthFailureThreshold = 2
SYMMETRY PeerAndMessageSymmetry
INVARIANTS
  InSyncWhenQuiet
PROPERTIES
  RegressesOnlyLate
CHECK_DEADLOCK FALSE
