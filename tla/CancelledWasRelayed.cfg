SPECIFICATION Spec
CONSTANTS
  p1 = p1
  p2 = p2
  m1 = m1
  m2 = m2
  NoPeer = NoPeer
  Peers <- OnePeer
  Msgs <- OneMessage
  MaxEdits = 0
  MaxLate = 0
  UnreachableThreshold = 2
  AuthFailureThreshold = 2
PROPERTIES
  CancelledWasNeverRelayed
CHECK_DEADLOCK FALSE
