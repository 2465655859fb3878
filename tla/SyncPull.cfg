SPECIFICATION FairSpec
CONSTANTS
  Limit = 1
  Skew = 1
  MaxLog = 2
  MaxTime = 2
  MaxPeerRows = 2
INVARIANTS
  TypeOK
  Covered
PROPERTIES
  KeepsPromise
  PullEnds
CHECK_DEADLOCK FALSE
