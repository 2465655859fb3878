SPECIFICATION FairSpec
CONSTANTS
  Here = Here
  There = There
  NoSecret = NoSecret
  Grace = 2
  HealthInterval = 2
  AuthFailureThreshold = 2
  MaxRotations = 2
  MaxRestarts = 1
INVARIANTS
  TypeOK
  UnderstoodOutsideWindows
PROPERTIES
  RotationsFollowOneAnother
  UnderstoodAgain
CHECK_DEADLOCK FALSE
