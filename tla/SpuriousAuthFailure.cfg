SPECIFICATION Spec
CONSTANTS
  Here = Here
  There = There
  NoSecret = NoSecret
  Grace = 2
  HealthInterval = 2
  AuthFailureThreshold = 2
  MaxRotations = 1
  MaxRestarts = 0
PROPERTIES
  NoSpuriousAuthFailure
CHECK_DEADLOCK FALSE
