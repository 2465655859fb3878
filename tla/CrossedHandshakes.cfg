SPECIFICATION Spec
CONSTANTS
  Here = Here
  There = There
  MaxMints = 2
  MaxUpsets = 0
INVARIANTS
  BothStoreSameSecret
CHECK_DEADLOCK FALSE
