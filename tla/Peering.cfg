SPECIFICATION Spec
CONSTANTS
  Here = Here
  There = There
  MaxMints = 3
  MaxUpsets = 2
SYMMETRY InstanceSymmetry
INVARIANTS
  TypeOK
  ActiveSecretIsShared
  SameSecretUnlessOvertaken
  GatedRowsAreLocal
PROPERTIES
  RevokedOutlivesPeer
  ActiveEndsAtHome
CHECK_DEADLOCK FALSE
