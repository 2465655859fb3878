SPECIFICATION FairSpec
CONSTANTS
  Stubs = {s1}
  Accounts = {a1}
  MaxEpoch = 2
  MaxRows = 2
  MaxProbes = 1
INVARIANTS
  TypeOK
  FlagsFollowJournal
  UnchangedUntouched
  SparedSurvive
  ActiveMeansHealed
PROPERTIES
  HealsByProof
  HealIsComplete
  ResetNoticed
CHECK_DEADLOCK FALSE
