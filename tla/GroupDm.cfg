SPECIFICATION Spec
CONSTANTS
  A = A
  B = B
  C = C
  a1 = a1
  a2 = a2
  b = b
  c = c
  NoOne = NoOne
  NoName = NoName
  n1 = n1
  Names = {NoName, n1}
  NoIcon = NoIcon
  ic = ic
  Icons = {NoIcon, ic}
  Instances = {A, B, C}
  Users = {a1, a2, b, c}
  Home <- MCHome
  Founders = {A}
  MaxMembers = 4
  MaxEvents = 4
  MaxStamp = 2
  Lossy = {A}
  MaxUnheard = 1
SYMMETRY HomeSymmetry
INVARIANTS
  TypeOK
  OneOwnerSeat
  SeatNotLost
  SeatFoundWhenQuiet
  OwnersAgreeWhenQuiet
  NamesAgreeWhenQuiet
  AddedAreReached
PROPERTIES
  SeatLeavesByTransfer
  SeatIsBaton
CHECK_DEADLOCK FALSE
