SPECIFICATION MCSpec
CONSTANTS
  a0 = a0
  a1 = a1
  peer = peer
  Keys = {a0, a1, peer}
  Root = a0
  Own = {a0, a1}
  Expiries = {None, 1}
  Levels <- MCLevels
  ListIds = {home, other}
  home = home
  other = other
  Indexes = {0}
  OutOfBounds = 1
  Claims <- MCClaims
  MaxAge = 0
  SealsForward = TRUE
  MaxRotations = 2
  MaxVersion = 2
  Horizon = 2
  alice = alice
  bob = bob
  pen1 = pen1
  pen2 = pen2
  People = {alice, bob}
  Pens = {pen1, pen2}
  Staffs <- MCStaffs
  Actions = {"pay", "pay for carol"}
  Ends = {None, 1}
  MaxDirectories = 2
  None = None
INVARIANT
  RepudiationSticks
  RevocationBites
  BelievedIsSigned
  ApproverIsEnrolled
PROPERTY
  RotationKeepsTrust
CHECK_DEADLOCK FALSE
