CONSTANTS
  Size = 4
  Fan = 2
  MaxSends = 1
  MaxFaults = 2
  Faulters = {0, 1, 2, 3}
  SyncData = FALSE
  SyncControl = FALSE
  Catchers = {2}
SPECIFICATION Spec
INVARIANTS
  ControlFollowsTree
  FrankAgreed
  NothingLeftToClear
  RoundInv
PROPERTY HaltSpec
CHECK_DEADLOCK FALSE
