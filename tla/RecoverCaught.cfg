CONSTANTS
  Size = 3
  Fan = 2
  MaxSends = 0
  MaxFaults = 1
  Faulters = {1}
  SyncData = FALSE
  SyncControl = FALSE
  Catchers = {2}
SPECIFICATION FairSpec
PROPERTY Recovers
CHECK_DEADLOCK FALSE
