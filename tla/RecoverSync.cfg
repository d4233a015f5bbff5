CONSTANTS
  Size = 4
  Fan = 2
  MaxSends = 1
  MaxFaults = 1
  Faulters = {0, 1, 2, 3}
  SyncData = TRUE
  SyncControl = TRUE
  Catchers = {}
SPECIFICATION FairSpec
INVARIANT NeverFatal
PROPERTY Recovers
