CONSTANTS
  Size = 3
  Fan = 2
  MaxSends = 1
  MaxFaults = 1
  Faulters = {0, 1, 2}
  SyncData = TRUE
  SyncControl = FALSE
  Catchers = {}
SPECIFICATION Spec
INVARIANT NoIsendAfterRecovery
