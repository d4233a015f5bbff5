CONSTANTS
  Size = 3
  Fan = 2
  MaxSends = 0
  MaxFaults = 2
  Faulters = {1, 2}
  SyncData = FALSE
  SyncControl = FALSE
  Catchers = {}
SPECIFICATION Spec
INVARIANT LateAlertDiscarded
