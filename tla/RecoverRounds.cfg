CONSTANTS
  Size = 3
  Fan = 2
  MaxSends = 3
  MaxFaults = 1
  SyncData = FALSE
  SyncControl = FALSE
  Faulters = {0,1,2}
  Catchers = {}
SPECIFICATION Spec
INVARIANTS
  TypeOK
  QuietWhenRootLeaves
  NetExact
