CONSTANTS
  Funcs = {f, g}
  ByName = {g}
  Args = {x}
  ByRef = {}
  Delays = {0, 1}
  Chunk = 1
  MaxSlots = 2
  MaxCalls = 3
  MaxTime = 2
  MaxUndo = 2
SPECIFICATION FairSpec
INVARIANTS
  TypeOK
  SlotsPartitioned
PROPERTIES
  ClearedStays
  RunsInOrder
  EveryCallRuns
CHECK_DEADLOCK FALSE
