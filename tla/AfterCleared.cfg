CONSTANTS
  Funcs = {g}
  ByName = {g}
  Args = {x}
  ByRef = {}
  Delays = {0}
  Chunk = 4
  MaxSlots = 4
  MaxCalls = 9
  MaxTime = 0
  MaxUndo = 2
SPECIFICATION Spec
CONSTRAINT OneErrorThenOneCancel
INVARIANT ClearedNeverRuns
CHECK_DEADLOCK FALSE
