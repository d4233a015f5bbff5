CONSTANTS
  Funcs = {f, g}
  ByName = {g}
  Args = {x}
  ByRef = {}
  Delays = {0}
  Chunk = 2
  MaxSlots = 4
  MaxCalls = 4
  MaxTime = 2
  MaxUndo = 1
SPECIFICATION Spec
INVARIANT NoCallLost
CHECK_DEADLOCK FALSE
