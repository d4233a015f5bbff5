CONSTANTS
  Procs = {p, q}
  MaxChunks = 2
  End = End
  Recycles = TRUE
SPECIFICATION Spec
INVARIANT FreedIntact
CHECK_DEADLOCK FALSE
