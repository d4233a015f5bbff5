CONSTANTS
  Procs = {p}
  MaxChunks = 2
  End = End
  Recycles = FALSE
SPECIFICATION Spec
INVARIANT OutputComplete
