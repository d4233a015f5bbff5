CONSTANTS
  Procs = {p, q}
  MaxChunks = 2
  End = End
  Recycles = TRUE
SPECIFICATION FairSpec
INVARIANTS
  TypeOK
  TablesAgree
  PushedInOrder
PROPERTIES
  EndIsTold
  TextIsRead
\* A process whose freed record was overwritten is not followed any further.
CHECK_DEADLOCK FALSE
