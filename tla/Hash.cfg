CONSTANTS
  k1 = k1
  k2 = k2
  k3 = k3
  v1 = v1
  Junk = Junk
  Keys <- MCKeys
  Values <- MCValues
  Hash <- MCHash
  MinSize = 2
  Word = 16
  MaxInterrupts = 2
SPECIFICATION FairSpec
INVARIANTS
  TypeOK
  Placed
PROPERTIES
  MapSpec
  CallEnds
\* A process that has overrun an array is not followed any further.
CHECK_DEADLOCK FALSE
