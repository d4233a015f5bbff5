CONSTANTS
  k1 = k1
  k2 = k2
  k3 = k3
  v1 = v1
  Junk = Junk
  Keys <- MCKeys
  Values <- MCValues
  Hash <- MCHash
  MinSize = 2
  Word = 16
  MaxInterrupts = 1
SPECIFICATION Spec
INVARIANT
  NoOverrun
CHECK_DEADLOCK FALSE
