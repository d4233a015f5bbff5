CONSTANTS
  Ids = {3}
  Sizes = {0, 1, 62, 63, 64, 65, 127, 128, 129}
SPECIFICATION Spec
INVARIANT MessageArrives
CHECK_DEADLOCK FALSE
