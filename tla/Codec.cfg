CONSTANTS
  Ids = {1, 3, 6}
  Sizes = {0, 1, 2, 31, 62, 63, 64, 65, 127, 128, 129, 191, 192, 4095, 4096, 8191, 8192, 8193, 16383, 524288, 1048575, 1048576}
SPECIFICATION Spec
INVARIANTS
  ShortMessageArrives
  DocumentedFormatReads
CHECK_DEADLOCK FALSE
