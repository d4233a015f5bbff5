CONSTANTS
  NSlaves = 2
  Foreign = {10}
  NmaxArgs = {0, 1}
  SelfArgs = {FALSE, TRUE}
  ListArgs = {FALSE, TRUE}
  MaxJobs = 4
  MaxForeign = 2
  UserReceipt = TRUE
CHECK_DEADLOCK FALSE
SPECIFICATION FairSpec
PROPERTY CycleRepeats
