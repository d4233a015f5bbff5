CONSTANTS
  NSlaves = 2
  Foreign = {}
  NmaxArgs = {3}
  SelfArgs = {FALSE, TRUE}
  ListArgs = {FALSE}
  MaxJobs = 4
  MaxForeign = 0
  UserReceipt = FALSE
CHECK_DEADLOCK FALSE
SPECIFICATION Spec
INVARIANT SlaveExists
