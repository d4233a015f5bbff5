CONSTANTS
  NSlaves = 3
  Foreign = {10}
  NmaxArgs = {2}
  SelfArgs = {FALSE, TRUE}
  ListArgs = {FALSE, TRUE}
  MaxJobs = 4
  MaxForeign = 2
  UserReceipt = TRUE
CHECK_DEADLOCK FALSE
SPECIFICATION FairSpec
INVARIANTS
  TypeOK
  JobOnce
  ActiveExact
  SownIdle
  NothingLeft
PROPERTIES
  OthersKept
  PoolSpec
  PoolEnds
