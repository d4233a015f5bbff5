CONSTANTS
  Size = 4
  Fan = 2
  MaxTasks = 2
  Programs <- TheCommands
SPECIFICATION FairSpec
INVARIANTS
  TypeOK
  NoCrosstalk
  Synchronizes
  NothingLeft
PROPERTIES
  TotalRight
  AllReturn
CHECK_DEADLOCK FALSE
