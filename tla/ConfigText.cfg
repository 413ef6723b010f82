CONSTANTS
  Files <- MCFiles
  Disks <- MCDisks
  None = None
  Letters = {"a", "b"}
  MaxPattern = 4
  MaxName = 3
SPECIFICATION Spec
INVARIANTS LoadFails NearestWins 
CHECK_DEADLOCK FALSE
