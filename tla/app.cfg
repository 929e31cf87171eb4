SPECIFICATION FairSpec
CONSTANTS
  Rows <- SomeRows
  MaxRt = 3
  MaxProc = 4
  MaxRestart = 2
  Budget <- BusyBudget
INVARIANTS
  TypeOK
  StopHolds
PROPERTIES
  CallsReturn
  ComesBack
CHECK_DEADLOCK FALSE
