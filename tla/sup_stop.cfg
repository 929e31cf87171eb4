SPECIFICATION FairSpec
CONSTANTS
  MaxPid = 3
  Latest = 1
  CrashLimit = 3
  Offers <- OnlyLatest
  Proto <- SameProto
  Budget <- StopBudget
PROPERTIES
  RegisteredKept
  SelfHeals
CHECK_DEADLOCK FALSE
