SPECIFICATION Spec
CONSTANTS
  MaxPid = 3
  Latest = 1
  CrashLimit = 3
  Offers <- OnlyLatest
  Proto <- SameProto
  Budget <- AdoptBudget
INVARIANTS
  ZeroInterruption
  DrainHasReplacement
CHECK_DEADLOCK FALSE
