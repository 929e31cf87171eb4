SPECIFICATION Spec
CONSTANTS
  MaxPid = 3
  Latest = 2
  CrashLimit = 3
  Offers <- OnlyLatest
  Proto <- SameProto
  Budget <- UpgradeBudget
INVARIANTS
  SingletonExclusion
  ZeroInterruption
  DrainHasReplacement
  NoStrayWorker
PROPERTIES
  RollbackRestoresGood
  ImplementsRollingService
CHECK_DEADLOCK FALSE
