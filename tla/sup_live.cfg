SPECIFICATION FairSpec
CONSTANTS
  MaxPid = 3
  Latest = 2
  CrashLimit = 3
  Offers <- OnlyLatest
  Proto <- SameProto
  Budget <- LiveBudget
PROPERTIES
  UpgradeTerminates
  UpgradeTakesEffect
CHECK_DEADLOCK FALSE
