SPECIFICATION Spec
CONSTANTS
  MaxPid = 3
  Latest = 3
  CrashLimit = 2
  Offers = {2, 3}
  Proto <- NewProto
  Budget <- BadBudget
INVARIANTS
  TypeOK
PROPERTIES
  BadVersionLeaves
CHECK_DEADLOCK FALSE
