SPECIFICATION FairSpec
CONSTANTS
  Ports = {80}
  Sites = {"a", "b"}
  Rows <- TwoRows
  Existing <- OneRow
  MaxSvr = 4
  Budget <- BusyBudget
INVARIANT
  TypeOK
PROPERTIES
  PortKept
  PortServed
CHECK_DEADLOCK FALSE
