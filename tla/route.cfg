SPECIFICATION Spec
CONSTANTS
  Codes = {"s1", "s2"}
  Names <- MCNames
  Mask <- MCMask
  Offers <- PlainOffers
  Existing <- PlainRows
  Shared = {"s1"}
  Requests <- MCRequests
  h1 = h1
  h2 = h2
  Handlers <- TwoHandlers
  Cap = 10
  Budget <- PlainBudget
INVARIANTS
  TypeOK
  TableSound
  ServedDuringReload
  EngineFollowsDB
SYMMETRY HandlersAlike
CHECK_DEADLOCK FALSE
