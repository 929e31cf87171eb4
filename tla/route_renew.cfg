SPECIFICATION FairSpec
CONSTANTS
  h1 = h1
  h2 = h2
  Codes <- Many
  Names <- ManyNames
  Mask <- ManyMask
  Offers <- ManyOffers
  Existing <- ManyRows
  Shared <- Many
  Requests = {}
  Handlers = {h1}
  Cap = 2
  Budget <- RenewBudget
PROPERTY
  LoopReturns
CHECK_DEADLOCK FALSE
