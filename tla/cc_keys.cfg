SPECIFICATION Spec
CONSTANTS
  r1 = r1
  r2 = r2
  v1 = v1
  v2 = v2
  v3 = v3
  p1 = p1
  p2 = p2
  Rules <- TwoRules
  Vals <- Values
  Procs <- Clients
  Sweepers = {c1}
  Free = Free
  NumShards = 2
  ShardOf <- TwoShards
  MaxKeys = 2
  RuleQuota = 2
SYMMETRY Symmetry
INVARIANTS
  TypeOK
  CapHolds
  QuotaHolds
  Accounting
