SPECIFICATION Spec
CONSTANTS
  NumBuckets = 10
  Windows = {20, 21}
  IdleSeconds = 23
  Procs = {p1, p2}
  Base = 1000
  End = 1026
  MaxHits = 3
  MaxEdits = 1
  MaxLag = 2
INVARIANTS
  NoStaleHits
  NoLostHits
CHECK_DEADLOCK FALSE
