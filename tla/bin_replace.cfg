SPECIFICATION Spec
CONSTANTS
  Procs = {"sup", "worker"}
  Supervisors = {"sup"}
  Workers = {"worker"}
  Platforms = {"linux", "windows"}
  Versions = {1, 2}
  First = 1
  OldNames = {"old1", "old2", "old3"}
  KeepCount = 3
  MaxBusy = 1
  Budget <- SoloBudget
INVARIANTS
  TypeOK
  ProgramPresent
  NeverHalf
  SuccessIsTrue
  NothingLost
CHECK_DEADLOCK FALSE
