SPECIFICATION RegFairSpec
CONSTANTS
  TaskKeys = {k1, k2, k3}
  Claimers = {c1, c2}
  NoKey = NoKey
  Workers = 2
  MaxHistory = 3
  LateStarts = FALSE
  MaxTasks = 5
INVARIANTS OneHolder ParallelismBounded RunningVisible 
PROPERTIES KeysFreed
CHECK_DEADLOCK FALSE
