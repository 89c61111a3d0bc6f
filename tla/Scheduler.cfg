SPECIFICATION SchedFairSpec
CONSTANTS
  r1 = r1
  a = a
  TaskKeys = {a, b}
  Claimers = {r1}
  FirstName <- OneName
  NoKey = NoKey
  Workers = 1
  MaxHistory = 1
  LateStarts = FALSE
  MaxTasks = 1
  Backoff = 2
  MaxFails = 2
  MaxEdits = 2
  MaxRenames = 1
INVARIANTS OverlapOnlyAfterRename
PROPERTIES OneRunnerPerRemote  UnwantedStops StopCompletes
CHECK_DEADLOCK FALSE
