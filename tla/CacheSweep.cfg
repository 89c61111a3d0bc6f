SPECIFICATION SweepFairSpec
CONSTANTS
  Keys = {k1}
  Clients = {c1}
  None = None
  TTL = 1
  NegativeTTL404 = 0
  NegativeTTL5xx = 0
  NegativeCap = 1
  StaleIfError = FALSE
  Faults = {"index_read", "commit_seen", "delete", "scan"}
  MaxTransfer = 1
  MaxClock = 3
  MaxVersion = 1
  MaxSeq = 2
  MaxCrashes = 1
  Grace = 2
  MaxScan = 1
INVARIANTS LiveNeverSwept
PROPERTIES OrphansSwept
CHECK_DEADLOCK FALSE
