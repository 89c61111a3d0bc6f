SPECIFICATION FairSpec
CONSTANTS
  Keys = {k1, k2}
  Clients = {c1, c2}
  None = None
  TTL = 0
  NegativeTTL404 = 1
  NegativeTTL5xx = 1
  NegativeCap = 1
  StaleIfError = TRUE
  Faults = {"index_write", "stat", "commit", "upstream"}
  MaxTransfer = 0
  MaxClock = 0
  MaxVersion = 1
  MaxSeq = 2
  MaxCrashes = 0
 
PROPERTIES RequestsAnswered
CHECK_DEADLOCK FALSE
