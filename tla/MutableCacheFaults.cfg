SPECIFICATION Spec
CONSTANTS
  Keys = {k1}
  Clients = {c1, c2}
  None = None
  TTL = 1
  NegativeTTL404 = 1
  NegativeTTL5xx = 1
  NegativeCap = 1
  StaleIfError = TRUE
  Faults = {"index_read", "index_write", "commit_seen", "delete", "upstream"}
  MaxTransfer = 1
  MaxClock = 2
  MaxVersion = 2
  MaxSeq = 2
  MaxCrashes = 1
SYMMETRY Symmetry
INVARIANTS TypeOK  ReplyDescribesBytes 
PROPERTIES VersionNeverGoesBack BoundedStaleness
CHECK_DEADLOCK FALSE
