SPECIFICATION FairSpec
CONSTANTS
  Paths = {p1}
  Uploaders = {u1}
  Sizes = {1}
  None = None
  MaxBytes = 0
  MaxObjects = 0
  MaxObjectSize = 2
  ReuseIds = FALSE
  Sweeping = TRUE
  Faults = {"delete", "walk"}
  MaxCreates = 2
  MaxDrops = 1
  MaxDeletes = 1
  MaxCrashes = 1
  
PROPERTIES DeadPrefixFreed
CHECK_DEADLOCK FALSE
