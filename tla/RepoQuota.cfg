SPECIFICATION Spec
CONSTANTS
  Paths = {p1, p2, p3}
  Uploaders = {u1, u2}
  Sizes = {0, 1, 2}
  None = None
  MaxBytes = 3
  MaxObjects = 2
  MaxObjectSize = 2
  ReuseIds = FALSE
  Sweeping = FALSE
  Faults = {"read", "commit"}
  MaxCreates = 1
  MaxDrops = 0
  MaxDeletes = 2
  MaxCrashes = 1
SYMMETRY Symmetry
INVARIANTS OvershootBounded
PROPERTIES NoSilentOverwrite
CHECK_DEADLOCK FALSE
