CONSTANTS
    Clients = {c1, c2}
    Names = {"a", "b"}
    Keys = {"k1", "k2"}
    LongKeys = {}
    Batches <- MCBatches
    MaxId = 2
    MaxNow = 1
    MaxHits = 1
    RetryMax = 1
SPECIFICATION Spec
INVARIANT ReferencesResolve
PROPERTY DriversImplementContract
PROPERTY CallsReturn
