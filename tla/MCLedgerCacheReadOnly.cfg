\* A read-only clio started on an empty database.
SPECIFICATION Spec
CONSTANTS
    Key = {1, 2}
    NumPeers = 0
    PageSize = 1
    NumCacheDiffs = 2
    NumCacheMarkers = 2
    MaxLedgers = 3
    MayStop = FALSE
CHECK_DEADLOCK FALSE
INVARIANTS
    FullMeansAllData
