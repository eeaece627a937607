\* Every load style, with or without a peer, two more ledgers and a shutdown.
SPECIFICATION FairSpec
CONSTANTS
    Key = {1, 2}
    NumPeers = 1
    PageSize = 1
    NumCacheDiffs = 2
    NumCacheMarkers = 2
    MaxLedgers = 4
    MayStop = TRUE
CHECK_DEADLOCK FALSE
INVARIANTS
    CacheIsLedger
PROPERTIES
    LoadCompletes
