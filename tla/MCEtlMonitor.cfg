\* Five ledgers: the process may take over and give way twice.
SPECIFICATION FairSpec
CONSTANTS
    LastValidated = 5
    MaxAttempts = 1
CHECK_DEADLOCK FALSE
INVARIANTS
    PublishedExactlyOnce
    RangeIsCommitted
PROPERTIES
    ImplementsFeed
    CacheNeverSkips
    EveryLedgerPublished
