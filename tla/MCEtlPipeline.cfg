\* Three extractors, another writer and a shutdown.
SPECIFICATION FairSpec
CONSTANTS
    NumExtractors = 3
    MaxQueueSize = 1
    StartSequence = 3
    FinishSequence = 8
    LastValidated = 9
    UintModulus = 65536
    OtherWriter = TRUE
    MayStop = TRUE
    None = None
CHECK_DEADLOCK FALSE
INVARIANTS
    LedgersInOrder
PROPERTIES
    FinishReached
