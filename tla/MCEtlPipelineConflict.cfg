\* One extractor and another writer.
SPECIFICATION FairSpec
CONSTANTS
    NumExtractors = 1
    MaxQueueSize = 1
    StartSequence = 3
    FinishSequence = 7
    LastValidated = 8
    UintModulus = 65536
    OtherWriter = TRUE
    MayStop = FALSE
    None = None
CHECK_DEADLOCK FALSE
PROPERTIES
    ConflictReturns
