SPECIFICATION Spec
CHECK_DEADLOCK FALSE
CONSTANTS
    Topics <- MCSoundTopics
    World <- MCWorld
INVARIANTS
    PagingIsComplete
    LinesAgree
    MarketsAgree
    AnsweredAndCounted
