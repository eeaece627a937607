SPECIFICATION Spec
CHECK_DEADLOCK FALSE
CONSTANTS
    Topics <- FreezeTopics
    World <- MCWorld
INVARIANTS
    FrozenIsUnfunded
