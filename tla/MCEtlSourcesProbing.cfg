SPECIFICATION Spec
CONSTANTS
    Protocols = {{"plain"}}
    Unsteady = {{"plain"}}
    MaxDrops = 1
PROPERTY ProbingRestarts
CHECK_DEADLOCK FALSE
