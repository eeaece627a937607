\* The process writes a ledger, loses the next one, and publishes both.
SPECIFICATION Spec
CONSTANTS
    LastValidated = 4
    MaxAttempts = 1
CHECK_DEADLOCK FALSE
PROPERTIES
    RangeNeverDecreases
