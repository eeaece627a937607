SPECIFICATION Spec
CONSTANTS
    Key = {3, 6}
    Base = 2
    Dir = {3}
    BookEnd = 5
    Markers = {0}
    MaxLedgers = 5
    MaxChanges = 1
    MaxRange = 3
    NumLedgersToKeep = 2
    Ttl = 4
INVARIANT UnchangedSurvives
