SPECIFICATION Spec
CONSTANTS
    Key = {1, 3, 4, 6}
    Base = 2
    Dir = {3, 4}
    BookEnd = 5
    Markers = {0, 4}
    MaxLedgers = 2
    MaxChanges = 2
    MaxRange = 9
    NumLedgersToKeep = 1
    Ttl = 9
INVARIANTS RowsAreLedger LinksAreLedger PagedAll
