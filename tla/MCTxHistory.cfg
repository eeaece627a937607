CONSTANTS
    FirstMax = 2
    MaxSequence = 4
    MinSequence = 2
    Contents <- MCContents
    HistoryRequests <- MCHistoryRequests
SPECIFICATION Spec
INVARIANTS HistoryIsComplete SearchedAllIsTrue LedgerIsWhole
