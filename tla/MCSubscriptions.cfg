\* Two clients and two workers: two requests of a client may run at a time.
SPECIFICATION Spec
CONSTANTS
    Session = {s1, s2}
    Worker = {w1, w2}
    Cases <- MCCases
    Key <- MCKey
SYMMETRY Symmetry
CHECK_DEADLOCK FALSE
INVARIANTS
    Tidy
    AsAsked
    DeliveredOnce
    SnapshotOfOneLedger
