\* One request may be outstanding, so that both writers meet the throttle.
SPECIFICATION FairSpec
CONSTANTS
    w1 = w1
    w2 = w2
    r1 = r1
    r2 = r2
    r3 = r3
    r4 = r4
    Writer = {w1, w2}
    Syncer = w1
    Request = {r1, r2, r3, r4}
    Owner <- MCOwner
    MaxOutstanding = 1
    Nobody = Nobody
CHECK_DEADLOCK FALSE
INVARIANTS
    CounterExact
    ThrottleBound
    SyncIsBarrier
PROPERTIES
    EverythingIssued
