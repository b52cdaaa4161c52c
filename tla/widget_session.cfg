SPECIFICATION Spec
CONSTANTS
    Requests = {r1, r2, r3}
    AccessTtl = 2
    SessionTtl = 2
    Lifetime = 3
    Retention = 3
    Skew = 1
    Slowest = 1
    MaxPairs = 3
    MaxTime = 7
SYMMETRY Symmetry
CHECK_DEADLOCK FALSE
INVARIANTS
    RetiredBeforeIssued
PROPERTIES
    ResumeOnce
    AcceptedIsCurrent
    ClosedIsLeftAlone
