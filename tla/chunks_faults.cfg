SPECIFICATION Spec
CONSTANTS
    Attempts = {a1, a2}
    NoAttempt = NoAttempt
    Sections = {s1, s2}
    Refresh = 2
    Poll = 1
    Gap = 3
    Timeout = 6
    Latency = 0
    Redelivery = 3
    Horizon = 14
    Faults = {"reject", "lost", "crash"}
CHECK_DEADLOCK FALSE
SYMMETRY Symmetry
INVARIANTS
    AwaitedIsExact
    SweptIsEmpty
    WaitsFitTheTimeout
