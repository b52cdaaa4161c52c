SPECIFICATION Spec
CONSTANTS
    t1 = t1
    t2 = t2
    q1 = q1
    q2 = q2
    p1 = p1
    p2 = p2
    Contents = {c1, c2}
    Processes = {p1, p2}
    Readers <- Threads
    Requests <- Changes
    ProcessOf <- Placed
    Ttl = 2
    Grace = 1
SYMMETRY Symmetry
CHECK_DEADLOCK FALSE
INVARIANTS
    CachedIsRecent
PROPERTIES
    DisabledIsFinal
