SPECIFICATION FairSpec
CONSTANTS
    Workers = {w1, w2}
    NoWorker = NoWorker
    Source = "portal"
    Reviewed = TRUE
    MaxAttempts = 5
    MaxReceives = 5
    Visibility = 3
    Ops = {"delete", "reconcile"}
    Faults = {"crash", "portal"}
CHECK_DEADLOCK FALSE
INVARIANTS
    NoOrphanJob
    OneProcessor
PROPERTIES
    EventuallySettled
