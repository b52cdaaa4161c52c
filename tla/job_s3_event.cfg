SPECIFICATION FairSpec
CONSTANTS
    Workers = {w1, w2}
    NoWorker = NoWorker
    Source = "s3"
    Reviewed = FALSE
    MaxAttempts = 3
    MaxReceives = 5
    Visibility = 3
    Ops = {}
    Faults = {"crash", "database"}
CHECK_DEADLOCK FALSE
PROPERTIES
    CompletedStays
    CommandLeavesQueue
