SPECIFICATION FairSpec
CONSTANTS
    Events = {e1, e2, e3, e4, e5}
    QueueMax = 2
    BatchSize = 2
    MaxAttempts = 3
CHECK_DEADLOCK FALSE
INVARIANTS
    HeldOnce
    ConfirmedIsDone
    NoSilentLoss
    StoppedIsDrained
PROPERTIES
    EventuallyHandled
