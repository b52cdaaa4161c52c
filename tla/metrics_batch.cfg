SPECIFICATION MetricsSpec
CONSTANTS
    Threads = {t1, t2, t3}
    Main = main
    MetricBatchSize = 3
    FlushInterval = 2
    MaxMetrics = 6
    MaxTime = 3
CHECK_DEADLOCK FALSE
INVARIANTS
    MetricsTypeOK
    InOnePlace
    LateOnlyWhenQuiet
PROPERTIES
    ShutdownLeavesNothing
