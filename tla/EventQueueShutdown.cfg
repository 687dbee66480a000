SPECIFICATION FairSpec
CONSTANTS
    NRoutes = 1
    FlushAt = 2
    InitialBatchSize = 2
    MaxQueueSize = 2
    Periodic = TRUE
    RetryCount = 0
    NodeClient = TRUE
    Outcomes = {"ok", "lost", "toolarge"}
    MaxCaptures = 2
    MaxFlushCalls = 0
    MaxFlushes = 8
    MayShutdown = TRUE
    MayOptOut = FALSE
INVARIANTS
    ShutdownDrains
PROPERTIES
    CallsSettle
    QueueDrains
CHECK_DEADLOCK FALSE
