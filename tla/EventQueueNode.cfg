SPECIFICATION Spec
CONSTANTS
    NRoutes = 2
    FlushAt = 2
    InitialBatchSize = 2
    MaxQueueSize = 2
    Periodic = TRUE
    RetryCount = 0
    NodeClient = TRUE
    Outcomes = {"ok", "lost", "refused", "toolarge"}
    MaxCaptures = 3
    MaxFlushCalls = 1
    MaxFlushes = 8
    MayShutdown = FALSE
    MayOptOut = TRUE
INVARIANTS
    OneFlushRuns
    StaleTimerIsCleared
    NothingStranded
PROPERTIES
    FlushKeepsPromise
CHECK_DEADLOCK FALSE
