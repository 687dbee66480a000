SPECIFICATION Spec
CONSTANTS
    NRoutes = 1
    FlushAt = 2
    InitialBatchSize = 3
    MaxQueueSize = 3
    Periodic = TRUE
    RetryCount = 1
    NodeClient = FALSE
    Outcomes = {"ok", "lost", "busy", "toolarge"}
    MaxCaptures = 4
    MaxFlushCalls = 1
    MaxFlushes = 9
    MayShutdown = FALSE
    MayOptOut = FALSE
INVARIANTS
    TypeOK
    NoMessageLost
    SentOnceInOrder
PROPERTIES
    ImplementsDelivery
CHECK_DEADLOCK FALSE
