SPECIFICATION FairSpec
CONSTANTS
    MaxBufferSize = 2
    MaxQueueSize = 2
    MaxBatch = 2
    MaxExponent = 1
    Outcomes = {"ok", "retry", "toolarge", "fatal"}
    Hosts = {{"reconnect"}, {"flush", "shutdown", "optout", "reset"}, {"beacon", "swap"}}
    NumCores = 2
    NumFlushes = 2
    MaxRecords = 4
    HostRecords = 3
    HostOutcomes = {"ok"}
INVARIANTS
    TypeOK
    FlushRemovesItsBatch
    TakenOnceInOrder
PROPERTIES
    ImplementsDelivery
    PipelineDrains
CHECK_DEADLOCK FALSE
