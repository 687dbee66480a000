SPECIFICATION Spec
CONSTANTS
    MaxBufferSize = 2
    MaxQueueSize = 3
    MaxBatch = 3
    MaxExponent = 1
    Outcomes = {"ok"}
    Hosts = {{"swap"}}
    NumCores = 2
    NumFlushes = 3
    MaxRecords = 5
    HostRecords = 5
    HostOutcomes = {"ok"}
INVARIANTS
    DuplicateNeverLoss
CHECK_DEADLOCK FALSE
