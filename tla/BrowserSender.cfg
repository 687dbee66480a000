SPECIFICATION FairSpec
CONSTANTS
    Keys = {events, recordings}
    MaxRetries = 2
    MaxZeroRetries = 1
    NumEvents = 2
    NumStarts = 2
    NumUnloads = 1
    NumOutages = 1
INVARIANTS
    TypeOK
    HeldInOnePlace
    WorkGoesOn
PROPERTIES
    EventsSettle
CHECK_DEADLOCK FALSE
