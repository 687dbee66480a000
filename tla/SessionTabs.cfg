SPECIFICATION Spec
CONSTANTS
    Tabs = {t1, t2}
    IdleTimeout = 3
    MaxLength = 4
    Granularity = 2
    Debounced = TRUE
    MaxTime = 6
    MaxSessions = 2
INVARIANTS
    TypeOK
    OneSession
PROPERTIES
    SessionsEnd
    SessionsChangeOpenly
SYMMETRY Symmetry
CHECK_DEADLOCK FALSE
