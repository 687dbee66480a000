SPECIFICATION Spec
CONSTANTS
    Tabs = {t1, t2}
    IdleTimeout = 3
    MaxLength = 4
    Granularity = 2
    Debounced = FALSE
    MaxTime = 6
    MaxSessions = 3
INVARIANTS
    EventsHaveSession
SYMMETRY Symmetry
CHECK_DEADLOCK FALSE
