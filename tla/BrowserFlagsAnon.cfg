SPECIFICATION BrowserFlagsSpec
CONSTANTS
    MaxUsers = 3
    MaxStatusZero = 2
    MaxInFlight = 2
INVARIANTS
    AnonIdMakesItThrough
CHECK_DEADLOCK FALSE
