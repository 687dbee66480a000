SPECIFICATION PollerSpec
CONSTANTS
    MaxVersions = 3
INVARIANTS
    NotModifiedKeepsData
CHECK_DEADLOCK FALSE
