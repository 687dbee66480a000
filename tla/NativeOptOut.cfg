SPECIFICATION BridgeSpec
CONSTANTS
    MaxIdentities = 3
    MaxRotations = 2
    MaxStimuli = 3
INVARIANTS
    OptOutUnregisters
CHECK_DEADLOCK FALSE
