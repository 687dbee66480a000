SPECIFICATION SdkFairSpec
CONSTANTS
    MaxContexts = 2
    MaxReloads = 3
    MaxConfigLoads = 1
    MaxSamples = 3
    MaxFlushes = 2
    MaxResets = 1
    BucketSize = 4
    RefillRate = 2
    RefillInterval = 3
    MaxWatch = 10
    MaxVersions = 3
    V1Events = {e1, e2, e3}
    FetchRetries = 2
    MaxMessages = 2
    MaxWrites = 4
    MaxCrashes = 1
    MaxUsers = 3
    MaxStatusZero = 2
    MaxInFlight = 2
    MaxSessions = 2
    MaxEvents = 2
    BufferCap = 2
    MaxIdentities = 3
    MaxRotations = 2
    MaxStimuli = 2
    MaxPosts = 3
    MaxCalls = 2
    MaxActs = 3
    NumSurveys = 2
    MaxSurveyActs = 3
    DebounceTicks = 1
    MaxDelayTicks = 1
    FlushThreshold = 2
    MaxHosted = 2
    MaxHostFlushes = 1
INVARIANTS
    PartsTypeOK
    ReloadsAreServed
    ConfigToldOnce
    WindowsAreKept
    RateIsKept
    PollingGoesOn
    BatchIsAccounted
    StorageFollows
    FlagsAreLoaded
    RecordingsAreKept
    NativeFollowsClient
    ConversationIsWhole
    SurveysTakeTurns
    InvocationIsHeld
PROPERTIES
    ReloadsAnswered
    PollerCatchesUp
CHECK_DEADLOCK FALSE
