\* Both time limits are cut while a query waits for its stream.
SPECIFICATION PipeSpec
CONSTANTS
    u1 = u1
    u2 = u2
    w1 = w1
    w2 = w2
    UserQueries <- Users2
    Walks <- Walks1
    InitQueries = 2
    InitWalks = 1
    Caps <- Caps12
    MaxReloads = 0
    MaxCancels = 0
    MaxHistory = 1
    InitStreams = 2
    StreamCaps <- Caps12
    MaxStreamReloads = 0
    Limits <- LongerStill
    InitLimits <- Longer
    MaxLimitChanges = 1
INVARIANTS
    FailedOnlyByError
