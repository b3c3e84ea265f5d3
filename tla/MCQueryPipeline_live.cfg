\* A user and two walks through narrow pools, a reload of the stream pool and one of
\* the time limits, with no stream's limit below any query's, under fairness.
SPECIFICATION FairPipeSpec
CONSTANTS
    u1 = u1
    u2 = u2
    w1 = w1
    w2 = w2
    UserQueries <- Users1
    Walks <- Walks2
    InitQueries = 2
    InitWalks = 1
    Caps <- Caps12
    MaxReloads = 0
    MaxCancels = 1
    MaxHistory = 1
    InitStreams = 1
    StreamCaps <- Caps12
    MaxStreamReloads = 1
    Limits <- NeverShorter
    InitLimits <- Longer
    MaxLimitChanges = 1
INVARIANTS
    FailedOnlyByError
PROPERTIES
    EveryLookupReturns
