\* Up to four queries, one a tick, of up to four ticks each, on two slots.
SPECIFICATION FairArmSpec
CONSTANTS
    UserQueries <- Queries4
    Walks <- Nobody
    InitQueries = 2
    InitWalks = 1
    Caps <- Caps2
    MaxReloads = 0
    MaxCancels = 0
    MaxHistory = 3
    Interval = 1
    Duration = 3
    QueryTimeout = 4
    SampleEvery = 2
    Window = 2
    MaxClock = 14
INVARIANTS
    ReportIsComplete
    PeaksWithinCap
    DrainIsBounded
    LatencyFiguresAgree
    ThroughputIsRecent
PROPERTIES
    ArmEnds
