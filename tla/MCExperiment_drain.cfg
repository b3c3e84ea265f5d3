\* The same arm, for the wait that follows the firing.
SPECIFICATION ArmSpec
CONSTANTS
    UserQueries <- Queries4
    Walks <- Nobody
    InitQueries = 2
    InitWalks = 1
    Caps <- Caps2
    MaxReloads = 0
    MaxCancels = 0
    MaxHistory = 1
    Interval = 1
    Duration = 3
    QueryTimeout = 4
    SampleEvery = 2
    Window = 2
    MaxClock = 14
INVARIANTS
    DrainWithinTimeout
