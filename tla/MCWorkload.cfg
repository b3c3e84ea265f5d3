\* Two load queries and two walks at two slots, the load generator switched twice.
SPECIFICATION FairWorkloadSpec
CONSTANTS
    UserQueries <- Loads
    Walks <- TwoWalks
    InitQueries = 2
    InitWalks = 1
    Caps <- Caps12
    MaxReloads = 0
    MaxCancels = 0
    MaxHistory = 1
    QueryTimeout = 3
    WalkInterval = 2
    IdlePoll = 1
    Floor = 1
    Intervals <- Rates
    InitInterval = 1
    FiredWindow = 1
    MaxPosts = 2
INVARIANTS
    LoopKeepsTime
    OneWalkAtMost
PROPERTIES
    SwitchOffDrains
    WalksGoOn
