\* Two users and two walks on three slots, one reload up or down, a cancelled
\* caller.
SPECIFICATION Spec
CONSTANTS
    u1 = u1
    u2 = u2
    w1 = w1
    w2 = w2
    UserQueries <- Users2
    Walks <- Walks2
    InitQueries = 3
    InitWalks = 2
    Caps <- Caps14
    MaxReloads = 1
    MaxCancels = 1
    MaxHistory = 2
SYMMETRY Symmetric
INVARIANTS
    SlotsMatchTasks
    NoIdleCapacity
    WalksCannotStarveUsers
    EveryCallAccounted
PROPERTIES
    AdmissionRespectsCaps
    FirstComeFirstServed
    ImplementsAdmission
