\* Two users and two walks, pools of 3, 2 and 2 tokens.  One reload of the query caps, from
\* (3, 2) to (3, 1) or (2, 1), and one of the stream cap, down to 1: below the walks' cap.
SPECIFICATION PipeSpec
CONSTANTS
    u1 = u1
    u2 = u2
    w1 = w1
    w2 = w2
    UserQueries <- Users2
    Walks <- Walks2
    InitQueries = 3
    InitWalks = 2
    Caps <- Caps1
    MaxReloads = 1
    MaxCancels = 1
    MaxHistory = 1
    InitStreams = 2
    StreamCaps <- Caps12
    MaxStreamReloads = 1
    Limits <- OnlyShorter
    InitLimits <- Shorter
    MaxLimitChanges = 0
VIEW WithoutRecords
SYMMETRY Symmetric
INVARIANTS
    StreamsWithinQueries
    CountersAgree
    UserShareOfStreams
    StreamSlotsMatch
