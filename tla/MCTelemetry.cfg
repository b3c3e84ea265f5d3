\* Two dashboards that come and go, a channel of two, four snapshots, one change of the load.
SPECIFICATION FairSpec
CONSTANTS
    c1 = c1
    c2 = c2
    Clients <- Clients2
    ChanSize = 2
    MaxSnapshots = 4
    MaxPosts = 1
    MaxUnstored = 1
INVARIANTS
    RosterIsRight
    FramesInOrder
    HistoryMissesNoTick
PROPERTIES
    NobodySkipped
    SettingsNeverGoBack
    OnlySilentClientStalls
