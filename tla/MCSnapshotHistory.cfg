\* Nine instants of the clock, retention of three, a prune every two.
SPECIFICATION Spec
CONSTANTS
    Retention = 3
    PruneEvery = 2
    MaxPoints = 3
    MaxTime = 8
    MaxFailures = 1
INVARIANTS
    ChartsAreFaithful
PROPERTIES
    NoEarlyDeletion
    PrunedOnTime
