\* A process that restarts again and again before its first prune is due.
SPECIFICATION Spec
CONSTANTS
    Retention = 1
    PruneEvery = 1
    MaxPoints = 3
    MaxTime = 9
    MaxFailures = 0
INVARIANTS
    RetentionKept
