--------------------------- MODULE SnapshotHistory ---------------------------
(* SnapshotHistory (src/src/history.py): the rows behind the dashboard charts. *)
(* The rows are in SQLite and survive the process; the moment of the last      *)
(* prune is in memory and does not.  A row is its timestamp, the primary key.  *)
(* append is synchronous: nothing runs inside it, but the process can be       *)
(* killed between its two commits, and its DELETE can fail.                    *)
EXTENDS Integers, Sequences, FiniteSets, SequencesExt

CONSTANTS
    Retention,   \* _retention_s
    PruneEvery,  \* PRUNE_EVERY_S
    MaxPoints,   \* max_points of query
    MaxTime,     \* bound: the clock stops there
    MaxFailures  \* bound: number of prunes that fail

ASSUME HistoryAssumption ==
    /\ Retention \in Nat /\ PruneEvery \in Nat
    /\ MaxPoints \in Nat \ {0}
    /\ MaxTime \in Nat /\ MaxFailures \in Nat

VARIABLES
    now,        \* the time; both clocks the code reads advance together
    up,         \* the process runs
    startedAt,  \* when it was started
    lastPrune,  \* _last_prune
    rows,       \* the table snapshots
    failures    \* used up of MaxFailures

vars == <<now, up, startedAt, lastPrune, rows, failures>>

Init ==
    /\ now = 0 /\ up = TRUE /\ startedAt = 0 /\ lastPrune = 0
    /\ rows = {} /\ failures = 0
-----------------------------------------------------------------------------
Tick ==
    /\ now < MaxTime /\ now' = now + 1
    /\ UNCHANGED <<up, startedAt, lastPrune, rows, failures>>

Inserted == rows \cup {now}

\* Mutant of Pruned: `<=` for `<`.
PrunedInclusive(S) == {t \in S : t > now - Retention}

\* DELETE FROM snapshots WHERE ts < now - retention
Pruned(S) == {t \in S : t >= now - Retention}

\* The code's other case, a _last_prune of 0.0, never holds once the constructor has
\* set it to the clock.
PruneIsDue == now - lastPrune > PruneEvery

\* append: insert, and prune when that is due.
AppendRow ==
    /\ up
    /\ \/ /\ PruneIsDue
          /\ rows' = Pruned(Inserted) /\ lastPrune' = now
       \/ /\ ~PruneIsDue
          /\ rows' = Inserted /\ UNCHANGED lastPrune
    /\ UNCHANGED <<now, up, startedAt, failures>>

\* Mutant of PruneFails: the prune is noted before it is done.
PruneFailsButNoted ==
    /\ up /\ PruneIsDue
    /\ failures < MaxFailures /\ failures' = failures + 1
    /\ rows' = Inserted /\ lastPrune' = now
    /\ UNCHANGED <<now, up, startedAt>>

\* The DELETE raises, and metrics_broadcaster swallows the exception.
PruneFails ==
    /\ up /\ PruneIsDue
    /\ failures < MaxFailures /\ failures' = failures + 1
    /\ rows' = Inserted
    /\ UNCHANGED <<now, up, startedAt, lastPrune>>

\* The process ends: idle, or between the two commits of append.
Crash ==
    /\ up /\ up' = FALSE
    /\ rows' = rows \/ (PruneIsDue /\ rows' = Inserted)
    /\ UNCHANGED <<now, startedAt, lastPrune, failures>>

\* The constructor: the table is reused, the prune clock starts again.
Start ==
    /\ ~up /\ up' = TRUE
    /\ startedAt' = now /\ lastPrune' = now
    /\ UNCHANGED <<now, rows, failures>>

Next == Tick \/ AppendRow \/ PruneFails \/ Crash \/ Start

Spec == Init /\ [][Next]_vars
-----------------------------------------------------------------------------
\* Mutant of Stride: the division rounds up.
StrideRoundedUp(n) == IF n <= MaxPoints THEN 1 ELSE (n + MaxPoints - 1) \div MaxPoints

Stride(n) == IF n \div MaxPoints > 1 THEN n \div MaxPoints ELSE 1

Window(minutes) == {t \in rows : t >= now - minutes}

\* ORDER BY ts
Ascending(S) ==
    [i \in 1 .. Cardinality(S) |->
        CHOOSE t \in S : Cardinality({s \in S : s <= t}) = i]

\* query: the rows of the window in ascending order, every Stride-th of them.
Query(minutes) ==
    LET found == Ascending(Window(minutes))
        step == Stride(Len(found))
    IN  [i \in 1 .. (Len(found) + step - 1) \div step |-> found[(i - 1) * step + 1]]
-----------------------------------------------------------------------------
HistoryTypeOK ==
    /\ now \in Nat /\ up \in BOOLEAN
    /\ startedAt \in Nat /\ lastPrune \in startedAt .. now
    /\ rows \in SUBSET (0 .. now) /\ failures \in 0 .. MaxFailures

\* A prune never takes a row that is still within the retention, whatever the
\* process went through before.
NoEarlyDeletion == [][\A t \in rows \ rows' : now - t > Retention]_vars

\* Once the process has run for a prune period, each append leaves the table
\* bounded: the oldest row is at most a prune period overdue.  A prune that
\* failed is tried again by the next append.
Bounded(S) == \A t \in S : now - t <= Retention + PruneEvery
PrunedOnTime ==
    [][AppendRow /\ now - startedAt > PruneEvery => Bounded(rows')]_vars

\* What a chart gets: all rows while they fit, otherwise no fewer than MaxPoints
\* and fewer than twice as many, oldest row of the window first, in order, and
\* never two points further apart than one stride of rows.
ChartsAreFaithful ==
    \A minutes \in 0 .. now :
        LET n == Cardinality(Window(minutes))
            points == Query(minutes)
        IN  /\ Range(points) \subseteq Window(minutes)
            /\ Len(points) < 2 * MaxPoints
            /\ Len(points) >= IF n < MaxPoints THEN n ELSE MaxPoints
            /\ n > 0 => \A t \in Window(minutes) : points[1] <= t
            /\ \A i \in 2 .. Len(points) :
                  Cardinality({t \in Window(minutes) :
                                 points[i-1] < t /\ t <= points[i]}) = Stride(n)

\* The deployment guide on the history: it survives restarts, with a retention
\* of 24 hours, "pruned automatically".  Read leniently: a row that is overdue
\* sees no more of the later ticks than fit in the period of its own prune and in a
\* second one, that of a process that was killed on the way.
RetentionKept ==
    \A t \in rows : Cardinality({s \in rows : s - t > Retention}) <= 2 * (PruneEvery + 1)
=============================================================================
