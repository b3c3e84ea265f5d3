----------------------------- MODULE Experiment -----------------------------
(* run_arm (src/src/experiment.py): the same open-loop workload against one    *)
(* coordinator.  A loop fires a query every Interval into the nursery `fires`  *)
(* until Duration has passed; leaving that nursery waits for the queries in    *)
(* flight; then the outer nursery is cancelled, which stops the sampler, and   *)
(* the arm is reported.  Every query is a USER query.                          *)
EXTENDS TimedQueries, Metrics

CONSTANTS
    Interval,      \* 1 / qps
    Duration,      \* duration_s
    SampleEvery,   \* SAMPLE_INTERVAL_S
    Window,        \* _throughput_window
    MaxClock       \* bound: the clock stops there

\* Queries are numbered as they are fired, one for every time the loop comes round.
ASSUME ArmAssumption ==
    /\ Interval \in Nat \ {0} /\ SampleEvery \in Nat \ {0}
    /\ Duration \in Nat /\ MaxClock \in Nat /\ Window \in Nat \ {0}
    /\ Walks = {} /\ UserQueries = 1 .. Duration \div Interval + 1

VARIABLES
    clock,         \* trio.current_time()
    phase,         \* "firing", "draining" (leaving `fires`), "over"
    fired,         \* the queries started in `fires`
    took,          \* duration_ms of each query that has returned
    completions,   \* _completion_times: who completed when, [query, at]
    nextFire,      \* when the loop wakes up
    nextSample,    \* when the sampler wakes up
    peakBorrowed,  \* the highest "borrowed" and "waiting" among the samples
    peakWaiting,
    owed           \* the time the queries in flight may still run, when firing ends

armVars == <<clock, phase, fired, took, completions, nextFire, nextSample,
             peakBorrowed, peakWaiting, owed>>
queryVars == <<vars, ran>>
allVars == <<queryVars, armVars>>

ArmInit ==
    /\ TimedInit
    /\ clock = 0 /\ phase = "firing" /\ fired = {}
    /\ took = [q \in Queries |-> 0] /\ completions = {}
    /\ nextFire = 0 /\ nextSample = SampleEvery
    /\ peakBorrowed = 0 /\ peakWaiting = 0 /\ owed = 0
-----------------------------------------------------------------------------
\* start_soon(fire, ...), then sleep for the interval.
Fire ==
    /\ phase = "firing" /\ clock = nextFire
    /\ fired' = fired \cup {Cardinality(fired) + 1}
    /\ nextFire' = clock + Interval
    /\ UNCHANGED <<queryVars, clock, phase, took, completions, nextSample,
                   peakBorrowed, peakWaiting, owed>>

\* The task fire calls find_peer.
Start(q) == q \in fired /\ Call(q) /\ UNCHANGED armVars
GoOn(q) == (Admitted(q) \/ Expires(q)) /\ UNCHANGED armVars

\* The i-th query was fired, and find_peer called, in the i-th round of the loop.
StartedAt(q) == (q - 1) * Interval

\* Mutant of Trimmed: a completion is never forgotten.
NotTrimmed(times) == times

\* A completion is forgotten, if it is too old, when the next one is recorded.
Trimmed(times) == {t \in times : t.at >= clock - Window}

\* Its result carries the time since then.
Return(q) ==
    /\ NetworkAnswers(q) \/ TimesOut(q)
    /\ took' = [took EXCEPT ![q] = clock - StartedAt(q)]
    /\ completions' = Trimmed(completions \cup {[query |-> q, at |-> clock]})
    /\ UNCHANGED <<clock, phase, fired, nextFire, nextSample, peakBorrowed,
                   peakWaiting, owed>>

\* What is left of the time limit of a query that has not returned.
TimeLeft(q) == IF pc[q] = "done" THEN 0 ELSE QueryTimeout - ran[q]

\* The ticks for which the queries in flight may still hold their slots.
Owed == {tick \in fired \X (1 .. QueryTimeout) : tick[2] <= TimeLeft(tick[1])}

\* move_on_after(duration) ends the loop, in its sleep.
StopFiring ==
    /\ phase = "firing" /\ clock >= Duration
    /\ phase' = "draining"
    /\ owed' = Cardinality(Owed)
    /\ UNCHANGED <<queryVars, clock, fired, took, completions, nextFire, nextSample,
                   peakBorrowed, peakWaiting>>

\* Mutant of Borrowed: the queries that wait are counted in.
BorrowedOrWaiting == Cardinality(Serving)

Borrowed == Cardinality(ql.borrowers)

\* snapshot(), the figures that the sampler and the report take from it.  The
\* Layer B figures are those of an empty pool here; throughput_qps is given times
\* the window; success_pct, the average and the lists of queries are left out.
Snapshot ==
    [counters |-> count, throughput |-> Cardinality(completions),
     current |-> Cardinality(Running), peak |-> peak,
     acquiring |-> Cardinality(Serving \ Running),
     borrowed |-> Borrowed, available |-> maxQueries - Borrowed]

\* Its latency figures, over the durations in the result history.
Latencies ==
    LET durations == [i \in DOMAIN history |-> took[history[i].query]]
    IN  [p50 |-> P50(durations), p95 |-> P95(durations), p99 |-> P99(durations)]

Sample ==
    /\ phase # "over" /\ clock = nextSample
    /\ nextSample' = clock + SampleEvery
    /\ peakBorrowed' = Max({peakBorrowed, Snapshot.borrowed})
    /\ peakWaiting' = Max({peakWaiting, Snapshot.acquiring})
    /\ UNCHANGED <<queryVars, clock, phase, fired, took, completions, nextFire, owed>>

\* Mutant of FiresDone: only the queries that run are waited for.
NobodyRuns == Running = {}

\* The nursery `fires` can be left.
FiresDone == \A q \in fired : pc[q] = "done"

\* The outer nursery is cancelled and the arm is reported.
EndArm ==
    /\ phase = "draining" /\ FiresDone
    /\ phase' = "over"
    /\ UNCHANGED <<queryVars, clock, fired, took, completions, nextFire, nextSample,
                   peakBorrowed, peakWaiting, owed>>

\* No task can run: all of them sleep, are parked, or wait for the network.
Settled ==
    /\ phase = "firing" => clock < nextFire /\ clock < Duration
    /\ phase = "draining" => ~FiresDone
    /\ clock < nextSample
    /\ \A q \in fired : pc[q] # "idle" /\ QuerySettled(q)

Tick ==
    /\ phase # "over" /\ Settled
    /\ clock < MaxClock /\ clock' = clock + 1
    /\ TimePasses
    /\ UNCHANGED <<vars, phase, fired, took, completions, nextFire, nextSample,
                   peakBorrowed, peakWaiting, owed>>
-----------------------------------------------------------------------------
ArmStep(q) == Start(q) \/ GoOn(q) \/ Return(q)

ArmRest == phase = "over" /\ UNCHANGED allVars

ArmNext ==
    \/ Fire \/ StopFiring \/ Sample \/ EndArm \/ Tick \/ ArmRest
    \/ \E q \in Queries : ArmStep(q)

ArmSpec == ArmInit /\ [][ArmNext]_allVars

\* Tasks that can run do run, and time passes.  The network owes no answer.
ArmFairness ==
    /\ WF_allVars(Fire) /\ WF_allVars(StopFiring) /\ WF_allVars(Sample)
    /\ WF_allVars(EndArm) /\ WF_allVars(Tick)
    /\ \A q \in Queries :
          /\ WF_allVars(Start(q)) /\ WF_allVars(GoOn(q))
          /\ WF_allVars(TimesOut(q) /\ Return(q))
FairArmSpec == ArmSpec /\ ArmFairness
-----------------------------------------------------------------------------
\* The report covers the whole workload: when the arm is over, every query that
\* was fired has returned and is counted under one outcome, those that were still
\* queued when the firing stopped included.
ReportIsComplete ==
    phase = "over" =>
        /\ \A q \in fired : pc[q] = "done"
        /\ LET c == Snapshot.counters
           IN  /\ c["total"] = Cardinality(fired)
               /\ c["success"] + c["failed"] + c["timeout"] = c["total"]

\* The verdict of the report and the invariant its test asserts: neither the
\* highest number of tokens a sample saw nor the highest number of queries ever
\* running exceeds the cap, at whatever moment the sampler wakes up.  (Neither
\* bounds the other: a query that has its token may not have started to run.)
\* What runs has its token, and the gauge of free slots never goes negative.
PeaksWithinCap ==
    /\ peakBorrowed <= InitQueries /\ Snapshot.peak <= InitQueries
    /\ Snapshot.available >= 0 /\ Snapshot.current <= Snapshot.borrowed

\* How long an arm may go on after its duration.  A slot is never idle while a
\* query waits, so the slots share the time that is owed, except for the end, in
\* which the last query may run alone for its time limit.
DrainIsBounded ==
    phase # "firing" =>
        InitQueries * (clock - Duration) <= owed + (InitQueries - 1) * QueryTimeout

\* The latency figures of a snapshot, taken at any moment, in whatever order the
\* results came in: p50, p95 and p99 are ordered, and each leaves its share of the
\* results below it and the rest above, up to the one that the rank falls into.
LatencyFiguresAgree ==
    LET durations == [i \in DOMAIN history |-> took[history[i].query]]
        n == Len(durations)
        Below(v) == Cardinality({i \in 1 .. n : 100 * durations[i] < v})
        Above(v) == Cardinality({i \in 1 .. n : 100 * durations[i] > v})
        Parts(v, pct) == /\ 100 * Below(v) < 100 + (n - 1) * pct
                         /\ 100 * Above(v) < 100 + (n - 1) * (100 - pct)
        snap == Latencies
    IN  n > 0 =>
          /\ snap.p50 <= snap.p95 /\ snap.p95 <= snap.p99
          /\ Parts(snap.p50, 50) /\ Parts(snap.p95, 95) /\ Parts(snap.p99, 99)

\* The throughput a snapshot shows, between completions too, when nothing trims the
\* window: it misses no completion of the last Window, and what it still counts
\* beyond that was within the window of the last completion.
ThroughputIsRecent ==
    LET CompletedAt(q) == StartedAt(q) + took[q]
        Since(t) == {q \in Queries : pc[q] = "done" /\ CompletedAt(q) >= t}
        last == Max({0} \cup {CompletedAt(q) : q \in Since(0)})
    IN  Snapshot.throughput \in
            Cardinality(Since(clock - Window)) .. Cardinality(Since(last - Window))

\* The comment on leaving `fires`: the wait is bounded by query_timeout.
DrainWithinTimeout == phase # "firing" => clock - Duration <= QueryTimeout

\* Every arm is reported, although no query need ever be answered.
ArmEnds == <>(phase = "over")
=============================================================================
