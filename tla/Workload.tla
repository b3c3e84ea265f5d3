------------------------------ MODULE Workload ------------------------------
(* The two tasks that keep the service busy (src/src/workers.py), on top of    *)
(* the coordinator.  random_walk_worker awaits each walk before it sleeps      *)
(* again; load_generator starts its queries in a nursery and never awaits one. *)
(* The load generator is driven by a dict that POST /api/loadgen may change    *)
(* while the loop sleeps.  The caps stay as they are: their reload is in       *)
(* Coordinator.                                                                *)
EXTENDS TimedQueries

CONSTANTS
    WalkInterval,  \* interval_s of the walk worker
    IdlePoll,      \* sleep of the load generator while it is switched off
    Floor,         \* the shortest interval between two of its queries
    Intervals,     \* the values of 1 / qps that /api/loadgen may receive
    InitInterval,  \* 1 / qps at the start
    FiredWindow,   \* window_s
    MaxPosts       \* bound: number of requests to /api/loadgen

\* The queries, both kinds of them, are numbered in the order they are started.
ASSUME WorkloadAssumption ==
    /\ WalkInterval \in Nat \ {0} /\ IdlePoll \in Nat \ {0} /\ Floor \in Nat \ {0}
    /\ Intervals \subseteq Nat /\ InitInterval \in Intervals
    /\ FiredWindow \in Nat /\ MaxPosts \in Nat
    /\ Queries \subseteq Nat \ {0}

VARIABLES
    active, interval,  \* the dict: "active", and "qps" as its inverse
    achieved,          \* the dict: "achieved_qps", times the window
    firedAgo,          \* the stamps in `fired` within the window, as ages
    loadSleep,         \* how long the load generator still sleeps
    sinceRound,        \* how long ago its loop came round
    walking,           \* the walk the worker awaits; 0: it sleeps
    walkSleep,         \* how long it still sleeps
    posts              \* used up of MaxPosts

loadVars == <<active, interval, achieved, firedAgo, loadSleep, sinceRound>>
walkVars == <<walking, walkSleep>>
queryVars == <<vars, ran>>
allVars == <<queryVars, loadVars, walkVars, posts>>

WorkloadInit ==
    /\ TimedInit
    /\ active = FALSE /\ interval = InitInterval
    /\ achieved = 0 /\ firedAgo = {}
    /\ loadSleep = 0 /\ sinceRound = 0
    /\ walking = 0 /\ walkSleep = WalkInterval
    /\ posts = 0
-----------------------------------------------------------------------------
Fresh(S) == {q \in S : pc[q] = "idle"}
InFlight(S) == {q \in S : pc[q] \notin {"idle", "done"}}

\* Mutant of LoopIsFree: each query gets a nursery of its own, which the loop
\* leaves when the query is over.
LoopAwaitsQueries == loadSleep = 0 /\ InFlight(UserQueries) = {}

\* The loop of the load generator comes round: it waits for nothing but its sleep.
LoopIsFree == loadSleep = 0

\* Mutant of ShownWhenIdle: the last figure stays.
ShownAsBefore == achieved

ShownWhenIdle == 0

IdleRound ==
    /\ LoopIsFree /\ ~active
    /\ achieved' = ShownWhenIdle /\ firedAgo' = {}
    /\ loadSleep' = IdlePoll /\ sinceRound' = 0
    /\ UNCHANGED <<queryVars, walkVars, active, interval, posts>>

\* The pause after a query; settings that change meanwhile apply to the next one.
Pause == IF interval > Floor THEN interval ELSE Floor

\* start_soon(_fire): the task calls find_peer before time passes.  The instance
\* has a bounded number of queries; a round beyond it fires nothing.
FireRound ==
    /\ LoopIsFree /\ active
    /\ \/ /\ Fresh(UserQueries) # {}
          /\ Call(Min(Fresh(UserQueries)))
          /\ firedAgo' = firedAgo \cup {0}
       \/ /\ Fresh(UserQueries) = {}
          /\ UNCHANGED <<queryVars, firedAgo>>
    /\ achieved' = Cardinality(firedAgo')
    /\ loadSleep' = Pause /\ sinceRound' = 0
    /\ UNCHANGED <<walkVars, active, interval, posts>>

\* POST /api/loadgen
ControlLoadgen(on, i) ==
    /\ posts < MaxPosts /\ posts' = posts + 1
    /\ active' = on /\ interval' = i
    /\ UNCHANGED <<queryVars, walkVars, achieved, firedAgo, loadSleep, sinceRound>>

\* The walk worker wakes up and starts a walk, unless the network has no peers.
StartWalk ==
    /\ walking = 0 /\ walkSleep = 0
    /\ \/ /\ Fresh(Walks) # {}
          /\ walking' = Min(Fresh(Walks)) /\ Call(Min(Fresh(Walks)))
          /\ UNCHANGED walkSleep
       \/ /\ walkSleep' = WalkInterval
          /\ UNCHANGED <<queryVars, walking>>
    /\ UNCHANGED <<loadVars, posts>>

\* Mutants of WalkIsOver: the walk is started in a nursery and not awaited; a walk
\* that times out ends the worker.
WalkIsStarted == walking # 0
WalkIsOverInTime ==
    /\ walking # 0 /\ pc[walking] = "done"
    /\ [query |-> walking, status |-> "timeout"] \notin Range(history)

\* find_peer has returned to the worker.
WalkIsOver == walking # 0 /\ pc[walking] = "done"

EndWalk ==
    /\ WalkIsOver
    /\ walking' = 0 /\ walkSleep' = WalkInterval
    /\ UNCHANGED <<queryVars, loadVars, posts>>

\* A step of a query that was started.
GoOn(q) == Admitted(q) \/ NetworkAnswers(q) \/ Expires(q) \/ TimesOut(q)
Proceed(q) == GoOn(q) /\ UNCHANGED <<loadVars, walkVars, posts>>

\* Time passes when no task can run.
Less(n) == IF n = 0 THEN 0 ELSE n - 1
Tick ==
    /\ ~LoopIsFree /\ ~WalkIsOver /\ (walking = 0 => walkSleep > 0)
    /\ \A q \in Queries : QuerySettled(q)
    /\ TimePasses
    /\ loadSleep' = Less(loadSleep) /\ walkSleep' = Less(walkSleep)
    /\ sinceRound' = sinceRound + 1
    /\ firedAgo' = {age + 1 : age \in firedAgo} \cap 0 .. FiredWindow
    /\ UNCHANGED <<vars, active, interval, achieved, walking, posts>>
-----------------------------------------------------------------------------
WorkloadNext ==
    \/ IdleRound \/ FireRound \/ StartWalk \/ EndWalk \/ Tick
    \/ \E on \in BOOLEAN, i \in Intervals : ControlLoadgen(on, i)
    \/ \E q \in Queries : Proceed(q)

WorkloadSpec == WorkloadInit /\ [][WorkloadNext]_allVars

\* Tasks that can run do run, and time passes.  The network owes no answer, and
\* nobody has to operate the controls.
WorkloadFairness ==
    /\ WF_allVars(IdleRound) /\ WF_allVars(FireRound)
    /\ WF_allVars(StartWalk) /\ WF_allVars(EndWalk) /\ WF_allVars(Tick)
    /\ \A q \in Queries :
          /\ WF_allVars(Admitted(q) /\ Proceed(q))
          /\ WF_allVars((Expires(q) \/ TimesOut(q)) /\ Proceed(q))
FairWorkloadSpec == WorkloadSpec /\ WorkloadFairness
-----------------------------------------------------------------------------
\* The load is open-loop: queries that hang, or wait for a slot, never hold up the
\* loop that fires them, and a switch is noticed within the longest pause.
LoopKeepsTime == \E pause \in Intervals \cup {Floor, IdlePoll} : sinceRound <= pause

\* One worker means one walk at a time: a walk never waits for Layer B, and a user
\* query waits only while all slots but one are in the hands of user queries,
\* however wide Layer B is.
OneWalkAtMost ==
    /\ Cardinality(InFlight(Walks)) <= 1 /\ Waiting(rwl) = {}
    /\ Waiting(ql) \cap UserQueries # {}
          => Cardinality(ql.borrowers \cap UserQueries) >= InitQueries - 1

\* A load generator that is switched off for good falls silent: its queries drain,
\* those that were queued included, and its rate goes to zero.
SwitchOffDrains ==
    <>[]~active => <>[](achieved = 0 /\ InFlight(UserQueries) = {})

\* The walk worker is never stuck in a walk, though the network may hang and user
\* queries fill the pool.
WalksGoOn == walking # 0 ~> walking = 0
=============================================================================
