---------------------------- MODULE QueryPipeline ----------------------------
(* The three gates in the order a lookup passes them: Layer B (walks only) and *)
(* Layer A in the coordinator, Layer C in the stream manager.  The query_fn    *)
(* every caller passes to find_peer is                                         *)
(*     async with stream_manager.open_stream(...): return await network.query  *)
(* (workers.py, api/app.py, experiment.py), so the end of the stream's body is *)
(* the end of query_fn, and a scope that is cancelled around query_fn, the     *)
(* query's time limit or its caller's, is a scope around the stream.           *)
EXTENDS Coordinator

CONSTANTS
    InitStreams, StreamCaps, MaxStreamReloads,  \* see StreamManager
    Limits, InitLimits,  \* the two time limits: what /api/config may set, and at first
    MaxLimitChanges      \* bound: number of times they are set

VARIABLES
    maxStreams, sbooted, sl, spc, scount, peakOpen, sexpired, sreloads,
    limits,         \* _query_timeout and _stream_timeout, in ticks
    allowed,        \* the time limit of each query in query_fn; 0 for any other
    outlasting,     \* queries whose stream has no shorter a time limit than they
    limitChanges    \* used up of MaxLimitChanges

SM == INSTANCE StreamManager
        WITH Tasks <- Queries, interrupted <- cancelled \cup expired

ASSUME PipelineAssumption ==
    /\ SM!StreamAssumption
    /\ Limits \subseteq [query : Nat \ {0}, stream : Nat \ {0}] /\ InitLimits \in Limits
    /\ MaxLimitChanges \in Nat

streamVars == <<maxStreams, sbooted, sl, spc, scount, peakOpen, sexpired, sreloads>>
limitVars == <<limits, allowed, outlasting, limitChanges>>
pipeVars == <<vars, streamVars, limitVars>>

PipeInit ==
    /\ Init /\ SM!StreamInit
    /\ limits = InitLimits /\ limitChanges = 0
    /\ allowed = [q \in Queries |-> 0] /\ outlasting = {}
-----------------------------------------------------------------------------
\* Before query_fn starts, and when it never does, only the coordinator moves.
Admit(q) ==
    /\ FindPeer(q) \/ WalkAdmitted(q) \/ (pc[q] = "abort" /\ Unwind(q))
    /\ UNCHANGED <<streamVars, limitVars>>

\* query_fn's first act, without a checkpoint in between, is to ask for a stream.
\* The query has the time limit of this moment.
StartQuery(q) ==
    /\ Execute(q) /\ SM!AskForSlot(q)
    /\ allowed' = [allowed EXCEPT ![q] = limits.query]
    /\ UNCHANGED <<limits, outlasting, limitChanges>>

\* The stream has the time limit of the moment it opens, which may be much later.
OpenStream(q) ==
    /\ SM!OpenStream(q)
    /\ outlasting' = IF limits.stream >= allowed[q] THEN outlasting \cup {q} ELSE outlasting
    /\ UNCHANGED <<vars, limits, allowed, limitChanges>>

\* A query that is over has no deadlines.
NoLimits(q) ==
    /\ allowed' = [allowed EXCEPT ![q] = 0] /\ outlasting' = outlasting \ {q}
    /\ UNCHANGED <<limits, limitChanges>>

\* Mutant of NetworkRaises: open_stream does not see the exception.
NetworkRaisesUnseen(q) == SM!BodyReturns(q) /\ QueryRaises(q) /\ NoLimits(q)

\* network.query returns its tuple; or it raises, through open_stream.
NetworkReturns(q) == SM!BodyReturns(q) /\ QueryReturns(q) /\ NoLimits(q)
NetworkRaises(q) == SM!BodyRaises(q) /\ QueryRaises(q) /\ NoLimits(q)

\* The per-stream deadline ends the body: open_stream swallows the cancellation
\* and query_fn falls off its end, so it returns None.  _execute cannot unpack
\* None: TypeError, and the query is FAILED.
StreamTimesOut(q) == SM!BodyTimesOut(q) /\ QueryRaises(q) /\ NoLimits(q)

\* Mutant of Interrupted: the stream is not closed on cancellation.
InterruptedWithoutClosing(q) ==
    pc[q] = "run" /\ Unwind(q) /\ UNCHANGED streamVars /\ NoLimits(q)

\* Cancelled passes through the stream, or finds the task waiting for its slot.
Interrupted(q) ==
    /\ pc[q] = "run" /\ Unwind(q)
    /\ SM!BodyInterrupted(q) \/ SM!SlotAbandoned(q)
    /\ NoLimits(q)

\* Mutant of QueryDeadline: the time limit is not armed.
QueryDeadlineUnarmed(q) == FALSE

\* The two time limits.  The query's comes first unless the stream's is shorter,
\* since its clock starts before the stream opens; otherwise they race.
QueryDeadline(q) == Deadline(q) /\ SM!Interrupt(q) /\ UNCHANGED limitVars
StreamDeadline(q) ==
    /\ q \in outlasting => q \in expired
    /\ SM!StreamDeadline(q) /\ UNCHANGED <<vars, limitVars>>

CallerCancels(q) == Cancel(q) /\ SM!Interrupt(q) /\ UNCHANGED limitVars

\* The time limits are attributes that later queries and streams read.
SetLimits ==
    /\ limitChanges < MaxLimitChanges /\ limitChanges' = limitChanges + 1
    /\ limits' \in Limits \ {limits}
    /\ UNCHANGED <<allowed, outlasting>>

\* POST /api/config reloads the coordinator, then the stream manager; a request
\* names the settings it changes, one at least.
PostConfig ==
    /\ UNCHANGED vars \/ \E nq, nw \in AllCaps : UpdateConfig(nq, nw)
    /\ UNCHANGED streamVars \/ \E ns \in SM!AllStreamCaps : SM!ReconfigureStreams(ns)
    /\ UNCHANGED limitVars \/ SetLimits
    /\ pipeVars' # pipeVars
-----------------------------------------------------------------------------
PipeStep(q) ==
    \/ Admit(q) \/ StartQuery(q) \/ OpenStream(q)
    \/ NetworkReturns(q) \/ NetworkRaises(q) \/ StreamTimesOut(q)
    \/ Interrupted(q) \/ QueryDeadline(q) \/ StreamDeadline(q) \/ CallerCancels(q)

PipeRest == (\A q \in Queries : pc[q] = "done") /\ UNCHANGED pipeVars

PipeNext ==
    \/ \E q \in Queries : PipeStep(q)
    \/ PostConfig
    \/ PipeRest

PipeSpec == PipeInit /\ [][PipeNext]_pipeVars

\* Tasks that can run do run, and the query's deadline passes in the end.  The
\* network owes nothing, and neither does the stream's own deadline.
PipeFairness ==
    \A q \in Queries :
        /\ WF_pipeVars(QueryDeadline(q))
        /\ WF_pipeVars(\/ pc[q] # "idle" /\ Admit(q)
                       \/ StartQuery(q) \/ OpenStream(q) \/ Interrupted(q))
FairPipeSpec == PipeSpec /\ PipeFairness
-----------------------------------------------------------------------------
\* Layer C nests inside Layer A: a slot is held or awaited only by a query that
\* runs, so no stream outlives its query, whichever of the two time limits, the
\* network or the caller ends it; and each pool hands on what it gets back.
StreamsWithinQueries ==
    /\ \A q \in Queries :
          /\ pc[q] = "run" <=> spc[q] \in {"slot", "open", "abort"}
          /\ pc[q] \in {"idle", "walk", "query", "abort"} => spc[q] = "idle"
          /\ q \in sl.borrowers => q \in ql.borrowers
    /\ WorkConserving(ql) /\ WorkConserving(rwl) /\ WorkConserving(sl)

\* "The slot is always released", under the callers the manager really has.
StreamSlotsMatch == SM!SlotsMatchStreams

\* Every step of the pipeline is a step of the stream manager or none: it is never
\* used in a way its own specification does not foresee.
ImplementsStreams == SM!StreamSpec

\* The two components' counters tell the same story: a query is FAILED for each
\* stream that ended in an error or at its own deadline, a SUCCESS closed its
\* stream, and a stream closes for at most one outcome.
CountersAgree ==
    /\ count["failed"] = scount["errors"] + scount["timeouts"]
    /\ count["success"] + count["failed"] <= scount["closed"]
    /\ scount["closed"] <= count["success"] + count["failed"]
                             + count["timeout"] + count["cancelled"]

\* What the walks leave to the users in Layer C: a user query that waits for a
\* stream finds all but the walks' share of the slots in the hands of users.
UserShareOfStreams ==
    Waiting(sl) \cap UserQueries # {} /\ Cardinality(rwl.borrowers) <= maxWalks
        => Cardinality(sl.borrowers \cap UserQueries) >= maxStreams - maxWalks

\* A query fails only when the network raised: query_fn keeps its contract to
\* return a tuple, whatever the stream manager does.
FailedOnlyByError == count["failed"] = scount["errors"]

\* find_peer returns through all three gates: the waits for B, A and C form no
\* cycle, and the wait for C is inside the query's time limit.
EveryLookupReturns == \A q \in Queries : pc[q] # "idle" ~> pc[q] = "done"
=============================================================================
