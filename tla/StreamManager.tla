---------------------------- MODULE StreamManager ----------------------------
(* StreamManager (src/src/stream_manager.py), Layer C: the pool of physical    *)
(* stream slots.  A task opens one stream with `async with open_stream(...)`:  *)
(* it takes a slot, its body runs, and whatever ends the body (a return, an    *)
(* exception, the per-stream deadline, or the cancellation of a scope around   *)
(* it) the slot is given back.  `interrupted` is the set of tasks with a       *)
(* cancelled scope around the call; a module that composes this one may give   *)
(* it as a state function of its own.                                          *)
EXTENDS CapacityLimiter

CONSTANTS
    Tasks,             \* one element per call of open_stream
    InitStreams,       \* max_streams as given to the constructor
    StreamCaps,        \* values of max_streams a reload may bring
    MaxStreamReloads   \* bound: number of reloads

\* Assumed where this module is instantiated.
StreamAssumption ==
    /\ IsFiniteSet(Tasks) /\ StreamCaps \subseteq Nat \ {0}
    /\ InitStreams \in Nat \ {0} /\ MaxStreamReloads \in Nat

VARIABLES
    maxStreams,     \* _max_streams
    sbooted, sl,    \* the limiter exists; _limiter
    spc,            \* where the task of each stream is
    scount,         \* _total_opened, _total_closed, _total_errors, _total_timeouts
    peakOpen,       \* _peak_open
    sexpired,       \* streams whose own deadline has passed
    sreloads,       \* used up of MaxStreamReloads
    interrupted

streamVars == <<maxStreams, sbooted, sl, spc, scount, peakOpen, sexpired, sreloads>>
svars == <<streamVars, interrupted>>

AllStreamCaps == StreamCaps \cup {InitStreams}
Open == {t \in Tasks : spc[t] = "open"}  \* the keys of _open_streams

StreamInit ==
    /\ maxStreams = InitStreams /\ sbooted = FALSE /\ sl = NewLimiter(0)
    /\ spc = [t \in Tasks |-> "idle"]
    /\ scount = [c \in {"opened", "closed", "errors", "timeouts"} |-> 0]
    /\ peakOpen = 0 /\ sexpired = {} /\ sreloads = 0
-----------------------------------------------------------------------------
StreamPool == IF sbooted THEN sl ELSE NewLimiter(maxStreams)

\* open_stream up to its first checkpoint: ask for a slot, unless a scope around
\* the call is cancelled already.
AskForSlot(t) ==
    /\ spc[t] = "idle"
    /\ sbooted' = TRUE
    /\ \/ /\ t \in interrupted
          /\ spc' = [spc EXCEPT ![t] = "abort"] /\ sl' = StreamPool
       \/ /\ t \notin interrupted
          /\ spc' = [spc EXCEPT ![t] = "slot"] /\ sl' = Acquire(StreamPool, t)
    /\ UNCHANGED <<maxStreams, scount, peakOpen, sexpired, sreloads>>

\* The task resumes with its slot: the stream is open, its body starts.
OpenStream(t) ==
    /\ spc[t] = "slot" /\ t \in sl.borrowers
    /\ spc' = [spc EXCEPT ![t] = "open"]
    /\ scount' = [scount EXCEPT !["opened"] = @ + 1]
    /\ LET n == Cardinality(Open \cup {t})
       IN  peakOpen' = IF n > peakOpen THEN n ELSE peakOpen
    /\ UNCHANGED <<maxStreams, sbooted, sl, sexpired, sreloads>>

\* The except, else and finally clauses, and the exit of the limiter.
Close(t, counters) ==
    /\ spc[t] = "open"
    /\ spc' = [spc EXCEPT ![t] = "closed"]
    /\ scount' = [c \in DOMAIN scount |->
                    IF c \in {"closed"} \cup counters THEN scount[c] + 1 ELSE scount[c]]
    /\ sl' = Release(sl, t)
    /\ sexpired' = sexpired \ {t}
    /\ UNCHANGED <<maxStreams, sbooted, peakOpen, sreloads>>

BodyReturns(t) == Close(t, {})
BodyRaises(t) == Close(t, {"errors"})

\* Mutant of BodyTimesOut: the scopes around the stream are not asked.
BodyTimesOutAnyway(t) == t \in sexpired /\ Close(t, {"timeouts"})

\* Cancelled reaches the body.  The stream's own move_on_after stops it when no
\* scope around the call is cancelled: the body is left without a result and
\* without an exception.  Otherwise Cancelled goes on to the scope around.
BodyTimesOut(t) == t \in sexpired \ interrupted /\ Close(t, {"timeouts"})
BodyInterrupted(t) == t \in interrupted /\ Close(t, {})

\* Cancelled while waiting for the slot: no stream was opened.
SlotAbandoned(t) ==
    /\ spc[t] = "abort"
    /\ spc' = [spc EXCEPT ![t] = "closed"]
    /\ UNCHANGED <<maxStreams, sbooted, sl, scount, peakOpen, sexpired, sreloads>>

StreamDeadline(t) ==
    /\ spc[t] = "open" /\ t \notin sexpired
    /\ sexpired' = sexpired \cup {t}
    /\ UNCHANGED <<maxStreams, sbooted, sl, spc, scount, peakOpen, sreloads>>

\* Mutant of Interrupt: the cancelled task stays in the queue.
InterruptLeavesWaiter(t) ==
    /\ spc' = IF t \in Waiting(sl) THEN [spc EXCEPT ![t] = "abort"] ELSE spc
    /\ UNCHANGED <<maxStreams, sbooted, sl, scount, peakOpen, sexpired, sreloads>>

\* A scope around the call is cancelled: a parked task leaves the lot at once.
Interrupt(t) ==
    /\ spc' = IF t \in Waiting(sl) THEN [spc EXCEPT ![t] = "abort"] ELSE spc
    /\ sl' = LeaveLot(sl, t)
    /\ UNCHANGED <<maxStreams, sbooted, scount, peakOpen, sexpired, sreloads>>

SlotsReloaded(n) == IF sbooted THEN SetTotal(sl, n) ELSE sl

\* reconfigure(max_streams)
ReconfigureStreams(n) ==
    /\ sreloads < MaxStreamReloads /\ sreloads' = sreloads + 1
    /\ n # maxStreams
    /\ maxStreams' = n
    /\ sl' = SlotsReloaded(n)
    /\ UNCHANGED <<sbooted, spc, scount, peakOpen, sexpired>>
-----------------------------------------------------------------------------
\* What the manager promises whatever its callers do.  The scope around a call
\* is left with it, by a task that never got as far as asking as well.
StreamStep(t) ==
    \/ /\ AskForSlot(t) \/ OpenStream(t) \/ StreamDeadline(t)
       /\ UNCHANGED interrupted
    \/ /\ \/ BodyReturns(t) \/ BodyRaises(t) \/ BodyTimesOut(t) \/ BodyInterrupted(t)
          \/ SlotAbandoned(t)
          \/ spc[t] = "idle" /\ UNCHANGED streamVars
       /\ interrupted' \in {interrupted, interrupted \ {t}}
    \/ Interrupt(t) /\ interrupted' = interrupted \cup {t}

StreamNext ==
    \/ \E t \in Tasks : StreamStep(t)
    \/ \E n \in AllStreamCaps : ReconfigureStreams(n) /\ UNCHANGED interrupted

StreamSpec == interrupted = {} /\ StreamInit /\ [][StreamNext]_svars
-----------------------------------------------------------------------------
StreamTypeOK ==
    /\ maxStreams \in AllStreamCaps /\ sbooted \in BOOLEAN
    /\ LimiterType(sl, Tasks, AllStreamCaps \cup {0})
    /\ spc \in [Tasks -> {"idle", "slot", "open", "abort", "closed"}]
    /\ scount \in [{"opened", "closed", "errors", "timeouts"} -> Nat]
    /\ peakOpen \in Nat /\ sexpired \in SUBSET Open /\ sreloads \in Nat
    /\ interrupted \in SUBSET Tasks

\* "The slot is always released": a slot belongs to a stream that is open or about
\* to open, an open stream has one, and nobody waits while a slot is free; the
\* telemetry agrees: opened streams are open or closed, every stream error and
\* every timeout closed one, and before any reload the peak is within the cap.
SlotsMatchStreams ==
    /\ sl.borrowers \cup Waiting(sl) = {t \in Tasks : spc[t] \in {"slot", "open"}}
    /\ Open \subseteq sl.borrowers
    /\ WorkConserving(sl)
    /\ scount["opened"] = scount["closed"] + Cardinality(Open)
    /\ scount["errors"] + scount["timeouts"] <= scount["closed"]
    /\ sreloads = 0 => peakOpen <= maxStreams
=============================================================================
