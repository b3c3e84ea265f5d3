---------------------------- MODULE TimedQueries ----------------------------
(* The coordinator with its time limit as a number of ticks, for the callers   *)
(* that keep time themselves (Experiment, Workload).  Time passes only while   *)
(* no task can run, which is what the autojump clock of the tests does and     *)
(* what a real clock does when the work between two checkpoints takes no time. *)
(* What happens inside query_fn, the wait for a stream included, is the time   *)
(* the network takes.                                                          *)
EXTENDS Coordinator

CONSTANT QueryTimeout  \* _query_timeout

ASSUME TimeoutAssumption == QueryTimeout \in Nat \ {0}

VARIABLE ran  \* how long each query has been in its move_on_after

TimedInit == Init /\ ran = [q \in Queries |-> 0]

\* A query runs as soon as it has its slot.
Call(q) == FindPeer(q) /\ UNCHANGED ran
Admitted(q) == (WalkAdmitted(q) \/ Execute(q)) /\ UNCHANGED ran

\* The lookup ends by itself; every caller swallows what find_peer might raise.
NetworkAnswers(q) == (QueryReturns(q) \/ QueryRaises(q)) /\ UNCHANGED ran

\* Mutant of TimeLimitPassed: one tick late.
TimeLimitPassedLate(q) == pc[q] = "run" /\ ran[q] > QueryTimeout

TimeLimitPassed(q) == pc[q] = "run" /\ ran[q] >= QueryTimeout

\* Mutant of TimesOut: query_fn swallows Cancelled.
TimesOutSwallowed(q) == FALSE

\* Its move_on_after expires, and ends it.
Expires(q) == TimeLimitPassed(q) /\ Deadline(q) /\ UNCHANGED ran
TimesOut(q) == Unwind(q) /\ UNCHANGED ran

\* The task of a query has nothing to do but wait.
QuerySettled(q) ==
    /\ pc[q] \in {"idle", "run", "done"} \/ q \in Waiting(ql) \cup Waiting(rwl)
    /\ ~TimeLimitPassed(q)

\* One tick of the time limits.
TimePasses ==
    ran' = [q \in Queries |-> IF pc[q] = "run" THEN ran[q] + 1 ELSE 0]
=============================================================================
