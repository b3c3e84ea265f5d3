--------------------------- MODULE CapacityLimiter ---------------------------
(* trio.CapacityLimiter, the token pool behind Layer A (queries), Layer B      *)
(* (random walks) and Layer C (streams).  trio is a dependency, not part of    *)
(* this repository: it is modelled from the way the code uses it, `async with  *)
(* limiter`, the total_tokens setter, and cancellation of a waiting task.      *)
(*                                                                             *)
(* A limiter is a value, [total, borrowers, lot]: the tokens it owns, the      *)
(* tasks that hold one, and the FIFO parking lot of the tasks that wait.  The  *)
(* modules that own a limiter keep it in a variable and change it with the     *)
(* operators below, each of which is one synchronous step of the event loop.   *)
EXTENDS Integers, Sequences, FiniteSets, SequencesExt

NewLimiter(n) == [total |-> n, borrowers |-> {}, lot |-> <<>>]

Waiting(l) == Range(l.lot)

\* acquire_nowait succeeds only when nobody is parked: no task overtakes the lot.
HasFreeToken(l) == l.lot = <<>> /\ Cardinality(l.borrowers) < l.total

\* What entering `async with` does: take a token, or park at the end of the lot.
Acquire(l, t) ==
    IF HasFreeToken(l)
    THEN [l EXCEPT !.borrowers = @ \cup {t}]
    ELSE [l EXCEPT !.lot = Append(@, t)]

\* The number of parked tasks that can be handed a token now.
Wakeable(l) ==
    LET free == l.total - Cardinality(l.borrowers)
    IN  IF free <= 0 THEN 0
        ELSE IF free < Len(l.lot) THEN free ELSE Len(l.lot)

\* Mutant of WakeWaiters: the task that came last is served first.
WakeLastComers(l) ==
    LET k == Wakeable(l)  n == Len(l.lot)
    IN  [l EXCEPT !.borrowers = @ \cup {l.lot[i] : i \in n - k + 1 .. n},
                  !.lot = SubSeq(@, 1, n - k)]

\* Hand the free tokens to the head of the lot.
WakeWaiters(l) ==
    LET k == Wakeable(l)
    IN  [l EXCEPT !.borrowers = @ \cup {l.lot[i] : i \in 1 .. k},
                  !.lot = SubSeq(@, k + 1, Len(@))]

\* Leaving `async with`: the token goes back, then to the head of the lot.
Release(l, t) == WakeWaiters([l EXCEPT !.borrowers = @ \ {t}])

\* Assigning total_tokens.  Fewer tokens than borrowers is legal: the surplus
\* drains as the borrowers leave.
SetTotal(l, n) == WakeWaiters([l EXCEPT !.total = n])

\* Cancellation reaches a task that is still parked: it leaves the lot at once.
\* A task that already holds its token keeps it.
LeaveLot(l, t) ==
    IF t \in Waiting(l)
    THEN LET p == CHOOSE i \in DOMAIN l.lot : l.lot[i] = t
         IN  [l EXCEPT !.lot = RemoveAt(@, p)]
    ELSE l
-----------------------------------------------------------------------------
LimiterType(l, Tasks, Totals) ==
    l \in [total : Totals, borrowers : SUBSET Tasks, lot : Seq(Tasks)]

\* A task waits at most once, and not while it holds a token.
LotIsSane(l) ==
    /\ IsInjective(l.lot)
    /\ Waiting(l) \cap l.borrowers = {}

\* No lost wake-up: a task waits only while every token is out.
WorkConserving(l) == l.lot # <<>> => Cardinality(l.borrowers) >= l.total
=============================================================================
