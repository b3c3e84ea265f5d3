----------------------------- MODULE Coordinator -----------------------------
(* DHTQueryCoordinator (src/src/coordinator.py): the admission of DHT lookups. *)
(* One task calls find_peer once per query.  A USER query takes a token of     *)
(* Layer A, the query pool `ql`; a BACKGROUND walk first takes a token of      *)
(* Layer B, the walk pool `rwl`, then one of Layer A, and gives them back in   *)
(* the reverse order.  The caps can be reloaded while queries run.             *)
(*                                                                             *)
(* trio switches tasks only at checkpoints, so an action is what one task does *)
(* between two of them.  query_fn, the lookup itself, is open: it returns or   *)
(* raises whenever it likes, or is interrupted.                                *)
EXTENDS CapacityLimiter

CONSTANTS
    UserQueries, Walks,   \* one element per find_peer call, by priority
    InitQueries,          \* max_concurrent_queries and
    InitWalks,            \* max_random_walks as given to the constructor
    Caps,                 \* the values /api/config may receive for either cap
    MaxReloads,           \* bound: number of reloads
    MaxCancels,           \* bound: number of queries whose caller is cancelled
    MaxHistory            \* _max_history, the length of the result history

Queries == UserQueries \cup Walks

ASSUME QueriesAssumption ==
    /\ IsFiniteSet(UserQueries) /\ IsFiniteSet(Walks)
    /\ UserQueries \cap Walks = {}

\* The constructor's check, and the bounds api/app.py puts on every value.
ASSUME CapsAssumption ==
    /\ Caps \subseteq Nat \ {0}
    /\ InitQueries \in Nat \ {0} /\ InitWalks \in Nat \ {0}
    /\ InitWalks < InitQueries

ASSUME BoundsAssumption ==
    MaxReloads \in Nat /\ MaxCancels \in Nat /\ MaxHistory \in Nat \ {0}

VARIABLES
    maxQueries, maxWalks,  \* _max_queries, _max_walks
    booted,                \* the limiters exist (_bootstrap has run)
    ql, rwl,               \* _query_limiter, _rw_limiter
    pc,                    \* where the task of each query is
    live,                  \* _live: the status of each query it holds
    count,                 \* _total and the four terminal counters
    peak,                  \* _peak_concurrent
    history,               \* _history, oldest first: [query, status]
    cancelled,             \* queries whose caller's cancel scope is cancelled
    expired,               \* queries whose move_on_after deadline has passed
    reloads, cancels       \* used up of MaxReloads and MaxCancels

callVars == <<pc, live, count, peak, history, cancelled, expired, cancels>>
confVars == <<maxQueries, maxWalks, reloads>>
poolVars == <<booted, ql, rwl>>
vars == <<callVars, confVars, poolVars>>

Terminal == {"success", "failed", "timeout", "cancelled"}
AllCaps == Caps \cup {InitQueries, InitWalks}

\* A query is at one of these points, named after what it waits for there:
\* "walk" and "query" a token of Layer B or A, "run" query_fn, "abort" the
\* event loop to raise Cancelled in it.
Points == {"idle", "walk", "query", "run", "abort", "done"}

Serving == {q \in Queries : live[q] # "absent"}
Running == {q \in Queries : live[q] = "running"}

Init ==
    /\ maxQueries = InitQueries /\ maxWalks = InitWalks
    /\ booted = FALSE
    /\ ql = NewLimiter(0) /\ rwl = NewLimiter(0)
    /\ pc = [q \in Queries |-> "idle"]
    /\ live = [q \in Queries |-> "absent"]
    /\ count = [c \in Terminal \cup {"total"} |-> 0]
    /\ peak = 0 /\ history = <<>>
    /\ cancelled = {} /\ expired = {}
    /\ reloads = 0 /\ cancels = 0
-----------------------------------------------------------------------------
\* Mutant of QueryPool: one token too many.
QueryPoolOffByOne == IF booted THEN ql ELSE NewLimiter(maxQueries + 1)

\* The limiters once _bootstrap has run: created with the caps of the moment.
QueryPool == IF booted THEN ql ELSE NewLimiter(maxQueries)
WalkPool == IF booted THEN rwl ELSE NewLimiter(maxWalks)

\* Mutant of IsBackground: the priority is ignored.
NobodyIsBackground(q) == FALSE

\* The priority decides whether a query needs a token of Layer B first.
IsBackground(q) == q \in Walks

\* find_peer up to its first checkpoint: the query is registered and counted,
\* then asks for its first token.  Entering a limiter raises Cancelled first.
FindPeer(q) ==
    /\ pc[q] = "idle"
    /\ booted' = TRUE
    /\ live' = [live EXCEPT ![q] = "acquiring"]
    /\ count' = [count EXCEPT !["total"] = @ + 1]
    /\ \/ /\ q \in cancelled
          /\ pc' = [pc EXCEPT ![q] = "abort"]
          /\ ql' = QueryPool /\ rwl' = WalkPool
       \/ /\ q \notin cancelled /\ IsBackground(q)
          /\ pc' = [pc EXCEPT ![q] = "walk"]
          /\ rwl' = Acquire(WalkPool, q) /\ ql' = QueryPool
       \/ /\ q \notin cancelled /\ ~IsBackground(q)
          /\ pc' = [pc EXCEPT ![q] = "query"]
          /\ ql' = Acquire(QueryPool, q) /\ rwl' = WalkPool
    /\ UNCHANGED <<peak, history, cancelled, expired, cancels, confVars>>

\* A walk resumes with its Layer B token and asks for one of Layer A.
WalkAdmitted(q) ==
    /\ pc[q] = "walk" /\ q \in rwl.borrowers
    /\ \/ /\ q \in cancelled
          /\ pc' = [pc EXCEPT ![q] = "abort"]
          /\ UNCHANGED ql
       \/ /\ q \notin cancelled
          /\ pc' = [pc EXCEPT ![q] = "query"]
          /\ ql' = Acquire(ql, q)
    /\ UNCHANGED <<live, count, peak, history, cancelled, expired, cancels,
                   booted, rwl, confVars>>

\* _execute up to query_fn's first checkpoint.
Execute(q) ==
    /\ pc[q] = "query" /\ q \in ql.borrowers
    /\ pc' = [pc EXCEPT ![q] = "run"]
    /\ live' = [live EXCEPT ![q] = "running"]
    /\ LET running == Cardinality(Running \cup {q})
       IN  peak' = IF running > peak THEN running ELSE peak
    /\ UNCHANGED <<count, history, cancelled, expired, cancels, confVars, poolVars>>

\* _record keeps the last MaxHistory results.
Record(h, q, status) ==
    LET h1 == Append(h, [query |-> q, status |-> status])
    IN  IF Len(h1) > MaxHistory
        THEN SubSeq(h1, Len(h1) - MaxHistory + 1, Len(h1)) ELSE h1

\* Mutant of Counted: a swallowed Cancelled leaves no trace.
CountedUnlessCancelled(status) ==
    IF status = "cancelled" THEN count ELSE [count EXCEPT ![status] = @ + 1]

Counted(status) == [count EXCEPT ![status] = @ + 1]

\* Mutant of GiveBack: only a query that ran gives its tokens back.
GiveBackAfterRun(l, q) ==
    IF q \in l.borrowers /\ pc[q] = "run" THEN Release(l, q) ELSE l

\* The exit of `async with`, for a query that entered it.
GiveBack(l, q) == IF q \in l.borrowers THEN Release(l, q) ELSE l

\* From the end of query_fn, however it ends, to the end of find_peer there is
\* no checkpoint: count the outcome, give the tokens back, leave _live, record.
Finish(q, status) ==
    /\ pc' = [pc EXCEPT ![q] = "done"]
    /\ count' = Counted(status)
    /\ ql' = GiveBack(ql, q) /\ rwl' = GiveBack(rwl, q)
    /\ live' = [live EXCEPT ![q] = "absent"]
    /\ history' = Record(history, q, status)
    /\ cancelled' = cancelled \ {q} /\ expired' = expired \ {q}
    /\ UNCHANGED <<booted, peak, cancels, confVars>>

\* query_fn returns a tuple, or raises an Exception.  It may do so although a
\* cancel scope is already cancelled: Cancelled is raised at checkpoints only.
QueryReturns(q) == pc[q] = "run" /\ Finish(q, "success")
QueryRaises(q) == pc[q] = "run" /\ Finish(q, "failed")

\* Cancelled unwinds query_fn.  move_on_after stops it only when the caller is
\* not cancelled as well; what it lets through becomes CANCELLED in find_peer.
Unwind(q) ==
    \/ pc[q] = "run" /\ q \in expired \ cancelled /\ Finish(q, "timeout")
    \/ pc[q] = "run" /\ q \in cancelled /\ Finish(q, "cancelled")
    \/ pc[q] = "abort" /\ Finish(q, "cancelled")

\* The deadline of _execute's move_on_after.
Deadline(q) ==
    /\ pc[q] = "run" /\ q \notin expired
    /\ expired' = expired \cup {q}
    /\ UNCHANGED <<pc, live, count, peak, history, cancelled, cancels, confVars,
                   poolVars>>

\* The caller's scope is cancelled: at once for a parked task, which leaves the
\* lot, otherwise at the task's next checkpoint.
Cancel(q) ==
    /\ pc[q] # "done" /\ q \notin cancelled
    /\ cancels < MaxCancels /\ cancels' = cancels + 1
    /\ cancelled' = cancelled \cup {q}
    /\ pc' = IF q \in Waiting(ql) \cup Waiting(rwl)
             THEN [pc EXCEPT ![q] = "abort"] ELSE pc
    /\ ql' = LeaveLot(ql, q) /\ rwl' = LeaveLot(rwl, q)
    /\ UNCHANGED <<live, count, peak, history, expired, booted, confVars>>

\* Mutants of Reloaded: the attribute changes and nobody is woken; the limiter
\* that exists keeps its old cap.
ReloadedWithoutWaking(l, n) == IF booted THEN [l EXCEPT !.total = n] ELSE l
ReloadedAtBootOnly(l, n) == l

Reloaded(l, n) == IF booted THEN SetTotal(l, n) ELSE l

\* reconfigure: the setters of both limiters, if these exist.
Reconfigure(nq, nw) ==
    /\ maxQueries' = nq /\ maxWalks' = nw
    /\ ql' = Reloaded(ql, nq) /\ rwl' = Reloaded(rwl, nw)
    /\ UNCHANGED booted

\* POST /api/config, the caller of reconfigure; a field left out of the request
\* keeps its value.
UpdateConfig(nq, nw) ==
    /\ reloads < MaxReloads /\ reloads' = reloads + 1
    /\ <<nq, nw>> # <<maxQueries, maxWalks>>
    /\ nw < nq
    /\ Reconfigure(nq, nw)
    /\ UNCHANGED callVars
-----------------------------------------------------------------------------
QueryStep(q) ==
    \/ FindPeer(q) \/ WalkAdmitted(q) \/ Execute(q)
    \/ QueryReturns(q) \/ QueryRaises(q) \/ Unwind(q)
    \/ Deadline(q) \/ Cancel(q)

\* No call is left to make: the only state in which the system may stop.
Rest == (\A q \in Queries : pc[q] = "done") /\ UNCHANGED vars

Next ==
    \/ \E q \in Queries : QueryStep(q)
    \/ \E nq, nw \in AllCaps : UpdateConfig(nq, nw)
    \/ Rest

Spec == Init /\ [][Next]_vars
-----------------------------------------------------------------------------
TypeOK ==
    /\ maxQueries \in AllCaps /\ maxWalks \in AllCaps
    /\ booted \in BOOLEAN
    /\ LimiterType(ql, Queries, AllCaps \cup {0})
    /\ LimiterType(rwl, Walks, AllCaps \cup {0})
    /\ pc \in [Queries -> Points]
    /\ live \in [Queries -> {"absent", "acquiring", "running"}]
    /\ count \in [Terminal \cup {"total"} -> Nat]
    /\ peak \in Nat
    /\ history \in Seq([query : Queries, status : Terminal])
    /\ cancelled \in SUBSET Queries /\ expired \in SUBSET Queries
    /\ reloads \in Nat /\ cancels \in Nat

\* A token is held or awaited only by a query that is being served, at the point
\* where the code holds or awaits it: no exit of find_peer (success, error,
\* timeout, cancellation while parked or while running) leaks a token, none is
\* handed to a task that has stopped waiting, and whatever runs holds its tokens.
SlotsMatchTasks ==
    \A q \in Queries :
        /\ q \in Waiting(rwl) => pc[q] = "walk"
        /\ q \in Waiting(ql) => pc[q] = "query"
        /\ q \in ql.borrowers => pc[q] \in {"query", "run"}
        /\ q \in rwl.borrowers => pc[q] \in {"walk", "query", "run", "abort"}
        /\ pc[q] = "walk" => q \in rwl.borrowers \cup Waiting(rwl)
        /\ pc[q] = "query" => q \in ql.borrowers \cup Waiting(ql)
        /\ pc[q] = "run" => q \in ql.borrowers
        /\ q \in Walks /\ pc[q] \in {"query", "run"} => q \in rwl.borrowers

\* Back-pressure never idles: while a query waits for a token of a pool, at least
\* as many tokens as the pool's present cap are out, also across a reload that
\* grows the cap and a cancellation inside the queue.
NoIdleCapacity == WorkConserving(ql) /\ WorkConserving(rwl)

\* The promise of the two layers: when a user query has to wait, the slots that
\* the walks cannot use, maxQueries - maxWalks of them, are all held by user
\* queries.  A reload that lowers the walk cap leaves surplus walks running; the
\* promise is due again as soon as these have drained.
WalksCannotStarveUsers ==
    Waiting(ql) \cap UserQueries # {} /\ Cardinality(rwl.borrowers) <= maxWalks
        => Cardinality(ql.borrowers \cap UserQueries) >= maxQueries - maxWalks

\* Every call is counted once: it is being served or has exactly one terminal
\* counter, and the history holds the latest results, one for each query.
EveryCallAccounted ==
    LET finished == count["success"] + count["failed"] + count["timeout"]
                        + count["cancelled"]
    IN  /\ count["total"] = Cardinality(Serving) + finished
        /\ Len(history) = IF finished < MaxHistory THEN finished ELSE MaxHistory
        /\ \A i, j \in DOMAIN history :
              history[i].query = history[j].query => i = j
        /\ \A i \in DOMAIN history : pc[history[i].query] = "done"

\* Reloads included: a step that gives out a token leaves that pool within the
\* cap in force after the step ("takes effect on next query acquisition").
Admits(l, lNew) == lNew.borrowers \ l.borrowers # {}
AdmissionFits ==
    /\ Admits(ql, ql') => Cardinality(ql'.borrowers) <= maxQueries'
    /\ Admits(rwl, rwl') => Cardinality(rwl'.borrowers) <= maxWalks'
AdmissionRespectsCaps == [][AdmissionFits]_vars

\* No query overtakes another that waits for Layer A: a token goes to the head of
\* the queue, and to a newcomer only when nobody waits, reloads included.
ServedInOrder ==
    \A q \in ql'.borrowers \ ql.borrowers : \A p \in Waiting(ql) :
        \/ p \in ql'.borrowers
        \/ \E i, j \in DOMAIN ql.lot : i < j /\ ql.lot[i] = q /\ ql.lot[j] = p
FirstComeFirstServed == [][ServedInOrder]_vars

\* The coordinator implements the admission control of a single pool.
Phase(q) ==
    CASE pc[q] = "idle" -> "new"
      [] pc[q] = "abort" -> "leaving"
      [] pc[q] = "done" -> "finished"
      [] pc[q] \in {"walk", "query", "run"} ->
            IF q \in ql.borrowers THEN "admitted" ELSE "queued"

Admission == INSTANCE AdmissionControl
    WITH Clients <- Queries, Sizes <- AllCaps, InitSize <- InitQueries,
         phase <- [q \in Queries |-> Phase(q)], size <- maxQueries
ImplementsAdmission == Admission!Spec
=============================================================================
