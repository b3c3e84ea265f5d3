------------------------- MODULE QueryPipelineProofs -------------------------
(* The three gates together, for any set of queries, any caps and time limits, *)
(* and any number of reloads and cancellations.  Every step of the pipeline is *)
(* a step of the coordinator and a step of the stream manager, or leaves one   *)
(* of them alone: the theorems of CoordinatorProofs hold inside the pipeline,  *)
(* and the invariants below relate the two components' states.                 *)
EXTENDS QueryPipeline, CoordinatorProofs

StreamPoints == {"idle", "slot", "open", "abort", "closed"}

\* The type invariant of the stream manager's part, without the limiter.
StreamTypes ==
    /\ maxStreams \in Nat \ {0} /\ sbooted \in BOOLEAN
    /\ spc \in [Queries -> StreamPoints]
    /\ scount \in [{"opened", "closed", "errors", "timeouts"} -> Nat]
    /\ peakOpen \in Nat /\ sreloads \in Nat

\* The limiter carries the present cap once it exists, its tasks are those that
\* hold or await a slot, and before any reload it never was beyond the cap.
StreamPoolInv ==
    /\ Consistent(sl, Queries)
    /\ sbooted => sl.total = maxStreams
    /\ ~sbooted => sl = NewLimiter(0) /\ \A q \in Queries : spc[q] = "idle"
    /\ sl.borrowers \cup Waiting(sl) = {q \in Queries : spc[q] \in {"slot", "open"}}
    /\ SM!Open \subseteq sl.borrowers
    /\ sreloads = 0 => /\ Cardinality(sl.borrowers) <= maxStreams
                       /\ peakOpen <= maxStreams

\* Where the task of a query is in the coordinator and where it is in the stream.
Nested ==
    \A q \in Queries :
        /\ pc[q] = "run" <=> spc[q] \in {"slot", "open", "abort"}
        /\ pc[q] \in {"idle", "walk", "query", "abort"} => spc[q] = "idle"

Tally ==
    /\ scount["opened"] = scount["closed"] + Cardinality(SM!Open)
    /\ CountersAgree

StreamInv == StreamTypes /\ StreamPoolInv
PipeInv == IInv /\ StreamInv /\ Nested /\ Tally
-----------------------------------------------------------------------------
\* The instance has its own copy of each operator of CapacityLimiter.
LEMMA SameCardinality ==
    ASSUME NEW S
    PROVE  SM!Cardinality(S) = Cardinality(S)
BY Zenon DEF SM!Cardinality, Cardinality

LEMMA SameWaiting ==
    ASSUME NEW l
    PROVE  /\ SM!Waiting(l) = Waiting(l)
           /\ SM!WorkConserving(l) = WorkConserving(l)
BY SameCardinality
   DEF SM!Waiting, Waiting, SM!Range, Range, SM!WorkConserving, WorkConserving

LEMMA SameWaking ==
    ASSUME NEW l
    PROVE  SM!WakeWaiters(l) = WakeWaiters(l)
<1>1. SM!Wakeable(l) = Wakeable(l)
  BY SameCardinality DEF SM!Wakeable, Wakeable
<1> QED
  BY <1>1, Zenon DEF SM!WakeWaiters, WakeWaiters

LEMMA SameNew ==
    ASSUME NEW n
    PROVE  SM!NewLimiter(n) = NewLimiter(n)
BY DEF SM!NewLimiter, NewLimiter

LEMMA SameAcquire ==
    ASSUME NEW l, NEW t
    PROVE  SM!Acquire(l, t) = Acquire(l, t)
<1>1. SM!HasFreeToken(l) = HasFreeToken(l)
  BY SameCardinality DEF SM!HasFreeToken, HasFreeToken
<1> QED
  BY <1>1 DEF SM!Acquire, Acquire

LEMMA SameRelease ==
    ASSUME NEW l, NEW t
    PROVE  SM!Release(l, t) = Release(l, t)
BY SameWaking, Zenon DEF SM!Release, Release

LEMMA SameSetTotal ==
    ASSUME NEW l, NEW n
    PROVE  SM!SetTotal(l, n) = SetTotal(l, n)
BY SameWaking, Zenon DEF SM!SetTotal, SetTotal

LEMMA SameLeaveLot ==
    ASSUME NEW l, NEW t
    PROVE  SM!LeaveLot(l, t) = LeaveLot(l, t)
BY DEF SM!LeaveLot, LeaveLot, SM!Waiting, Waiting, SM!Range, Range,
       SM!RemoveAt, RemoveAt
-----------------------------------------------------------------------------
LEMMA StreamFacts ==
    /\ SM!AllStreamCaps \subseteq Nat \ {0}
    /\ InitStreams \in Nat \ {0}
BY PipelineAssumption DEF SM!StreamAssumption, SM!AllStreamCaps

\* A stream that opens or closes changes the number of open ones by one.
LEMMA OpenFacts ==
    /\ SM!Open \subseteq Queries /\ IsFiniteSet(SM!Open)
    /\ Cardinality(SM!Open) \in Nat
<1>1. SM!Open \subseteq Queries
  BY DEF SM!Open
<1> QED
  BY <1>1, ConstantFacts, FS_Subset, FS_CardinalityType

\* The limiter is made when the first stream asks for a slot.
LEMMA StreamPoolLemma ==
    ASSUME StreamInv
    PROVE  /\ Consistent(SM!StreamPool, Queries)
           /\ SM!StreamPool.total = maxStreams
           /\ SM!StreamPool.borrowers = sl.borrowers
           /\ Waiting(SM!StreamPool) = Waiting(sl)
<1>1. maxStreams \in Nat /\ 0 \in Nat /\ sbooted \in BOOLEAN
  BY DEF StreamInv, StreamTypes
<1>2. CASE sbooted
  BY <1>2 DEF SM!StreamPool, StreamInv, StreamPoolInv
<1>3. CASE ~sbooted
  BY <1>1, <1>3, NewLimiterLemma, SameNew DEF SM!StreamPool, StreamInv, StreamPoolInv
<1> QED
  BY <1>1, <1>2, <1>3
-----------------------------------------------------------------------------
\* What the operations of the stream manager do to its own state.
LEMMA AskForSlotKeeps ==
    ASSUME StreamInv, NEW q \in Queries, SM!AskForSlot(q)
    PROVE  StreamInv'
<1> DEFINE S == SM!StreamPool
<1>1. /\ spc[q] = "idle" /\ spc \in [Queries -> StreamPoints]
      /\ sbooted' = TRUE /\ maxStreams' = maxStreams /\ scount' = scount
      /\ peakOpen' = peakOpen /\ sreloads' = sreloads
  BY DEF SM!AskForSlot, StreamInv, StreamTypes
<1>2. /\ Consistent(S, Queries) /\ S.total = maxStreams
      /\ S.borrowers = sl.borrowers /\ Waiting(S) = Waiting(sl)
  BY StreamPoolLemma
<1>3. q \notin S.borrowers /\ q \notin Waiting(S)
  BY <1>1, <1>2 DEF StreamInv, StreamPoolInv
<1> HIDE DEF S
<1>4. CASE spc' = [spc EXCEPT ![q] = "abort"] /\ sl' = S
  <2>1. StreamTypes'
    BY <1>1, <1>4 DEF StreamInv, StreamTypes, StreamPoints
  <2>2. StreamPoolInv'
    BY <1>1, <1>2, <1>4 DEF StreamInv, StreamPoolInv, SM!Open
  <2> QED
    BY <2>1, <2>2 DEF StreamInv
<1>5. CASE spc' = [spc EXCEPT ![q] = "slot"] /\ sl' = Acquire(S, q)
  <2>1. /\ Consistent(sl', Queries) /\ sl'.total = maxStreams
        /\ \/ /\ sl'.borrowers = sl.borrowers \cup {q}
              /\ Waiting(sl') = Waiting(sl)
              /\ Cardinality(sl'.borrowers) <= maxStreams
           \/ /\ sl'.borrowers = sl.borrowers
              /\ Waiting(sl') = Waiting(sl) \cup {q}
    <3>1. /\ Consistent(Acquire(S, q), Queries) /\ Acquire(S, q).total = S.total
          /\ \/ /\ Acquire(S, q).borrowers = S.borrowers \cup {q}
                /\ Waiting(Acquire(S, q)) = Waiting(S)
                /\ Cardinality(S.borrowers \cup {q}) <= S.total
             \/ /\ Acquire(S, q).borrowers = S.borrowers
                /\ Waiting(Acquire(S, q)) = Waiting(S) \cup {q}
      <4>1. q \in Queries /\ q \notin S.borrowers /\ q \notin Waiting(S)
        BY <1>3
      <4>2. Consistent(S, Queries) /\ IsFiniteSet(Queries)
        BY <1>2, ConstantFacts
      <4> QED
        BY <4>1, <4>2, AcquireLemma
    <3> QED
      BY <1>2, <1>5, <3>1
  <2>2. StreamTypes'
    BY <1>1, <1>5 DEF StreamInv, StreamTypes, StreamPoints
  <2>3. StreamPoolInv'
    BY <1>1, <1>5, <2>1 DEF StreamInv, StreamPoolInv, SM!Open
  <2> QED
    BY <2>2, <2>3 DEF StreamInv
<1> QED
  BY <1>4, <1>5, SameAcquire DEF SM!AskForSlot, S

LEMMA OpenStreamKeeps ==
    ASSUME StreamInv, NEW q \in Queries, SM!OpenStream(q)
    PROVE  /\ StreamInv'
           /\ scount' = [scount EXCEPT !["opened"] = @ + 1]
           /\ Cardinality(SM!Open') = Cardinality(SM!Open) + 1
<1>1. /\ spc[q] = "slot" /\ q \in sl.borrowers /\ spc \in [Queries -> StreamPoints]
      /\ spc' = [spc EXCEPT ![q] = "open"] /\ sl' = sl /\ sbooted' = sbooted
      /\ maxStreams' = maxStreams /\ sreloads' = sreloads
      /\ scount' = [scount EXCEPT !["opened"] = @ + 1]
  BY DEF SM!OpenStream, StreamInv, StreamTypes
<1>2. SM!Open' = SM!Open \cup {q} /\ q \notin SM!Open
  BY <1>1 DEF SM!Open
<1>3. /\ Cardinality(SM!Open') = Cardinality(SM!Open) + 1
      /\ Cardinality(SM!Open') \in Nat
  BY <1>2, OpenFacts, FS_AddElement
<1>4. Cardinality(SM!Open') <= Cardinality(sl.borrowers) /\ Cardinality(sl.borrowers) \in Nat
  <2>1. SM!Open' \subseteq sl.borrowers /\ sl.borrowers \subseteq Queries
    BY <1>1, <1>2 DEF StreamInv, StreamPoolInv, Consistent
  <2>2. IsFiniteSet(sl.borrowers)
    BY <2>1, ConstantFacts, FS_Subset
  <2> QED
    BY <2>1, <2>2, FS_Subset, FS_CardinalityType
<1>5. peakOpen' \in {peakOpen, Cardinality(SM!Open')}
  <2>1. SM!Cardinality(SM!Open \cup {q}) = Cardinality(SM!Open')
    BY <1>2, SameCardinality
  <2> QED
    BY <2>1 DEF SM!OpenStream
<1>6. StreamTypes'
  BY <1>1, <1>3, <1>5 DEF StreamInv, StreamTypes, StreamPoints
<1>7. StreamPoolInv'
  <2>1. sbooted' => sl'.total = maxStreams'
    BY <1>1 DEF StreamInv, StreamPoolInv
  <2>2. sbooted
    BY <1>1, NewLimiterLemma DEF StreamInv, StreamPoolInv, StreamTypes
  <2>3. sl'.borrowers \cup Waiting(sl') = {x \in Queries : spc'[x] \in {"slot", "open"}}
    BY <1>1 DEF StreamInv, StreamPoolInv
  <2>4. SM!Open' \subseteq sl'.borrowers
    BY <1>1, <1>2 DEF StreamInv, StreamPoolInv
  <2>5. sreloads' = 0 => peakOpen' <= maxStreams'
    BY <1>1, <1>3, <1>4, <1>5 DEF StreamInv, StreamPoolInv, StreamTypes
  <2>6. Consistent(sl', Queries) /\ (sreloads' = 0 => Cardinality(sl'.borrowers) <= maxStreams')
    BY <1>1 DEF StreamInv, StreamPoolInv
  <2> QED
    BY <1>1, <2>1, <2>2, <2>3, <2>4, <2>5, <2>6 DEF StreamPoolInv
<1> QED
  BY <1>1, <1>3, <1>6, <1>7 DEF StreamInv

LEMMA CloseKeeps ==
    ASSUME StreamInv, NEW q \in Queries, NEW C \in SUBSET {"errors", "timeouts"},
           SM!Close(q, C)
    PROVE  /\ StreamInv'
           /\ scount' = [c \in {"opened", "closed", "errors", "timeouts"} |->
                           IF c \in {"closed"} \cup C THEN scount[c] + 1 ELSE scount[c]]
           /\ Cardinality(SM!Open) = Cardinality(SM!Open') + 1
           /\ Cardinality(SM!Open') \in Nat
<1>1. /\ spc[q] = "open" /\ spc \in [Queries -> StreamPoints]
      /\ spc' = [spc EXCEPT ![q] = "closed"] /\ sl' = Release(sl, q)
      /\ sbooted' = sbooted /\ maxStreams' = maxStreams
      /\ peakOpen' = peakOpen /\ sreloads' = sreloads
      /\ scount' = [c \in {"opened", "closed", "errors", "timeouts"} |->
                      IF c \in {"closed"} \cup C THEN scount[c] + 1 ELSE scount[c]]
  BY SameRelease DEF SM!Close, StreamInv, StreamTypes
<1>2. SM!Open' = SM!Open \ {q} /\ q \in SM!Open
  BY <1>1 DEF SM!Open
<1>3. /\ Cardinality(SM!Open) = Cardinality(SM!Open') + 1
      /\ Cardinality(SM!Open') \in Nat
  <2>1. /\ SM!Open = SM!Open' \cup {q} /\ q \notin SM!Open'
        /\ SM!Open' \subseteq SM!Open
    BY <1>2
  <2>2. IsFiniteSet(SM!Open') /\ Cardinality(SM!Open') \in Nat
    BY <2>1, OpenFacts, FS_Subset, FS_CardinalityType
  <2> QED
    BY <2>1, <2>2, FS_AddElement
<1>4. q \in sl.borrowers /\ q \notin Waiting(sl) /\ sbooted
      /\ Consistent(sl, Queries) /\ sl.total = maxStreams
  BY <1>1, <1>2, NewLimiterLemma
     DEF StreamInv, StreamPoolInv, StreamTypes, Consistent, LotIsSane
<1>5. /\ Consistent(sl', Queries) /\ sl'.total = maxStreams
      /\ sl.borrowers \ {q} \subseteq sl'.borrowers
      /\ sl'.borrowers \subseteq (sl.borrowers \ {q}) \cup Waiting(sl)
      /\ Waiting(sl') = Waiting(sl) \ sl'.borrowers
      /\ sl'.borrowers # sl.borrowers \ {q} => Cardinality(sl'.borrowers) <= maxStreams
  BY <1>1, <1>4, ReleaseLemma, ConstantFacts
<1>6. Cardinality(sl.borrowers \ {q}) <= Cardinality(sl.borrowers)
      /\ Cardinality(sl.borrowers) \in Nat /\ Cardinality(sl.borrowers \ {q}) \in Nat
  <2>1. sl.borrowers \subseteq Queries
    BY <1>4 DEF Consistent
  <2> QED
    BY <2>1, ConstantFacts, FS_Subset, FS_CardinalityType
<1>7. StreamTypes'
  BY <1>1 DEF StreamInv, StreamTypes, StreamPoints
<1>8. StreamPoolInv'
  <2>1. sl'.borrowers \cup Waiting(sl') = {x \in Queries : spc'[x] \in {"slot", "open"}}
    <3>1. sl'.borrowers \cup Waiting(sl') = (sl.borrowers \cup Waiting(sl)) \ {q}
      BY <1>4, <1>5
    <3> QED
      BY <1>1, <3>1 DEF StreamInv, StreamPoolInv
  <2>2. SM!Open' \subseteq sl'.borrowers
    BY <1>2, <1>5 DEF StreamInv, StreamPoolInv
  <2>3. sreloads = 0 => Cardinality(sl'.borrowers) <= maxStreams
    BY <1>5, <1>6 DEF StreamInv, StreamPoolInv, StreamTypes
  <2> QED
    BY <1>1, <1>4, <1>5, <2>1, <2>2, <2>3 DEF StreamInv, StreamPoolInv
<1> QED
  BY <1>1, <1>3, <1>7, <1>8 DEF StreamInv

LEMMA InterruptKeeps ==
    ASSUME StreamInv, NEW q \in Queries, SM!Interrupt(q)
    PROVE  StreamInv' /\ scount' = scount /\ SM!Open' = SM!Open
<1>1. /\ spc \in [Queries -> StreamPoints]
      /\ spc' = IF q \in Waiting(sl) THEN [spc EXCEPT ![q] = "abort"] ELSE spc
      /\ sl' = LeaveLot(sl, q) /\ sbooted' = sbooted /\ maxStreams' = maxStreams
      /\ scount' = scount /\ peakOpen' = peakOpen /\ sreloads' = sreloads
  BY SameLeaveLot, SameWaiting DEF SM!Interrupt, StreamInv, StreamTypes
<1>2. /\ Consistent(sl', Queries) /\ sl'.total = sl.total
      /\ sl'.borrowers = sl.borrowers /\ Waiting(sl') = Waiting(sl) \ {q}
  BY <1>1, LeaveLotLemma DEF StreamInv, StreamPoolInv
<1>3. Waiting(sl) \cap sl.borrowers = {}
  BY DEF StreamInv, StreamPoolInv, Consistent, LotIsSane
<1>4. SM!Open' = SM!Open
  BY <1>1, <1>3 DEF SM!Open, StreamInv, StreamPoolInv
<1>5. StreamTypes'
  BY <1>1 DEF StreamInv, StreamTypes, StreamPoints
<1>6. sl'.borrowers \cup Waiting(sl') = {x \in Queries : spc'[x] \in {"slot", "open"}}
  BY <1>1, <1>2, <1>3 DEF StreamInv, StreamPoolInv
<1>7. ~sbooted => sl' = sl /\ spc' = spc
  <2>1. ~sbooted => q \notin Waiting(sl)
    BY NewLimiterLemma DEF StreamInv, StreamPoolInv
  <2> QED
    BY <1>1, <2>1 DEF LeaveLot
<1>8. StreamPoolInv'
  BY <1>1, <1>2, <1>4, <1>6, <1>7 DEF StreamInv, StreamPoolInv
<1> QED
  BY <1>1, <1>4, <1>5, <1>8 DEF StreamInv

LEMMA ReconfigureStreamsKeeps ==
    ASSUME StreamInv, NEW n \in SM!AllStreamCaps, SM!ReconfigureStreams(n)
    PROVE  StreamInv' /\ scount' = scount /\ SM!Open' = SM!Open /\ spc' = spc
<1>1. /\ spc' = spc /\ scount' = scount /\ peakOpen' = peakOpen /\ sbooted' = sbooted
      /\ maxStreams' = n /\ n \in Nat \ {0} /\ sreloads \in Nat /\ sreloads' = sreloads + 1
      /\ sl' = IF sbooted THEN SetTotal(sl, n) ELSE sl
  BY StreamFacts, SameSetTotal
     DEF SM!ReconfigureStreams, SM!SlotsReloaded, StreamInv, StreamTypes
<1>2. SM!Open' = SM!Open
  BY <1>1 DEF SM!Open
<1>3. StreamTypes' /\ sreloads' # 0
  BY <1>1 DEF StreamInv, StreamTypes
<1>4. StreamPoolInv'
  <2>1. CASE ~sbooted
    BY <1>1, <1>2, <1>3, <2>1 DEF StreamInv, StreamPoolInv
  <2>2. CASE sbooted
    <3>1. /\ Consistent(sl', Queries) /\ sl'.total = n
          /\ sl.borrowers \subseteq sl'.borrowers
          /\ sl'.borrowers \subseteq sl.borrowers \cup Waiting(sl)
          /\ Waiting(sl') = Waiting(sl) \ sl'.borrowers
      BY <1>1, <2>2, SetTotalLemma, ConstantFacts DEF StreamInv, StreamPoolInv
    <3>2. sl'.borrowers \cup Waiting(sl') = sl.borrowers \cup Waiting(sl)
      BY <3>1
    <3> QED
      BY <1>1, <1>2, <1>3, <2>2, <3>1, <3>2 DEF StreamInv, StreamPoolInv
  <2> QED
    BY <2>1, <2>2
<1> QED
  BY <1>1, <1>2, <1>3, <1>4 DEF StreamInv

\* The other steps leave the limiter alone.
LEMMA SlotAbandonedKeeps ==
    ASSUME StreamInv, NEW q \in Queries, SM!SlotAbandoned(q)
    PROVE  StreamInv' /\ scount' = scount /\ SM!Open' = SM!Open
<1>1. /\ spc[q] = "abort" /\ spc \in [Queries -> StreamPoints]
      /\ spc' = [spc EXCEPT ![q] = "closed"] /\ sl' = sl /\ sbooted' = sbooted
      /\ maxStreams' = maxStreams /\ scount' = scount /\ peakOpen' = peakOpen
      /\ sreloads' = sreloads
  BY DEF SM!SlotAbandoned, StreamInv, StreamTypes
<1>2. SM!Open' = SM!Open
  BY <1>1 DEF SM!Open
<1>3. StreamTypes'
  BY <1>1 DEF StreamInv, StreamTypes, StreamPoints
<1>4. StreamPoolInv'
  BY <1>1, <1>2 DEF StreamInv, StreamPoolInv
<1> QED
  BY <1>1, <1>2, <1>3, <1>4 DEF StreamInv

LEMMA StreamIdleKeeps ==
    ASSUME StreamInv, UNCHANGED <<maxStreams, sbooted, sl, spc, scount, peakOpen, sreloads>>
    PROVE  StreamInv' /\ scount' = scount /\ SM!Open' = SM!Open
<1>1. SM!Open' = SM!Open
  BY DEF SM!Open
<1> QED
  BY <1>1 DEF StreamInv, StreamTypes, StreamPoolInv
-----------------------------------------------------------------------------
\* Whatever the pipeline does is a step of the coordinator, or none.
LEMMA CoordinatorStep ==
    ASSUME [PipeNext]_pipeVars
    PROVE  [Next]_vars
<1>1. ASSUME NEW q \in Queries, PipeStep(q) PROVE QueryStep(q) \/ UNCHANGED vars
  BY <1>1 DEF PipeStep, Admit, StartQuery, OpenStream, NetworkReturns, NetworkRaises,
              StreamTimesOut, Interrupted, QueryDeadline, StreamDeadline, CallerCancels,
              QueryStep
<1>2. ASSUME PostConfig
      PROVE  (\E nq, nw \in AllCaps : UpdateConfig(nq, nw)) \/ UNCHANGED vars
  BY <1>2 DEF PostConfig
<1>3. ASSUME PipeRest \/ UNCHANGED pipeVars PROVE UNCHANGED vars
  BY <1>3 DEF PipeRest, pipeVars
<1> QED
  BY <1>1, <1>2, <1>3 DEF PipeNext, Next

\* What the end of a query does to the state that the two components share.
LEMMA FinishFacts ==
    ASSUME IInv, NEW q \in Queries, NEW s \in Terminal, Finish(q, s)
    PROVE  /\ pc' = [pc EXCEPT ![q] = "done"] /\ pc \in [Queries -> Points]
           /\ count \in [Terminal \cup {"total"} -> Nat]
           /\ count' = [count EXCEPT ![s] = @ + 1]
BY DEF Finish, Counted, IInv, CallTypes

\* The steps of a query that touch neither its stream nor query_fn.
LEMMA AdmitKeeps ==
    ASSUME PipeInv, NEW q \in Queries, Admit(q)
    PROVE  StreamInv' /\ Nested' /\ Tally'
<1>1. /\ StreamInv /\ UNCHANGED streamVars
      /\ pc \in [Queries -> Points] /\ count \in [Terminal \cup {"total"} -> Nat]
  BY DEF Admit, PipeInv, IInv, CallTypes
<1>2. StreamInv' /\ scount' = scount /\ SM!Open' = SM!Open /\ spc' = spc
  BY <1>1, StreamIdleKeeps DEF streamVars
<1>3. CASE FindPeer(q)
  <2>1. /\ pc[q] = "idle"
        /\ \E p \in {"walk", "query", "abort"} : pc' = [pc EXCEPT ![q] = p]
        /\ count' = [count EXCEPT !["total"] = @ + 1]
    BY <1>3 DEF FindPeer
  <2> QED
    BY <1>1, <1>2, <2>1 DEF Nested, Tally, CountersAgree, PipeInv, Terminal
<1>4. CASE WalkAdmitted(q)
  <2>1. /\ pc[q] = "walk" /\ count' = count
        /\ \E p \in {"query", "abort"} : pc' = [pc EXCEPT ![q] = p]
    BY <1>4 DEF WalkAdmitted
  <2> QED
    BY <1>1, <1>2, <2>1 DEF Nested, Tally, CountersAgree, PipeInv
<1>5. CASE pc[q] = "abort" /\ Unwind(q)
  <2>1. Finish(q, "cancelled")
    BY <1>5 DEF Unwind
  <2>2. /\ pc' = [pc EXCEPT ![q] = "done"]
        /\ count' = [count EXCEPT !["cancelled"] = @ + 1]
    BY <2>1, FinishFacts DEF Terminal, PipeInv
  <2>3. Nested'
    BY <1>1, <1>2, <1>5, <2>2 DEF Nested, PipeInv
  <2>4. Tally'
    BY <1>1, <1>2, <2>2
       DEF Tally, CountersAgree, PipeInv, Terminal, StreamInv, StreamTypes
  <2> QED
    BY <1>2, <2>3, <2>4
<1> QED
  BY <1>3, <1>4, <1>5 DEF Admit

LEMMA StartQueryKeeps ==
    ASSUME PipeInv, NEW q \in Queries, StartQuery(q)
    PROVE  StreamInv' /\ Nested' /\ Tally'
<1>1. /\ pc[q] = "query" /\ pc' = [pc EXCEPT ![q] = "run"] /\ count' = count
      /\ pc \in [Queries -> Points]
  BY DEF StartQuery, Execute, PipeInv, IInv, CallTypes
<1>2. /\ spc[q] = "idle" /\ spc \in [Queries -> StreamPoints] /\ scount' = scount
      /\ \E p \in {"slot", "abort"} : spc' = [spc EXCEPT ![q] = p]
  BY DEF StartQuery, SM!AskForSlot, PipeInv, StreamInv, StreamTypes
<1>3. StreamInv'
  BY AskForSlotKeeps DEF StartQuery, PipeInv
<1>4. SM!Open' = SM!Open
  BY <1>2 DEF SM!Open
<1>5. Nested'
  BY <1>1, <1>2 DEF Nested, PipeInv
<1> QED
  BY <1>1, <1>2, <1>3, <1>4, <1>5 DEF Tally, CountersAgree, PipeInv

LEMMA StreamOpensKeeps ==
    ASSUME PipeInv, NEW q \in Queries, OpenStream(q)
    PROVE  StreamInv' /\ Nested' /\ Tally'
<1>1. /\ pc' = pc /\ count' = count
      /\ spc[q] = "slot" /\ spc \in [Queries -> StreamPoints]
      /\ spc' = [spc EXCEPT ![q] = "open"]
  BY DEF OpenStream, SM!OpenStream, vars, callVars, PipeInv, StreamInv, StreamTypes
<1>2. /\ StreamInv' /\ scount' = [scount EXCEPT !["opened"] = @ + 1]
      /\ Cardinality(SM!Open') = Cardinality(SM!Open) + 1
  BY OpenStreamKeeps DEF OpenStream, PipeInv
<1>3. Nested'
  BY <1>1 DEF Nested, PipeInv
<1>4. Tally'
  BY <1>1, <1>2, OpenFacts DEF Tally, CountersAgree, PipeInv, StreamInv, StreamTypes
<1> QED
  BY <1>2, <1>3, <1>4

\* query_fn ends and its stream with it; the outcome and the way the stream
\* closed fit each other.
LEMMA StreamClosesKeeps ==
    ASSUME PipeInv, NEW q \in Queries, NEW s \in Terminal,
           NEW C \in SUBSET {"errors", "timeouts"},
           Finish(q, s), SM!Close(q, C),
           \/ s = "failed" /\ \E c \in {"errors", "timeouts"} : C = {c}
           \/ s # "failed" /\ C = {}
    PROVE  StreamInv' /\ Nested' /\ Tally'
<1>1. /\ pc' = [pc EXCEPT ![q] = "done"] /\ pc \in [Queries -> Points]
      /\ count \in [Terminal \cup {"total"} -> Nat]
      /\ count' = [count EXCEPT ![s] = @ + 1]
  BY FinishFacts DEF PipeInv
<1>2. /\ StreamInv'
      /\ scount' = [c \in {"opened", "closed", "errors", "timeouts"} |->
                      IF c \in {"closed"} \cup C THEN scount[c] + 1 ELSE scount[c]]
      /\ Cardinality(SM!Open) = Cardinality(SM!Open') + 1
      /\ Cardinality(SM!Open') \in Nat
  BY CloseKeeps DEF PipeInv
<1>3. spc[q] = "open" /\ spc' = [spc EXCEPT ![q] = "closed"]
      /\ spc \in [Queries -> StreamPoints]
      /\ scount \in [{"opened", "closed", "errors", "timeouts"} -> Nat]
  BY DEF SM!Close, PipeInv, StreamInv, StreamTypes
<1>4. Nested'
  BY <1>1, <1>3 DEF Nested, PipeInv
<1>5. /\ scount'["opened"] = scount["opened"] /\ scount'["closed"] = scount["closed"] + 1
      /\ scount'["errors"] = IF "errors" \in C THEN scount["errors"] + 1 ELSE scount["errors"]
      /\ scount'["timeouts"] = IF "timeouts" \in C THEN scount["timeouts"] + 1
                                                   ELSE scount["timeouts"]
  BY <1>2
<1>6. CountersAgree'
  <2>1. scount["errors"] \in Nat /\ scount["timeouts"] \in Nat /\ scount["closed"] \in Nat
        /\ \A t \in Terminal : count[t] \in Nat
    BY <1>1, <1>3
  <2>2. CASE s = "failed"
    BY <1>1, <1>5, <2>1, <2>2 DEF CountersAgree, Tally, PipeInv, Terminal
  <2>3. CASE s # "failed"
    BY <1>1, <1>5, <2>1, <2>3 DEF CountersAgree, Tally, PipeInv, Terminal
  <2> QED
    BY <2>2, <2>3
<1>7. scount'["opened"] = scount'["closed"] + Cardinality(SM!Open')
  BY <1>2, <1>3, <1>5 DEF Tally, PipeInv
<1> QED
  BY <1>2, <1>4, <1>6, <1>7 DEF Tally

LEMMA InterruptedKeeps ==
    ASSUME PipeInv, NEW q \in Queries, Interrupted(q)
    PROVE  StreamInv' /\ Nested' /\ Tally'
<1>1. PICK s \in {"timeout", "cancelled"} : Finish(q, s)
  BY DEF Interrupted, Unwind
<1>2. CASE SM!BodyInterrupted(q)
  BY <1>1, <1>2, StreamClosesKeeps DEF SM!BodyInterrupted, Terminal
<1>3. CASE SM!SlotAbandoned(q)
  <2>1. /\ pc' = [pc EXCEPT ![q] = "done"] /\ pc \in [Queries -> Points]
        /\ count \in [Terminal \cup {"total"} -> Nat]
        /\ count' = [count EXCEPT ![s] = @ + 1]
    BY <1>1, FinishFacts DEF PipeInv, Terminal
  <2>2. StreamInv' /\ scount' = scount /\ SM!Open' = SM!Open
    BY <1>3, SlotAbandonedKeeps DEF PipeInv
  <2>3. /\ spc' = [spc EXCEPT ![q] = "closed"] /\ spc \in [Queries -> StreamPoints]
        /\ scount \in [{"opened", "closed", "errors", "timeouts"} -> Nat]
    BY <1>3 DEF SM!SlotAbandoned, PipeInv, StreamInv, StreamTypes
  <2>4. Nested'
    BY <2>1, <2>3 DEF Nested, PipeInv
  <2>5. Tally'
    BY <2>1, <2>2, <2>3 DEF Tally, CountersAgree, PipeInv, Terminal
  <2> QED
    BY <2>2, <2>4, <2>5
<1> QED
  BY <1>2, <1>3 DEF Interrupted

\* A cancellation finds the task in one of the two components' queues, or in none.
LEMMA CallerCancelsKeeps ==
    ASSUME PipeInv, NEW q \in Queries, CallerCancels(q)
    PROVE  StreamInv' /\ Nested' /\ Tally'
<1>1. /\ count' = count /\ pc \in [Queries -> Points]
      /\ pc' = IF q \in Waiting(ql) \cup Waiting(rwl)
               THEN [pc EXCEPT ![q] = "abort"] ELSE pc
  BY DEF CallerCancels, Cancel, PipeInv, IInv, CallTypes
<1>2. /\ spc' = IF q \in Waiting(sl) THEN [spc EXCEPT ![q] = "abort"] ELSE spc
      /\ spc \in [Queries -> StreamPoints]
  BY SameWaiting DEF CallerCancels, SM!Interrupt, PipeInv, StreamInv, StreamTypes
<1>3. StreamInv' /\ scount' = scount /\ SM!Open' = SM!Open
  BY InterruptKeeps DEF CallerCancels, PipeInv
<1>4. q \in Waiting(ql) \cup Waiting(rwl) => pc[q] \in {"walk", "query"}
  BY DEF PipeInv, IInv, SlotsMatchTasks
<1>5. q \in Waiting(sl) => spc[q] \in {"slot", "open"}
  BY DEF PipeInv, StreamInv, StreamPoolInv
<1>6. Nested'
  BY <1>1, <1>2, <1>4, <1>5 DEF Nested, PipeInv
<1> QED
  BY <1>1, <1>3, <1>6 DEF Tally, CountersAgree, PipeInv

LEMMA QueryDeadlineKeeps ==
    ASSUME PipeInv, NEW q \in Queries, QueryDeadline(q)
    PROVE  StreamInv' /\ Nested' /\ Tally'
<1>1. count' = count /\ pc' = pc
  BY DEF QueryDeadline, Deadline
<1>2. /\ spc' = IF q \in Waiting(sl) THEN [spc EXCEPT ![q] = "abort"] ELSE spc
      /\ spc \in [Queries -> StreamPoints]
  BY SameWaiting DEF QueryDeadline, SM!Interrupt, PipeInv, StreamInv, StreamTypes
<1>3. StreamInv' /\ scount' = scount /\ SM!Open' = SM!Open
  BY InterruptKeeps DEF QueryDeadline, PipeInv
<1>4. q \in Waiting(sl) => spc[q] \in {"slot", "open"}
  BY DEF PipeInv, StreamInv, StreamPoolInv
<1>5. Nested'
  BY <1>1, <1>2, <1>4 DEF Nested, PipeInv
<1> QED
  BY <1>1, <1>3, <1>5 DEF Tally, CountersAgree, PipeInv

LEMMA PostConfigKeeps ==
    ASSUME PipeInv, PostConfig
    PROVE  StreamInv' /\ Nested' /\ Tally'
<1>1. pc' = pc /\ count' = count
  BY DEF PostConfig, UpdateConfig, vars, callVars
<1>2. StreamInv' /\ scount' = scount /\ SM!Open' = SM!Open /\ spc' = spc
  BY StreamIdleKeeps, ReconfigureStreamsKeeps DEF PostConfig, streamVars, PipeInv
<1> QED
  BY <1>1, <1>2 DEF Nested, Tally, CountersAgree, PipeInv
-----------------------------------------------------------------------------
LEMMA PipeInitInv == PipeInit => PipeInv
<1> SUFFICES ASSUME PipeInit PROVE PipeInv
  OBVIOUS
<1>1. IInv
  BY InitInv DEF PipeInit
<1>2. /\ sl = NewLimiter(0) /\ sbooted = FALSE /\ spc = [q \in Queries |-> "idle"]
      /\ scount = [c \in {"opened", "closed", "errors", "timeouts"} |-> 0]
      /\ maxStreams = InitStreams /\ peakOpen = 0 /\ sreloads = 0
  BY SameNew DEF PipeInit, SM!StreamInit
<1>3. SM!Open = {} /\ Cardinality(SM!Open) = 0 /\ Cardinality({}) = 0
  BY <1>2, FS_EmptySet DEF SM!Open
<1>4. StreamInv
  <2>1. /\ Consistent(sl, Queries) /\ sl.borrowers = {} /\ Waiting(sl) = {}
        /\ InitStreams \in Nat \ {0} /\ 0 \in Nat
    BY <1>2, NewLimiterLemma, StreamFacts
  <2>2. StreamTypes
    BY <1>2, <2>1 DEF StreamTypes, StreamPoints
  <2>3. StreamPoolInv
    BY <1>2, <1>3, <2>1 DEF StreamPoolInv
  <2> QED
    BY <2>2, <2>3 DEF StreamInv
<1>5. Nested
  BY <1>2 DEF Nested, PipeInit, Init
<1>6. Tally
  BY <1>2, <1>3 DEF Tally, CountersAgree, PipeInit, Init, Terminal
<1> QED
  BY <1>1, <1>4, <1>5, <1>6 DEF PipeInv

\* Every step of the pipeline keeps the inductive invariant.
LEMMA PipeNextInv ==
    ASSUME PipeInv, [PipeNext]_pipeVars
    PROVE  PipeInv'
<1>1. IInv'
  BY CoordinatorStep, NextInv DEF PipeInv
<1>2. ASSUME NEW q \in Queries, PipeStep(q) PROVE StreamInv' /\ Nested' /\ Tally'
  <2>1. CASE Admit(q)
    BY <2>1, AdmitKeeps
  <2>2. CASE StartQuery(q)
    BY <2>2, StartQueryKeeps
  <2>3. CASE OpenStream(q)
    BY <2>3, StreamOpensKeeps
  <2>4. CASE NetworkReturns(q)
    BY <2>4, StreamClosesKeeps DEF NetworkReturns, QueryReturns, SM!BodyReturns, Terminal
  <2>5. CASE NetworkRaises(q)
    BY <2>5, StreamClosesKeeps DEF NetworkRaises, QueryRaises, SM!BodyRaises, Terminal
  <2>6. CASE StreamTimesOut(q)
    BY <2>6, StreamClosesKeeps DEF StreamTimesOut, QueryRaises, SM!BodyTimesOut, Terminal
  <2>7. CASE Interrupted(q)
    BY <2>7, InterruptedKeeps
  <2>8. CASE QueryDeadline(q)
    BY <2>8, QueryDeadlineKeeps
  <2>9. CASE StreamDeadline(q)
    <3>1. UNCHANGED <<maxStreams, sbooted, sl, spc, scount, peakOpen, sreloads>>
          /\ pc' = pc /\ count' = count
      BY <2>9 DEF StreamDeadline, SM!StreamDeadline, vars, callVars
    <3>2. StreamInv' /\ scount' = scount /\ SM!Open' = SM!Open
      BY <3>1, StreamIdleKeeps DEF PipeInv
    <3> QED
      BY <3>1, <3>2 DEF Nested, Tally, CountersAgree, PipeInv
  <2>10. CASE CallerCancels(q)
    BY <2>10, CallerCancelsKeeps
  <2> QED
    BY <1>2, <2>1, <2>2, <2>3, <2>4, <2>5, <2>6, <2>7, <2>8, <2>9, <2>10 DEF PipeStep
<1>3. ASSUME PostConfig PROVE StreamInv' /\ Nested' /\ Tally'
  BY <1>3, PostConfigKeeps
<1>4. ASSUME UNCHANGED pipeVars PROVE StreamInv' /\ Nested' /\ Tally'
  <2>1. UNCHANGED streamVars /\ pc' = pc /\ count' = count
    BY <1>4 DEF pipeVars, vars, callVars
  <2>2. StreamInv' /\ scount' = scount /\ SM!Open' = SM!Open /\ spc' = spc
    BY <2>1, StreamIdleKeeps DEF PipeInv, streamVars
  <2> QED
    BY <2>1, <2>2 DEF Nested, Tally, CountersAgree, PipeInv
<1> QED
  BY <1>1, <1>2, <1>3, <1>4 DEF PipeNext, PipeRest, PipeInv

LEMMA PipeSpecInv == PipeSpec => []PipeInv
<1>1. PipeInv /\ [PipeNext]_pipeVars => PipeInv'
  BY PipeNextInv
<1> QED
  BY <1>1, PipeInitInv, PTL DEF PipeSpec
-----------------------------------------------------------------------------
\* Inside the pipeline the coordinator behaves as its own specification says, so
\* the theorems of CoordinatorProofs hold of it: query_fn and the time limits it
\* meets in open_stream are among the callbacks that find_peer foresees.
THEOREM CoordinatorInside == PipeSpec => Spec
<1>1. PipeInit => Init
  BY DEF PipeInit
<1>2. [PipeNext]_pipeVars => [Next]_vars
  BY CoordinatorStep
<1> QED
  BY <1>1, <1>2, PTL DEF PipeSpec, Spec

\* The slot is always released, and nobody waits while one is free: the promise of
\* open_stream's finally clause and of the limiter, for any number of queries,
\* under every outcome, with reloads and cancellations.
THEOREM SlotsReleased == PipeSpec => []StreamSlotsMatch
<1>1. PipeInv => StreamSlotsMatch
  <2> SUFFICES ASSUME PipeInv PROVE StreamSlotsMatch
    OBVIOUS
  <2>1. /\ scount["errors"] + scount["timeouts"] = count["failed"]
        /\ count["success"] + count["failed"] <= scount["closed"]
        /\ count["success"] \in Nat /\ count["failed"] \in Nat /\ scount["closed"] \in Nat
    BY DEF PipeInv, IInv, CallTypes, Terminal, Tally, CountersAgree, StreamInv, StreamTypes
  <2>2. WorkConserving(sl)
    BY DEF PipeInv, StreamInv, StreamPoolInv, Consistent
  <2>3. SM!Cardinality(SM!Open) = Cardinality(SM!Open)
    BY SameCardinality
  <2>4. scount["errors"] + scount["timeouts"] <= scount["closed"]
    BY <2>1
  <2> QED
    BY <2>2, <2>3, <2>4, SameWaiting
       DEF StreamSlotsMatch, SM!SlotsMatchStreams, PipeInv, StreamInv, StreamPoolInv, Tally
<1> QED
  BY <1>1, PipeSpecInv, PTL

\* A stream lives inside its query: no slot is held or awaited by a query that has
\* no query token, whichever time limit, network outcome or caller ends it.
THEOREM StreamsNest == PipeSpec => []StreamsWithinQueries
<1>1. PipeInv => StreamsWithinQueries
  <2> SUFFICES ASSUME PipeInv PROVE StreamsWithinQueries
    OBVIOUS
  <2>1. WorkConserving(ql) /\ WorkConserving(rwl) /\ WorkConserving(sl)
    BY DEF PipeInv, IInv, Pools, StreamInv, StreamPoolInv, Consistent
  <2>2. ASSUME NEW q \in Queries, q \in sl.borrowers PROVE q \in ql.borrowers
    <3>1. pc[q] = "run"
      BY <2>2 DEF PipeInv, StreamInv, StreamPoolInv, Nested
    <3> QED
      BY <3>1 DEF PipeInv, IInv, SlotsMatchTasks
  <2> QED
    BY <2>1, <2>2 DEF PipeInv, Nested, StreamsWithinQueries
<1> QED
  BY <1>1, PipeSpecInv, PTL

\* The coordinator's statistics and the stream manager's never contradict each
\* other.
THEOREM OneStoryInTheCounters == PipeSpec => []CountersAgree
<1>1. PipeInv => CountersAgree
  BY DEF PipeInv, Tally
<1> QED
  BY <1>1, PipeSpecInv, PTL

\* Layer B protects the users in Layer C as well: while one waits for a stream,
\* the slots the walks cannot use are all held by users.
THEOREM UsersKeepTheirStreams == PipeSpec => []UserShareOfStreams
<1>1. PipeInv => UserShareOfStreams
  <2> SUFFICES ASSUME PipeInv, Waiting(sl) \cap UserQueries # {},
                      Cardinality(rwl.borrowers) <= maxWalks
               PROVE  Cardinality(sl.borrowers \cap UserQueries) >= maxStreams - maxWalks
    BY DEF UserShareOfStreams
  <2> DEFINE U == sl.borrowers \cap UserQueries
             W == sl.borrowers \cap Walks
  <2>1. /\ sl.borrowers \subseteq Queries /\ rwl.borrowers \subseteq Walks
        /\ maxStreams \in Nat /\ maxWalks \in Nat
    BY ConstantFacts
       DEF PipeInv, IInv, CallTypes, Pools, StreamInv, StreamTypes, StreamPoolInv, Consistent
  <2>2. Cardinality(sl.borrowers) >= maxStreams
    <3>1. sl.lot # <<>>
      BY DEF Waiting, Range
    <3>2. sbooted
      BY <3>1, NewLimiterLemma DEF PipeInv, StreamInv, StreamPoolInv
    <3> QED
      BY <3>1, <3>2 DEF PipeInv, StreamInv, StreamPoolInv, Consistent, WorkConserving
  <2>3. W \subseteq rwl.borrowers
    <3>1. ASSUME NEW q \in W PROVE q \in rwl.borrowers
      <4>1. q \in Queries /\ q \in Walks /\ pc[q] = "run"
        BY <2>1 DEF PipeInv, StreamInv, StreamPoolInv, Nested
      <4> QED
        BY <4>1 DEF PipeInv, IInv, SlotsMatchTasks
    <3> QED
      BY <3>1
  <2>4. sl.borrowers = U \cup W /\ U \cap W = {}
    BY <2>1, ConstantFacts, QueriesAssumption
  <2>5. IsFiniteSet(U) /\ IsFiniteSet(W) /\ IsFiniteSet(rwl.borrowers)
    BY <2>1, ConstantFacts, FS_Subset
  <2>6. /\ Cardinality(U) \in Nat /\ Cardinality(W) \in Nat
        /\ Cardinality(rwl.borrowers) \in Nat
        /\ Cardinality(W) <= Cardinality(rwl.borrowers)
    BY <2>3, <2>5, FS_CardinalityType, FS_Subset
  <2>7. Cardinality(sl.borrowers) = Cardinality(U) + Cardinality(W)
    <3>1. Cardinality(U \cup W) =
            Cardinality(U) + Cardinality(W) - Cardinality(U \cap W)
      BY <2>5, FS_Union
    <3>2. Cardinality(U \cap W) = 0
      BY <2>4, FS_EmptySet
    <3> HIDE DEF U, W
    <3> QED
      BY <2>4, <2>6, <3>1, <3>2
  <2> HIDE DEF U, W
  <2>8. Cardinality(U) >= maxStreams - maxWalks
    BY <2>1, <2>2, <2>6, <2>7
  <2> QED
    BY <2>8 DEF U
<1> QED
  BY <1>1, PipeSpecInv, PTL
-----------------------------------------------------------------------------
\* The callers' cancel scopes as the stream manager sees them.
LEMMA StreamStepOfQuery ==
    ASSUME PipeInv, NEW q \in Queries, PipeStep(q)
    PROVE  SM!StreamStep(q) \/ UNCHANGED SM!svars
<1> USE DEF SM!svars, SM!streamVars, streamVars, SM!StreamStep
<1>fin. ASSUME NEW s \in Terminal, Finish(q, s)
        PROVE  (cancelled \cup expired)' = (cancelled \cup expired) \ {q}
  BY <1>fin DEF Finish
<1>1. CASE Admit(q)
  <2>1. CASE FindPeer(q) \/ WalkAdmitted(q)
    BY <1>1, <2>1 DEF Admit, FindPeer, WalkAdmitted
  <2>2. CASE pc[q] = "abort" /\ Unwind(q)
    <3>1. (cancelled \cup expired)' = (cancelled \cup expired) \ {q}
      BY <2>2, <1>fin DEF Unwind, Terminal
    <3>2. spc[q] = "idle"
      BY <2>2 DEF PipeInv, Nested
    <3> QED
      BY <1>1, <3>1, <3>2 DEF Admit
  <2> QED
    BY <1>1, <2>1, <2>2 DEF Admit
<1>2. CASE StartQuery(q)
  BY <1>2 DEF StartQuery, Execute
<1>3. CASE OpenStream(q) \/ StreamDeadline(q)
  BY <1>3 DEF OpenStream, StreamDeadline, vars, callVars
<1>4. CASE NetworkReturns(q)
  BY <1>4, <1>fin DEF NetworkReturns, QueryReturns, Terminal
<1>5. CASE NetworkRaises(q)
  BY <1>5, <1>fin DEF NetworkRaises, QueryRaises, Terminal
<1>6. CASE StreamTimesOut(q)
  BY <1>6, <1>fin DEF StreamTimesOut, QueryRaises, Terminal
<1>7. CASE Interrupted(q)
  BY <1>7, <1>fin DEF Interrupted, Unwind, Terminal
<1>8. CASE QueryDeadline(q)
  <2>1. (cancelled \cup expired)' = (cancelled \cup expired) \cup {q}
    BY <1>8 DEF QueryDeadline, Deadline
  <2> QED
    BY <1>8, <2>1 DEF QueryDeadline
<1>9. CASE CallerCancels(q)
  <2>1. (cancelled \cup expired)' = (cancelled \cup expired) \cup {q}
    BY <1>9 DEF CallerCancels, Cancel
  <2> QED
    BY <1>9, <2>1 DEF CallerCancels
<1> QED
  BY <1>1, <1>2, <1>3, <1>4, <1>5, <1>6, <1>7, <1>8, <1>9 DEF PipeStep

\* The pipeline refines the stream manager's own specification: query_fn uses
\* open_stream in no way that the manager does not foresee, with a scope that may
\* be cancelled at any point of the call.
THEOREM PipelineImplementsStreams == PipeSpec => ImplementsStreams
<1>1. PipeInit => SM!StreamInit /\ cancelled \cup expired = {}
  BY DEF PipeInit, Init
<1>2. PipeInv /\ [PipeNext]_pipeVars => [SM!StreamNext]_(SM!svars)
  <2> SUFFICES ASSUME PipeInv, [PipeNext]_pipeVars
               PROVE  SM!StreamNext \/ UNCHANGED SM!svars
    OBVIOUS
  <2>1. ASSUME NEW q \in Queries, PipeStep(q) PROVE SM!StreamNext \/ UNCHANGED SM!svars
    BY <2>1, StreamStepOfQuery DEF SM!StreamNext
  <2>2. ASSUME PostConfig PROVE SM!StreamNext \/ UNCHANGED SM!svars
    <3>1. UNCHANGED (cancelled \cup expired)
      BY <2>2 DEF PostConfig, UpdateConfig, vars, callVars
    <3> QED
      BY <2>2, <3>1 DEF PostConfig, SM!StreamNext, SM!svars, SM!streamVars, streamVars
  <2>3. ASSUME UNCHANGED pipeVars PROVE UNCHANGED SM!svars
    BY <2>3 DEF pipeVars, vars, callVars, streamVars, SM!svars, SM!streamVars
  <2> QED
    BY <2>1, <2>2, <2>3 DEF PipeNext, PipeRest
<1> QED
  BY <1>1, <1>2, PipeSpecInv, PTL DEF PipeSpec, ImplementsStreams, SM!StreamSpec
-----------------------------------------------------------------------------
\* No setting gives a stream less time than any setting gives a query.
StreamsOutlast == \A l, m \in Limits : l.stream >= m.query

\* Then an open stream never meets its own deadline before its query's.
LimitInv ==
    /\ limits \in Limits /\ allowed \in [Queries -> Nat]
    /\ \A q \in Queries : pc[q] = "run" => \E l \in Limits : allowed[q] = l.query
    /\ SM!Open \subseteq outlasting
    /\ sexpired \subseteq SM!Open \cap expired
    /\ scount["timeouts"] = 0

\* The end of a query and of its stream.
LEMMA CloseKeepsLimits ==
    ASSUME PipeInv, LimitInv, NEW q \in Queries, NEW s \in Terminal,
           NEW C \in SUBSET {"errors"}, Finish(q, s), SM!Close(q, C), NoLimits(q)
    PROVE  LimitInv'
<1>1. /\ limits' = limits /\ allowed' = [allowed EXCEPT ![q] = 0]
      /\ outlasting' = outlasting \ {q}
  BY DEF NoLimits
<1>2. pc' = [pc EXCEPT ![q] = "done"] /\ pc \in [Queries -> Points]
      /\ expired' = expired \ {q}
  BY FinishFacts DEF Finish, PipeInv
<1>3. SM!Open' = SM!Open \ {q} /\ sexpired' = sexpired \ {q}
  BY DEF SM!Close, SM!Open, PipeInv, StreamInv, StreamTypes
<1>4. scount'["timeouts"] = scount["timeouts"]
  BY CloseKeeps DEF PipeInv
<1> QED
  BY <1>1, <1>2, <1>3, <1>4 DEF LimitInv

\* A deadline that is no shorter than its query's cannot be the one that fires.
LEMMA LimitStep ==
    ASSUME StreamsOutlast, PipeInv, LimitInv, [PipeNext]_pipeVars
    PROVE  LimitInv'
<1>l. /\ \A l \in Limits : l.query \in Nat
      /\ pc \in [Queries -> Points] /\ spc \in [Queries -> StreamPoints]
      /\ \A q \in SM!Open : pc[q] = "run"
  BY PipelineAssumption
     DEF PipeInv, IInv, CallTypes, StreamInv, StreamTypes, Nested, SM!Open
<1>1. ASSUME NEW q \in Queries, PipeStep(q) PROVE LimitInv'
  <2>1. CASE Admit(q)
    <3>1. UNCHANGED <<limits, allowed, outlasting, spc, scount, sexpired>> /\ SM!Open' = SM!Open
      BY <2>1 DEF Admit, limitVars, streamVars, SM!Open
    <3>2. /\ pc[q] # "run" /\ \E p \in Points \ {"run"} : pc' = [pc EXCEPT ![q] = p]
          /\ expired' \in {expired, expired \ {q}}
      BY <2>1 DEF Admit, FindPeer, WalkAdmitted, Unwind, Finish, Points
    <3>3. sexpired \subseteq expired'
      BY <1>l, <3>2 DEF LimitInv
    <3> QED
      BY <1>l, <3>1, <3>2, <3>3 DEF LimitInv
  <2>2. CASE StartQuery(q)
    <3>1. /\ limits' = limits /\ allowed' = [allowed EXCEPT ![q] = limits.query]
          /\ outlasting' = outlasting /\ expired' = expired
          /\ pc' = [pc EXCEPT ![q] = "run"]
      BY <2>2 DEF StartQuery, Execute
    <3>2. /\ scount' = scount /\ sexpired' = sexpired /\ SM!Open' = SM!Open
      BY <1>l, <2>2 DEF StartQuery, SM!AskForSlot, SM!Open
    <3> QED
      BY <1>l, <3>1, <3>2 DEF LimitInv
  <2>3. CASE OpenStream(q)
    <3>1. /\ spc[q] = "slot" /\ scount'["timeouts"] = scount["timeouts"]
          /\ sexpired' = sexpired /\ SM!Open' = SM!Open \cup {q}
      BY <1>l, <2>3, OpenStreamKeeps DEF OpenStream, SM!OpenStream, SM!Open, PipeInv,
                                        StreamInv, StreamTypes
    <3>2. pc[q] = "run" /\ pc' = pc /\ expired' = expired
          /\ limits' = limits /\ allowed' = allowed
      BY <2>3, <3>1 DEF OpenStream, vars, callVars, PipeInv, Nested
    <3>3. outlasting' = outlasting \cup {q}
      BY <2>3, <3>2 DEF OpenStream, LimitInv, StreamsOutlast
    <3> QED
      BY <3>1, <3>2, <3>3 DEF LimitInv
  <2>4. CASE NetworkReturns(q)
    BY <2>4, CloseKeepsLimits DEF NetworkReturns, QueryReturns, SM!BodyReturns, Terminal
  <2>5. CASE NetworkRaises(q)
    BY <2>5, CloseKeepsLimits DEF NetworkRaises, QueryRaises, SM!BodyRaises, Terminal
  <2>6. CASE StreamTimesOut(q)
    BY <2>6 DEF StreamTimesOut, SM!BodyTimesOut, LimitInv
  <2>7. CASE Interrupted(q)
    <3>1. PICK s \in {"timeout", "cancelled"} : Finish(q, s)
      BY <2>7 DEF Interrupted, Unwind
    <3>2. CASE SM!BodyInterrupted(q)
      BY <2>7, <3>1, <3>2, CloseKeepsLimits DEF Interrupted, SM!BodyInterrupted, Terminal
    <3>3. CASE SM!SlotAbandoned(q)
      <4>1. /\ spc[q] = "abort" /\ SM!Open' = SM!Open /\ q \notin SM!Open
            /\ scount' = scount /\ sexpired' = sexpired
        BY <1>l, <3>3 DEF SM!SlotAbandoned, SM!Open
      <4>2. /\ pc' = [pc EXCEPT ![q] = "done"] /\ expired' = expired \ {q}
        BY <3>1 DEF Finish
      <4>3. /\ limits' = limits /\ allowed' = [allowed EXCEPT ![q] = 0]
            /\ outlasting' = outlasting \ {q}
        BY <2>7 DEF Interrupted, NoLimits
      <4> QED
        BY <1>l, <4>1, <4>2, <4>3 DEF LimitInv
    <3> QED
      BY <2>7, <3>2, <3>3 DEF Interrupted
  <2>8. CASE QueryDeadline(q) \/ CallerCancels(q)
    <3>1. SM!Open' = SM!Open /\ scount' = scount /\ sexpired' = sexpired
      BY <2>8, InterruptKeeps DEF QueryDeadline, CallerCancels, SM!Interrupt, PipeInv
    <3>2. /\ limits' = limits /\ allowed' = allowed /\ outlasting' = outlasting
          /\ expired \subseteq expired' /\ pc' \in {pc, [pc EXCEPT ![q] = "abort"]}
      BY <2>8 DEF QueryDeadline, CallerCancels, Deadline, Cancel, limitVars
    <3> QED
      BY <1>l, <3>1, <3>2 DEF LimitInv
  <2>9. CASE StreamDeadline(q)
    <3>1. /\ spc' = spc /\ scount' = scount /\ q \in SM!Open
          /\ sexpired' = sexpired \cup {q} /\ UNCHANGED <<vars, limitVars>>
      BY <2>9 DEF StreamDeadline, SM!StreamDeadline, SM!Open
    <3>2. q \in expired
      BY <2>9, <3>1 DEF StreamDeadline, LimitInv
    <3>3. SM!Open' = SM!Open
      BY <3>1 DEF SM!Open
    <3> QED
      BY <3>1, <3>2, <3>3 DEF LimitInv, vars, callVars, limitVars
  <2> QED
    BY <1>1, <2>1, <2>2, <2>3, <2>4, <2>5, <2>6, <2>7, <2>8, <2>9 DEF PipeStep
<1>2. ASSUME PostConfig PROVE LimitInv'
  <2>1. pc' = pc /\ expired' = expired
    BY <1>2 DEF PostConfig, UpdateConfig, vars, callVars
  <2>2. scount' = scount /\ sexpired' = sexpired /\ SM!Open' = SM!Open
    BY <1>2 DEF PostConfig, streamVars, SM!ReconfigureStreams, SM!Open
  <2>3. limits' \in Limits /\ allowed' = allowed /\ outlasting' = outlasting
    BY <1>2 DEF PostConfig, limitVars, SetLimits, LimitInv
  <2> QED
    BY <2>1, <2>2, <2>3 DEF LimitInv
<1>3. ASSUME UNCHANGED pipeVars PROVE LimitInv'
  BY <1>3 DEF pipeVars, vars, callVars, streamVars, limitVars, LimitInv, SM!Open
<1> QED
  BY <1>1, <1>2, <1>3 DEF PipeNext, PipeRest

\* query_fn keeps its contract, a tuple or an exception, as long as no reload can
\* make a stream's time limit shorter than any query's: of each other, not only of
\* the two that are set together.
THEOREM OnlyErrorsFail ==
    ASSUME StreamsOutlast
    PROVE  PipeSpec => []FailedOnlyByError
<1>1. PipeInit => LimitInv
  <2> SUFFICES ASSUME PipeInit PROVE LimitInv
    OBVIOUS
  <2>1. SM!Open = {} /\ sexpired = {} /\ scount["timeouts"] = 0
    BY DEF PipeInit, SM!StreamInit, SM!Open
  <2>2. limits \in Limits /\ allowed = [q \in Queries |-> 0]
        /\ pc = [q \in Queries |-> "idle"]
    BY PipelineAssumption DEF PipeInit, Init
  <2> QED
    BY <2>1, <2>2 DEF LimitInv
<1>2. PipeInv /\ LimitInv /\ [PipeNext]_pipeVars => LimitInv'
  BY LimitStep
<1>3. PipeInv /\ LimitInv => FailedOnlyByError
  BY DEF PipeInv, Tally, CountersAgree, LimitInv, StreamInv, StreamTypes, FailedOnlyByError
<1> QED
  BY <1>1, <1>2, <1>3, PipeSpecInv, PTL DEF PipeSpec
=============================================================================
