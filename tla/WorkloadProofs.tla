--------------------------- MODULE WorkloadProofs ---------------------------
(* The load generator and the walk worker on top of the coordinator, for any   *)
(* numbers of queries, any caps and any intervals.  Every step of the workload *)
(* is a step of the coordinator or leaves it alone, so that the theorems of    *)
(* CoordinatorProofs hold under the load; the two tasks add an invariant each. *)
EXTENDS Workload, CoordinatorProofs

\* The walk worker knows of every walk that is in flight.
WalkerInv ==
    /\ walking \in Walks \cup {0}
    /\ walking # 0 => pc[walking] # "idle"
    /\ InFlight(Walks) \subseteq {walking}
    /\ maxQueries = InitQueries

\* What the loop of the load generator slept and still sleeps is one of its pauses.
PaceInv ==
    /\ loadSleep \in Nat /\ sinceRound \in Nat /\ interval \in Intervals
    /\ \E pause \in Intervals \cup {Floor, IdlePoll} : sinceRound + loadSleep <= pause

WorkloadInv == IInv /\ WalkerInv /\ PaceInv
-----------------------------------------------------------------------------
\* The least of some numbers is one of them.
LEMMA LeastIsMember ==
    ASSUME NEW S \in SUBSET Nat, S # {}
    PROVE  Min(S) \in S
<1>1. PICK x \in S : \A y \in S : ~ (<<y, x>> \in OpToRel(<, Nat))
  BY NatLessThanWellFounded, WFMin
<1>2. \A y \in S : ~ (y < x)
  BY <1>1 DEF OpToRel
<1>3. \A y \in S : x <= y
  BY <1>2
<1> QED
  BY <1>3 DEF Min

LEMMA WorkloadConstants ==
    /\ UserQueries \subseteq Nat \ {0} /\ Walks \subseteq Nat \ {0}
    /\ UserQueries \cap Walks = {}
    /\ UserQueries \subseteq Queries /\ Walks \subseteq Queries
BY WorkloadAssumption, QueriesAssumption DEF Queries

\* What the first step of a query does to the state the two tasks look at.
LEMMA CallFacts ==
    ASSUME IInv, NEW q \in Queries, FindPeer(q)
    PROVE  /\ Next /\ pc[q] = "idle" /\ maxQueries' = maxQueries
           /\ pc'[q] # "idle" /\ \A r \in Queries \ {q} : pc'[r] = pc[r]
<1>1. pc \in [Queries -> Points]
  BY DEF IInv, CallTypes
<1>2. Next
  BY DEF Next, QueryStep
<1> QED
  BY <1>1, <1>2 DEF FindPeer, confVars

\* What a later step does: the query was in flight, and does not start anew.
LEMMA ProceedFacts ==
    ASSUME IInv, NEW q \in Queries, GoOn(q)
    PROVE  /\ Next /\ pc[q] \notin {"idle", "done"} /\ maxQueries' = maxQueries
           /\ pc'[q] # "idle" /\ \A r \in Queries \ {q} : pc'[r] = pc[r]
<1>1. pc \in [Queries -> Points]
  BY DEF IInv, CallTypes
<1>2. QueryStep(q)
  BY DEF GoOn, Admitted, NetworkAnswers, Expires, TimesOut, QueryStep
<1>3. Next
  BY <1>2 DEF Next
<1>4. CASE WalkAdmitted(q)
  BY <1>1, <1>3, <1>4 DEF WalkAdmitted, confVars
<1>5. CASE Execute(q)
  BY <1>1, <1>3, <1>5 DEF Execute, confVars
<1>6. CASE QueryReturns(q) \/ QueryRaises(q) \/ Unwind(q)
  BY <1>1, <1>3, <1>6 DEF QueryReturns, QueryRaises, Unwind, Finish, confVars
<1>7. CASE Deadline(q)
  BY <1>1, <1>3, <1>7 DEF Deadline, confVars
<1> QED
  BY <1>4, <1>5, <1>6, <1>7 DEF GoOn, Admitted, NetworkAnswers, Expires, TimesOut
-----------------------------------------------------------------------------
LEMMA WorkloadInvInit == WorkloadInit => WorkloadInv /\ Init
<1> SUFFICES ASSUME WorkloadInit PROVE WorkloadInv /\ Init
  OBVIOUS
<1>1. Init /\ IInv
  BY InitInv DEF WorkloadInit, TimedInit
<1>2. WalkerInv
  BY WorkloadConstants DEF WalkerInv, WorkloadInit, TimedInit, Init, InFlight
<1>3. PaceInv
  BY WorkloadAssumption DEF PaceInv, WorkloadInit
<1> QED
  BY <1>1, <1>2, <1>3 DEF WorkloadInv

\* Each step of the workload is a step of the coordinator, or none.
LEMMA StepOfService == IInv /\ [WorkloadNext]_allVars => [Next]_vars
<1> SUFFICES ASSUME IInv, [WorkloadNext]_allVars PROVE [Next]_vars
  OBVIOUS
<1>1. ASSUME NEW q \in Queries, FindPeer(q) \/ GoOn(q) PROVE Next
  BY <1>1, CallFacts, ProceedFacts
<1>2. CASE FireRound
  <2>1. Fresh(UserQueries) \in SUBSET Nat /\ Fresh(UserQueries) \subseteq Queries
    BY WorkloadConstants DEF Fresh
  <2>2. Fresh(UserQueries) # {} => Min(Fresh(UserQueries)) \in Queries
    BY <2>1, LeastIsMember
  <2> QED
    BY <1>1, <1>2, <2>2 DEF FireRound, Call, queryVars
<1>3. CASE StartWalk
  <2>1. Fresh(Walks) \in SUBSET Nat /\ Fresh(Walks) \subseteq Queries
    BY WorkloadConstants DEF Fresh
  <2>2. Fresh(Walks) # {} => Min(Fresh(Walks)) \in Queries
    BY <2>1, LeastIsMember
  <2> QED
    BY <1>1, <1>3, <2>2 DEF StartWalk, Call, queryVars
<1>4. CASE \E q \in Queries : Proceed(q)
  BY <1>1, <1>4 DEF Proceed
<1>5. CASE IdleRound \/ EndWalk \/ Tick \/ UNCHANGED allVars
           \/ \E on \in BOOLEAN, i \in Intervals : ControlLoadgen(on, i)
  BY <1>5 DEF IdleRound, EndWalk, Tick, ControlLoadgen, allVars, queryVars
<1> QED
  BY <1>2, <1>3, <1>4, <1>5 DEF WorkloadNext

\* The worker starts a walk only when none is in flight, and lets go of one only
\* when it is over.
LEMMA WalkerStep == IInv /\ WalkerInv /\ [WorkloadNext]_allVars => WalkerInv'
<1> SUFFICES ASSUME IInv, WalkerInv, [WorkloadNext]_allVars PROVE WalkerInv'
  OBVIOUS
<1> USE WorkloadConstants
<1>1. CASE FireRound
  <2>1. walking' = walking
    BY <1>1 DEF FireRound, walkVars
  <2>2. CASE Fresh(UserQueries) = {}
    BY <1>1, <2>1, <2>2 DEF FireRound, queryVars, vars, callVars, confVars, WalkerInv, InFlight
  <2>3. CASE Fresh(UserQueries) # {}
    <3>1. PICK q \in UserQueries : FindPeer(q)
      <4>1. Fresh(UserQueries) \in SUBSET Nat /\ Fresh(UserQueries) \subseteq UserQueries
        BY DEF Fresh
      <4>2. Min(Fresh(UserQueries)) \in UserQueries
        BY <2>3, <4>1, LeastIsMember
      <4> QED
        BY <1>1, <2>3, <4>2 DEF FireRound, Call
    <3>2. \A w \in Walks : pc'[w] = pc[w]
      BY <3>1, CallFacts
    <3>3. maxQueries' = maxQueries
      BY <3>1, CallFacts
    <3> QED
      BY <2>1, <3>2, <3>3 DEF WalkerInv, InFlight
  <2> QED
    BY <2>2, <2>3
<1>2. CASE StartWalk
  <2>1. walking = 0 /\ InFlight(Walks) = {}
    BY <1>2 DEF StartWalk, WalkerInv, InFlight
  <2>2. CASE UNCHANGED <<queryVars, walking>>
    BY <2>2 DEF queryVars, vars, callVars, confVars, WalkerInv, InFlight
  <2>3. CASE ~UNCHANGED <<queryVars, walking>>
    <3>1. PICK q \in Walks : walking' = q /\ FindPeer(q)
      <4>1. Fresh(Walks) \in SUBSET Nat /\ Fresh(Walks) \subseteq Walks
        BY DEF Fresh
      <4>2. Fresh(Walks) # {} => Min(Fresh(Walks)) \in Walks
        BY <4>1, LeastIsMember
      <4> QED
        BY <1>2, <2>3, <4>2 DEF StartWalk, Call
    <3>2. /\ pc'[q] # "idle" /\ maxQueries' = maxQueries
          /\ \A w \in Walks \ {q} : pc'[w] = pc[w]
      BY <3>1, CallFacts
    <3> QED
      BY <2>1, <3>1, <3>2 DEF WalkerInv, InFlight
  <2> QED
    BY <2>2, <2>3
<1>3. CASE EndWalk
  BY <1>3 DEF EndWalk, WalkIsOver, queryVars, vars, callVars, confVars, WalkerInv, InFlight
<1>4. ASSUME NEW q \in Queries, Proceed(q) PROVE WalkerInv'
  <2>1. /\ walking' = walking /\ maxQueries' = maxQueries
        /\ pc[q] \notin {"idle", "done"} /\ pc'[q] # "idle"
        /\ \A r \in Queries \ {q} : pc'[r] = pc[r]
    BY <1>4, ProceedFacts DEF Proceed, walkVars
  <2> QED
    BY <2>1 DEF WalkerInv, InFlight
<1>5. CASE IdleRound \/ Tick \/ UNCHANGED allVars
           \/ \E on \in BOOLEAN, i \in Intervals : ControlLoadgen(on, i)
  BY <1>5 DEF IdleRound, Tick, ControlLoadgen, allVars, queryVars, walkVars, vars, callVars,
              confVars, WalkerInv, InFlight
<1> QED
  BY <1>1, <1>2, <1>3, <1>4, <1>5 DEF WorkloadNext

\* No query is awaited: the loop is held up by its own pauses alone.
LEMMA PaceStep == PaceInv /\ [WorkloadNext]_allVars => PaceInv'
<1> SUFFICES ASSUME PaceInv, [WorkloadNext]_allVars PROVE PaceInv'
  OBVIOUS
<1> DEFINE Pauses == Intervals \cup {Floor, IdlePoll}
<1>0. Pauses \subseteq Nat /\ IdlePoll \in Pauses /\ Floor \in Pauses /\ interval \in Pauses
  BY WorkloadAssumption DEF PaceInv
<1>1. CASE IdleRound
  BY <1>0, <1>1 DEF IdleRound, PaceInv
<1>2. CASE FireRound
  <2>1. loadSleep' = Pause /\ sinceRound' = 0 /\ interval' = interval /\ Pause \in Pauses
    BY <1>0, <1>2 DEF FireRound, Pause
  <2> QED
    BY <1>0, <2>1 DEF PaceInv
<1>3. CASE Tick
  <2>1. /\ loadSleep # 0 /\ loadSleep' = loadSleep - 1 /\ sinceRound' = sinceRound + 1
        /\ interval' = interval /\ loadSleep \in Nat /\ sinceRound \in Nat
    BY <1>3 DEF Tick, LoopIsFree, Less, PaceInv
  <2>2. PICK pause \in Pauses : sinceRound + loadSleep <= pause
    BY DEF PaceInv
  <2>3. /\ loadSleep' \in Nat /\ sinceRound' \in Nat
        /\ sinceRound' + loadSleep' = sinceRound + loadSleep
    BY <2>1
  <2> QED
    BY <2>1, <2>2, <2>3 DEF PaceInv
<1>4. CASE StartWalk \/ EndWalk \/ UNCHANGED allVars
           \/ (\E q \in Queries : Proceed(q))
           \/ \E on \in BOOLEAN, i \in Intervals : ControlLoadgen(on, i)
  <2>1. UNCHANGED <<loadSleep, sinceRound>> /\ interval' \in Intervals
    BY <1>4 DEF StartWalk, EndWalk, Proceed, ControlLoadgen, allVars, loadVars, PaceInv
  <2> QED
    BY <2>1 DEF PaceInv
<1> QED
  BY <1>1, <1>2, <1>3, <1>4 DEF WorkloadNext

LEMMA WorkloadInvHolds == WorkloadSpec => []WorkloadInv
<1>1. WorkloadInv /\ [WorkloadNext]_allVars => WorkloadInv'
  BY StepOfService, NextInv, WalkerStep, PaceStep DEF WorkloadInv
<1> QED
  BY <1>1, WorkloadInvInit, PTL DEF WorkloadSpec
-----------------------------------------------------------------------------
\* The coordinator under load behaves as the coordinator's specification allows,
\* so that each of its theorems holds there.
THEOREM ServiceUnderLoad == WorkloadSpec => Spec
<1>1. WorkloadInv /\ [WorkloadNext]_allVars => WorkloadInv' /\ [Next]_vars
  BY StepOfService, NextInv, WalkerStep, PaceStep DEF WorkloadInv
<1> QED
  BY <1>1, WorkloadInvInit, PTL DEF WorkloadSpec, Spec

\* The loop of the load generator comes round within one of its own pauses,
\* whatever its queries are waiting for.
THEOREM OpenLoop == WorkloadSpec => []LoopKeepsTime
<1>1. WorkloadInv => LoopKeepsTime
  BY WorkloadAssumption DEF WorkloadInv, PaceInv, LoopKeepsTime
<1> QED
  BY <1>1, WorkloadInvHolds, PTL

\* One walk at a time: it never waits for Layer B, and a user query waits only
\* while user queries hold all slots of Layer A but one.
THEOREM WalksStayApart == WorkloadSpec => []OneWalkAtMost
<1>1. ASSUME WorkloadInv PROVE OneWalkAtMost
  <2>0. IInv /\ WalkerInv /\ maxQueries = InitQueries /\ InitQueries \in Nat
    BY <1>1, CapsAssumption DEF WorkloadInv, WalkerInv
  <2>1. /\ pc \in [Queries -> Points] /\ Walks \subseteq Queries /\ UserQueries \subseteq Queries
        /\ InFlight(Walks) \subseteq {walking}
    BY <2>0, ConstantFacts DEF IInv, CallTypes, WalkerInv
  <2>2. Cardinality(InFlight(Walks)) <= 1
    <3>1. IsFiniteSet({walking}) /\ Cardinality({walking}) = 1
      BY FS_Singleton
    <3>2. /\ IsFiniteSet(InFlight(Walks))
          /\ Cardinality(InFlight(Walks)) <= Cardinality({walking})
      BY <2>1, <3>1, FS_Subset
    <3> QED
      BY <3>1, <3>2
  <2>3. /\ rwl.borrowers \subseteq InFlight(Walks) /\ Waiting(rwl) \subseteq InFlight(Walks)
        /\ ql.borrowers \cap Walks \subseteq InFlight(Walks)
    <3>1. rwl.borrowers \subseteq Walks /\ Waiting(rwl) \subseteq Walks
      <4>1. rwl.borrowers \subseteq Walks /\ rwl.lot \in Seq(Walks)
        BY <2>0 DEF IInv, Pools, Consistent
      <4> QED
        BY <4>1, LenProperties, ElementOfSeq DEF Waiting, Range
    <3> QED
      BY <2>0, <2>1, <3>1 DEF IInv, SlotsMatchTasks, InFlight
  <2>4. Waiting(rwl) = {}
    <3> SUFFICES ASSUME NEW w \in Waiting(rwl) PROVE FALSE
      OBVIOUS
    <3>1. rwl.lot # <<>>
      BY DEF Waiting, Range
    <3>2. booted /\ Cardinality(rwl.borrowers) >= rwl.total /\ rwl.total \in Nat \ {0}
      BY <2>0, <3>1, NewLimiterLemma, ConstantFacts
         DEF IInv, CallTypes, Pools, Consistent, WorkConserving
    <3>3. rwl.borrowers # {}
      BY <3>2, FS_EmptySet
    <3>4. PICK v \in rwl.borrowers : TRUE
      BY <3>3
    <3>5. v = w
      BY <2>1, <2>3
    <3> QED
      BY <2>0, <3>5 DEF IInv, Pools, Consistent, LotIsSane
  <2>5. ASSUME Waiting(ql) \cap UserQueries # {}
        PROVE  Cardinality(ql.borrowers \cap UserQueries) >= InitQueries - 1
    <3> DEFINE U == ql.borrowers \cap UserQueries
    <3>1. Cardinality(ql.borrowers) >= InitQueries
      <4>1. ql.lot # <<>>
        BY <2>5 DEF Waiting, Range
      <4>2. booted
        BY <2>0, <4>1, NewLimiterLemma DEF IInv, Pools
      <4> QED
        BY <2>0, <4>1, <4>2 DEF IInv, Pools, Consistent, WorkConserving
    <3>2. ql.borrowers \subseteq Queries /\ IsFiniteSet(U)
      <4>1. ql.borrowers \subseteq Queries
        BY <2>0 DEF IInv, Pools, Consistent
      <4> QED
        BY <4>1, ConstantFacts, FS_Subset
    <3>3. ql.borrowers \subseteq U \cup {walking}
      BY <2>1, <2>3, <3>2, ConstantFacts
    <3> HIDE DEF U
    <3>4. /\ IsFiniteSet(U \cup {walking})
          /\ \/ Cardinality(U \cup {walking}) = Cardinality(U) + 1
             \/ Cardinality(U \cup {walking}) = Cardinality(U)
      BY <3>2, FS_AddElement
    <3>5. /\ Cardinality(ql.borrowers) <= Cardinality(U \cup {walking})
          /\ Cardinality(ql.borrowers) \in Nat /\ Cardinality(U) \in Nat
          /\ Cardinality(U \cup {walking}) \in Nat
      BY <3>2, <3>3, <3>4, FS_Subset, FS_CardinalityType
    <3>6. Cardinality(U) >= InitQueries - 1
      BY <2>0, <3>1, <3>4, <3>5
    <3> QED
      BY <3>6 DEF U
  <2> QED
    BY <2>2, <2>4, <2>5 DEF OneWalkAtMost
<1> QED
  BY <1>1, WorkloadInvHolds, PTL
=============================================================================
