-------------------------- MODULE ExperimentProofs --------------------------
(* An arm of the experiment, for any cap, interval, duration, time limit and   *)
(* sampling interval: what its report says is complete, within the cap, recent *)
(* and consistent, and the arm ends in time if time passes.  It takes only     *)
(* steps that the coordinator takes, and neither reloads nor cancels.          *)
EXTENDS Experiment, CoordinatorProofs

Called == {q \in Queries : pc[q] # "idle"}
Completed == {q \in Queries : pc[q] = "done"}

\* The coordinator as an arm uses it: one cap for good, and nobody cancelled.
CallsInv ==
    /\ maxQueries = InitQueries
    /\ Cardinality(ql.borrowers) <= InitQueries /\ peak \in 0 .. InitQueries
    /\ cancelled = {} /\ count["cancelled"] = 0
    /\ \A q \in Queries : pc[q] # "abort" /\ (live[q] = "running" => pc[q] = "run")
    /\ count["total"] = Cardinality(Called)

\* The loop: the queries are fired in the order of their numbers, one an interval.
FiringInv ==
    /\ clock \in Nat /\ nextFire \in Nat
    /\ \E n \in 0 .. Duration \div Interval + 1 : fired = 1 .. n /\ nextFire = n * Interval
    /\ phase = "firing" => clock <= Duration
    /\ Called \subseteq fired
    /\ phase = "over" => \A q \in fired : pc[q] = "done"

SamplesInv == peakBorrowed \in 0 .. InitQueries

\* The window holds what completed up to Window before the last completion.
At(q) == StartedAt(q) + took[q]
Entry(q) == [query |-> q, at |-> At(q)]
WindowInv ==
    /\ took \in [Queries -> Int]
    /\ \A q \in Completed : At(q) \in 0 .. clock
    /\ \E last \in 0 .. clock :
          /\ last = 0 \/ \E q \in Completed : At(q) = last
          /\ \A q \in Completed : At(q) <= last
          /\ completions = {Entry(q) : q \in {p \in Completed : At(p) >= last - Window}}

\* The drain: the slots have taken the ticks that have passed off what was owed,
\* and a query that is in flight has time left that the others need not share.
Spent == InitQueries * (clock - Duration) + Cardinality(Owed)
Budget == owed + (InitQueries - 1) * QueryTimeout
DrainInv ==
    /\ phase \in {"firing", "draining", "over"}
    /\ ran \in [Queries -> 0 .. QueryTimeout]
    /\ \A q \in Queries : pc[q] \notin {"run", "done"} => ran[q] = 0
    /\ phase # "firing" =>
          /\ clock >= Duration /\ owed \in Nat /\ Spent <= Budget
          /\ \A q \in fired : Spent + (InitQueries - 1) * TimeLeft(q) <= Budget

ArmInv ==
    IInv /\ Books /\ CallsInv /\ FiringInv /\ SamplesInv /\ WindowInv /\ DrainInv
-----------------------------------------------------------------------------
\* What the assumptions say of an arm.
LEMMA ArmConstants ==
    /\ Queries = UserQueries /\ Queries = 1 .. Duration \div Interval + 1
    /\ Interval \in Nat \ {0} /\ Duration \in Nat /\ Duration \div Interval \in Nat
    /\ Window \in Nat \ {0} /\ InitQueries \in Nat \ {0}
    /\ Queries \subseteq Nat /\ \A q \in Queries : StartedAt(q) \in Int
<1>1. /\ Interval \in Nat \ {0} /\ Duration \in Nat /\ Window \in Nat \ {0}
      /\ Queries = UserQueries /\ Queries = 1 .. Duration \div Interval + 1
      /\ InitQueries \in Nat \ {0}
  BY ArmAssumption, CapsAssumption DEF Queries
<1>2. Duration \div Interval \in Nat
  BY <1>1
<1>3. Queries \subseteq Nat
  BY <1>1, <1>2
<1>4. \A q \in Queries : StartedAt(q) \in Int
  BY <1>1, <1>3 DEF StartedAt
<1> QED
  BY <1>1, <1>2, <1>3, <1>4

LEMMA MaxOfTwo ==
    ASSUME NEW a \in Int, NEW b \in Int
    PROVE  Max({a, b}) = IF a >= b THEN a ELSE b
<1> DEFINE m == IF a >= b THEN a ELSE b
<1>1. m \in {a, b} /\ \A y \in {a, b} : m >= y
  OBVIOUS
<1>2. \A x \in {a, b} : (\A y \in {a, b} : x >= y) => x = m
  OBVIOUS
<1> QED
  BY <1>1, <1>2 DEF Max

\* The rounds of the loop fit in the duration.
LEMMA RoundsFit ==
    ASSUME NEW d \in Nat, NEW i \in Nat \ {0}, NEW n \in Nat, n * i <= d
    PROVE  n <= d \div i
<1> DEFINE k == d \div i
<1>1. k \in Nat /\ d < (k + 1) * i
  OBVIOUS
<1> HIDE DEF k
<1>2. ASSUME n >= k + 1 PROVE FALSE
  <2>1. n * i >= (k + 1) * i
    BY <1>1, <1>2
  <2>2. n * i \in Nat /\ (k + 1) * i \in Nat
    BY <1>1
  <2> QED
    BY <1>1, <2>1, <2>2
<1> QED
  BY <1>1, <1>2 DEF k
-----------------------------------------------------------------------------
(* The coordinator in an arm *)

\* The steps of the coordinator that an arm takes.
ArmCall(q) ==
    \/ FindPeer(q) \/ WalkAdmitted(q) \/ Execute(q) \/ Deadline(q)
    \/ QueryReturns(q) \/ QueryRaises(q) \/ Unwind(q)

LEMMA CallIsStep ==
    ASSUME IInv, Books, NEW q \in Queries, ArmCall(q)
    PROVE  IInv' /\ Books' /\ AdmissionFits
<1>1. [Next]_vars
  BY DEF ArmCall, Next, QueryStep
<1> QED
  BY <1>1, NextInv, BooksStep

\* What runs has its token.
LEMMA RunningHolds ==
    ASSUME IInv, CallsInv
    PROVE  /\ Running \subseteq ql.borrowers
           /\ IsFiniteSet(ql.borrowers) /\ Cardinality(ql.borrowers) \in Nat
           /\ IsFiniteSet(Running) /\ Cardinality(Running) \in Nat
           /\ Cardinality(Running) <= Cardinality(ql.borrowers)
<1>1. Running \subseteq ql.borrowers
  BY DEF Running, CallsInv, IInv, SlotsMatchTasks
<1>2. ql.borrowers \subseteq Queries /\ IsFiniteSet(Queries)
  BY ConstantFacts DEF IInv, Pools, Consistent
<1>3. IsFiniteSet(ql.borrowers) /\ IsFiniteSet(Running)
  BY <1>1, <1>2, FS_Subset
<1> QED
  BY <1>1, <1>3, FS_Subset, FS_CardinalityType

LEMMA CalledFacts == IsFiniteSet(Called) /\ Cardinality(Called) \in Nat
<1>1. Called \subseteq Queries /\ IsFiniteSet(Queries)
  BY ConstantFacts DEF Called
<1> QED
  BY <1>1, FS_Subset, FS_CardinalityType

\* Where the queries are after a step: one begins, or goes on, or ends.
LEMMA CallMoves ==
    ASSUME IInv, CallsInv, NEW q \in Queries, ArmCall(q)
    PROVE  /\ maxQueries' = maxQueries /\ cancelled' = {}
           /\ \A p \in Queries \ {q} : pc'[p] = pc[p] /\ live'[p] = live[p]
           /\ pc'[q] \notin {"idle", "abort"}
           /\ live'[q] = "running" => pc'[q] = "run"
           /\ \/ FindPeer(q) /\ pc[q] = "idle" /\ pc'[q] # "done"
                    /\ count' = [count EXCEPT !["total"] = @ + 1] /\ peak' = peak
              \/ Execute(q) /\ pc[q] # "idle" /\ pc'[q] # "done" /\ count' = count
              \/ pc[q] # "idle" /\ pc'[q] # "done" /\ pc[q] # "done" /\ count' = count /\ peak' = peak
              \/ \E s \in {"success", "failed", "timeout"} :
                    /\ pc[q] = "run" /\ pc'[q] = "done" /\ peak' = peak
                    /\ count' = [count EXCEPT ![s] = @ + 1]
<1>0. /\ pc \in [Queries -> Points] /\ live \in [Queries -> {"absent", "acquiring", "running"}]
      /\ cancelled = {} /\ pc[q] # "abort"
      /\ live[q] = "running" => pc[q] = "run"
  BY DEF IInv, CallTypes, CallsInv
<1>1. CASE FindPeer(q)
  BY <1>0, <1>1 DEF FindPeer, confVars
<1>2. CASE WalkAdmitted(q)
  BY <1>0, <1>2 DEF WalkAdmitted, confVars
<1>3. CASE Execute(q)
  BY <1>0, <1>3 DEF Execute, confVars
<1>4. CASE Deadline(q)
  BY <1>0, <1>4 DEF Deadline, confVars
<1>5. CASE QueryReturns(q) \/ QueryRaises(q) \/ Unwind(q)
  BY <1>0, <1>5 DEF QueryReturns, QueryRaises, Unwind, Finish, Counted, confVars
<1> QED
  BY <1>1, <1>2, <1>3, <1>4, <1>5 DEF ArmCall

\* No step exceeds the cap, and each call is counted as it begins.
LEMMA CallsStep ==
    ASSUME IInv, Books, CallsInv, NEW q \in Queries, ArmCall(q)
    PROVE  CallsInv'
<1>0. /\ maxQueries' = InitQueries /\ cancelled' = {} /\ InitQueries \in Nat
      /\ count \in [Terminal \cup {"total"} -> Nat]
  BY CallMoves, ArmConstants DEF CallsInv, IInv, CallTypes
<1>1. Cardinality(ql'.borrowers) <= InitQueries
  <2>1. AdmissionFits
    BY CallIsStep
  <2>2. CASE Admits(ql, ql')
    BY <1>0, <2>1, <2>2 DEF AdmissionFits
  <2>3. CASE ~Admits(ql, ql')
    <3>1. ql'.borrowers \subseteq ql.borrowers
      BY <2>3 DEF Admits
    <3>2. /\ IsFiniteSet(ql.borrowers) /\ Cardinality(ql.borrowers) \in Nat
          /\ Cardinality(ql.borrowers) <= InitQueries
      BY RunningHolds DEF CallsInv
    <3>3. /\ Cardinality(ql'.borrowers) <= Cardinality(ql.borrowers)
          /\ Cardinality(ql'.borrowers) \in Nat
      BY <3>1, <3>2, FS_Subset, FS_CardinalityType
    <3> QED
      BY <1>0, <3>2, <3>3
  <2> QED
    BY <2>2, <2>3
<1>2. \A p \in Queries : pc'[p] # "abort" /\ (live'[p] = "running" => pc'[p] = "run")
  BY CallMoves DEF CallsInv
<1>3. peak' \in 0 .. InitQueries
  <2>1. CASE Execute(q)
    <3> DEFINE R == Running \cup {q}
    <3>1. q \in ql.borrowers /\ peak' = IF Cardinality(R) > peak THEN Cardinality(R) ELSE peak
      BY <2>1 DEF Execute
    <3>2. R \subseteq ql.borrowers /\ IsFiniteSet(ql.borrowers)
      BY <3>1, RunningHolds
    <3> HIDE DEF R
    <3>3. /\ Cardinality(R) \in Nat /\ Cardinality(ql.borrowers) \in Nat
          /\ Cardinality(R) <= Cardinality(ql.borrowers)
      BY <3>2, FS_Subset, FS_CardinalityType
    <3> QED
      BY <1>0, <3>1, <3>3 DEF CallsInv
  <2>2. CASE ~Execute(q)
    <3>1. peak' = peak
      BY <2>2, CallMoves
    <3> QED
      BY <3>1 DEF CallsInv
  <2> QED
    BY <2>1, <2>2
<1>4. count'["cancelled"] = 0
  BY <1>0, CallMoves DEF CallsInv, Terminal
<1>5. count'["total"] = Cardinality(Called')
  <2>1. CASE FindPeer(q)
    <3>1. Called' = Called \cup {q} /\ q \notin Called
      BY <2>1, CallMoves DEF Called, FindPeer
    <3>2. Cardinality(Called') = Cardinality(Called) + 1
      BY <3>1, CalledFacts, FS_AddElement
    <3>3. count'["total"] = count["total"] + 1
      BY <1>0, <2>1 DEF FindPeer
    <3> QED
      BY <3>2, <3>3 DEF CallsInv
  <2>2. CASE ~FindPeer(q)
    <3>1. pc[q] # "idle" /\ count'["total"] = count["total"]
      BY <1>0, <2>2, CallMoves DEF Terminal
    <3>2. Called' = Called
      BY <3>1, CallMoves DEF Called
    <3> QED
      BY <3>1, <3>2 DEF CallsInv
  <2> QED
    BY <2>1, <2>2
<1> QED
  BY <1>0, <1>1, <1>2, <1>3, <1>4, <1>5 DEF CallsInv
-----------------------------------------------------------------------------
(* The arm *)

\* The part of an arm's step that concerns the coordinator.
LEMMA ArmStepCases ==
    ASSUME [ArmNext]_allVars
    PROVE  \/ UNCHANGED vars /\ (Fire \/ StopFiring \/ Sample \/ EndArm \/ Tick \/ UNCHANGED armVars)
           \/ \E q \in Queries : ArmCall(q) /\ (Start(q) \/ GoOn(q) \/ Return(q))
<1>1. CASE Fire \/ StopFiring \/ Sample \/ EndArm \/ Tick \/ ArmRest \/ UNCHANGED allVars
  BY <1>1 DEF Fire, StopFiring, Sample, EndArm, Tick, ArmRest, allVars, queryVars
<1>2. ASSUME NEW q \in Queries, ArmStep(q)
      PROVE  ArmCall(q) /\ (Start(q) \/ GoOn(q) \/ Return(q))
  BY <1>2 DEF ArmStep, Start, GoOn, Return, Call, Admitted, Expires, NetworkAnswers, TimesOut,
              ArmCall
<1> QED
  BY <1>1, <1>2 DEF ArmNext

LEMMA ServiceInArm ==
    ASSUME IInv, Books, CallsInv, [ArmNext]_allVars
    PROVE  IInv' /\ Books' /\ CallsInv' /\ [Next]_vars
<1>1. CASE UNCHANGED vars
  <2>1. IInv' /\ Books'
    BY <1>1, NextInv, BooksStep
  <2>2. CallsInv'
    BY <1>1 DEF vars, callVars, confVars, poolVars, CallsInv, Called
  <2> QED
    BY <1>1, <2>1, <2>2
<1>2. ASSUME NEW q \in Queries, ArmCall(q) PROVE IInv' /\ Books' /\ CallsInv' /\ [Next]_vars
  BY <1>2, CallIsStep, CallsStep DEF ArmCall, Next, QueryStep
<1> QED
  BY <1>1, <1>2, ArmStepCases

\* A query that begins was fired, and a later step of it is one of a query that
\* has begun and not ended.
LEMMA CalledStep ==
    ASSUME IInv, CallsInv, Called \subseteq fired, NEW q \in Queries, ArmCall(q),
           Start(q) \/ GoOn(q) \/ Return(q)
    PROVE  Called' \subseteq fired /\ fired' = fired /\ q \in fired /\ pc[q] # "done"
<1>1. pc[q] # "done" /\ (pc[q] = "idle" => FindPeer(q))
  BY DEF ArmCall, FindPeer, WalkAdmitted, Execute, Deadline, QueryReturns, QueryRaises, Unwind
<1>2. FindPeer(q) => q \in fired
  <2>1. CASE Start(q)
    BY <2>1 DEF Start
  <2>2. CASE GoOn(q) \/ Return(q)
    BY <2>2 DEF GoOn, Return, Admitted, Expires, NetworkAnswers, TimesOut, FindPeer, WalkAdmitted,
                Execute, Deadline, TimeLimitPassed, QueryReturns, QueryRaises, Unwind
  <2> QED
    BY <2>1, <2>2
<1>3. q \in fired
  BY <1>1, <1>2 DEF Called
<1>4. Called' \subseteq Called \cup {q}
  BY CallMoves DEF Called
<1>5. fired' = fired
  BY DEF Start, GoOn, Return, armVars
<1> QED
  BY <1>1, <1>3, <1>4, <1>5

LEMMA FiringStep ==
    ASSUME IInv, CallsInv, FiringInv, [ArmNext]_allVars
    PROVE  FiringInv'
<1> DEFINE N == Duration \div Interval
<1>0. /\ clock \in Nat /\ nextFire \in Nat /\ Called \subseteq fired
      /\ Interval \in Nat \ {0} /\ Duration \in Nat /\ N \in Nat
  BY ArmConstants DEF FiringInv
<1>1. PICK n \in 0 .. N + 1 : fired = 1 .. n /\ nextFire = n * Interval
  BY DEF FiringInv
<1>2. n \in Nat
  BY <1>0, <1>1
<1>3. CASE Fire /\ UNCHANGED vars
  <2>1. /\ phase = "firing" /\ clock = nextFire /\ clock <= Duration /\ phase' = phase
        /\ fired' = fired \cup {Cardinality(fired) + 1}
        /\ nextFire' = clock + Interval /\ clock' = clock
    BY <1>3 DEF Fire, FiringInv
  <2>2. Cardinality(fired) = n
    BY <1>1, <1>2, FS_Interval
  <2>3. n <= N
    <3>1. n * Interval <= Duration
      BY <1>1, <2>1
    <3> QED
      BY <1>0, <1>2, <3>1, RoundsFit
  <2>4. n + 1 \in 0 .. N + 1 /\ fired' = 1 .. n + 1
    BY <1>0, <1>1, <1>2, <2>1, <2>2, <2>3
  <2>5. nextFire' = (n + 1) * Interval /\ nextFire' \in Nat
    BY <1>0, <1>1, <1>2, <2>1
  <2>6. Called' \subseteq fired'
    BY <1>0, <1>3, <2>1 DEF Called, vars, callVars
  <2> HIDE DEF N
  <2> QED
    BY <1>0, <2>1, <2>4, <2>5, <2>6 DEF FiringInv, N
<1>4. CASE Tick /\ UNCHANGED vars
  <2>1. /\ clock' = clock + 1 /\ UNCHANGED <<phase, fired, nextFire, pc>>
        /\ phase # "over" /\ (phase = "firing" => clock < Duration)
    BY <1>4 DEF Tick, Settled, vars, callVars
  <2>2. clock' \in Nat /\ (phase' = "firing" => clock' <= Duration) /\ Called' = Called
    BY <1>0, <2>1 DEF Called
  <2> QED
    BY <2>1, <2>2 DEF FiringInv
<1>5. CASE StopFiring /\ UNCHANGED vars
  BY <1>5 DEF StopFiring, FiringInv, Called, vars, callVars
<1>6. CASE EndArm /\ UNCHANGED vars
  BY <1>6 DEF EndArm, FiresDone, FiringInv, Called, vars, callVars
<1>7. CASE (Sample \/ UNCHANGED armVars) /\ UNCHANGED vars
  BY <1>7 DEF Sample, armVars, FiringInv, Called, vars, callVars
<1>8. ASSUME NEW q \in Queries, ArmCall(q), Start(q) \/ GoOn(q) \/ Return(q) PROVE FiringInv'
  <2>1. Called' \subseteq fired /\ fired' = fired /\ q \in fired /\ pc[q] # "done"
    BY <1>0, <1>8, CalledStep
  <2>2. UNCHANGED <<clock, phase, nextFire>>
    BY <1>8 DEF Start, GoOn, Return, armVars
  <2> QED
    BY <2>1, <2>2 DEF FiringInv
<1> QED
  BY <1>3, <1>4, <1>5, <1>6, <1>7, <1>8, ArmStepCases

LEMMA SamplesStep ==
    ASSUME IInv, CallsInv, SamplesInv, [ArmNext]_allVars
    PROVE  SamplesInv'
<1>1. CASE Sample
  <2>1. /\ Cardinality(ql.borrowers) \in Nat /\ Cardinality(ql.borrowers) <= InitQueries
        /\ InitQueries \in Nat
    BY RunningHolds, ArmConstants DEF CallsInv
  <2>2. peakBorrowed' = Max({peakBorrowed, Cardinality(ql.borrowers)})
    BY <1>1 DEF Sample, Snapshot, Borrowed
  <2>3. peakBorrowed \in Nat /\ peakBorrowed <= InitQueries
    BY <2>1 DEF SamplesInv
  <2>4. peakBorrowed' = IF peakBorrowed >= Cardinality(ql.borrowers)
                        THEN peakBorrowed ELSE Cardinality(ql.borrowers)
    BY <2>1, <2>2, <2>3, MaxOfTwo
  <2> QED
    BY <2>1, <2>3, <2>4 DEF SamplesInv
<1>2. CASE ~Sample
  <2>1. peakBorrowed' = peakBorrowed
    BY <1>2, ArmStepCases DEF Fire, StopFiring, EndArm, Tick, Start, GoOn, Return, armVars
  <2> QED
    BY <2>1 DEF SamplesInv
<1> QED
  BY <1>1, <1>2

\* Each completion is put in the window, and takes what is too old out of it.
LEMMA WindowStep ==
    ASSUME IInv, CallsInv, FiringInv, WindowInv, [ArmNext]_allVars
    PROVE  WindowInv'
<1>0. /\ took \in [Queries -> Int] /\ clock \in Nat /\ Window \in Nat
      /\ \A q \in Queries : StartedAt(q) \in Int /\ StartedAt(q)' = StartedAt(q)
      /\ pc \in [Queries -> Points]
  BY ArmConstants DEF WindowInv, FiringInv, IInv, CallTypes, StartedAt
<1>1. PICK last \in 0 .. clock :
         /\ last = 0 \/ \E q \in Completed : At(q) = last
         /\ \A q \in Completed : At(q) <= last
         /\ completions = {Entry(q) : q \in {p \in Completed : At(p) >= last - Window}}
  BY DEF WindowInv
<1>2. ASSUME Completed' = Completed, UNCHANGED <<took, completions>>, clock' \in Nat, clock' >= clock
      PROVE  WindowInv'
  <2>1. \A q \in Queries : At(q)' = At(q) /\ Entry(q)' = Entry(q)
    BY <1>0, <1>2 DEF At, Entry
  <2>2. Completed \subseteq Queries
    BY DEF Completed
  <2>3. last \in 0 .. clock' /\ \A q \in Completed : At(q) \in 0 .. clock'
    BY <1>0, <1>2 DEF WindowInv
  <2>4. {Entry(q)' : q \in {p \in Completed' : At(p)' >= last - Window}} =
           {Entry(q) : q \in {p \in Completed : At(p) >= last - Window}}
    BY <1>2, <2>1, <2>2
  <2> QED
    BY <1>0, <1>1, <1>2, <2>1, <2>2, <2>3, <2>4 DEF WindowInv
<1>3. CASE /\ UNCHANGED vars
           /\ Fire \/ StopFiring \/ Sample \/ EndArm \/ Tick \/ UNCHANGED armVars
  <2>1. pc' = pc
    BY <1>3 DEF vars, callVars
  <2>2. UNCHANGED <<took, completions>> /\ (clock' = clock \/ clock' = clock + 1)
    BY <1>3 DEF Fire, StopFiring, Sample, EndArm, Tick, armVars
  <2>3. clock' \in Nat /\ clock' >= clock
    BY <1>0, <2>2
  <2> QED
    BY <1>2, <2>1, <2>2, <2>3 DEF Completed
<1>4. ASSUME NEW q \in Queries, ArmCall(q), Start(q) \/ GoOn(q), ~Return(q) PROVE WindowInv'
  <2>1. UNCHANGED <<took, completions, clock>>
    BY <1>4 DEF Start, GoOn, armVars
  <2>2. pc[q] # "done" /\ pc'[q] # "done" /\ \A p \in Queries \ {q} : pc'[p] = pc[p]
    BY <1>0, <1>4 DEF Start, GoOn, Call, Admitted, Expires, FindPeer, WalkAdmitted, Execute, Deadline
  <2>3. Completed' = Completed
    BY <2>2 DEF Completed
  <2> QED
    BY <1>0, <1>2, <2>1, <2>3
<1>5. ASSUME NEW q \in Queries, ArmCall(q), Return(q) PROVE WindowInv'
  <2>1. /\ took' = [took EXCEPT ![q] = clock - StartedAt(q)] /\ clock' = clock
        /\ completions' = Trimmed(completions \cup {[query |-> q, at |-> clock]})
    BY <1>5 DEF Return
  <2>2. pc[q] # "done" /\ pc'[q] = "done" /\ \A p \in Queries \ {q} : pc'[p] = pc[p]
    BY <1>0, <1>5 DEF Return, NetworkAnswers, TimesOut, QueryReturns, QueryRaises, Unwind, Finish
  <2>3. /\ Completed' = Completed \cup {q} /\ q \notin Completed /\ Completed \subseteq Queries
    BY <2>2 DEF Completed
  <2>4. /\ took' \in [Queries -> Int] /\ took'[q] = clock - StartedAt(q)
        /\ \A p \in Completed : took'[p] = took[p]
    BY <1>0, <2>1, <2>3
  <2>5. At(q)' = clock
    BY <1>0, <2>4 DEF At
  <2>6. \A p \in Completed : At(p)' = At(p)
    BY <1>0, <2>3, <2>4 DEF At
  <2>7. \A p \in Completed : At(p) \in 0 .. clock /\ At(p) <= last
    BY <1>1 DEF WindowInv
  <2> DEFINE kept == {p \in Completed : At(p) >= last - Window}
             kept1 == {p \in Completed' : At(p)' >= clock - Window}
  <2>8. completions' = {Entry(p)' : p \in kept1}
    <3>1. completions' = {t \in completions \cup {[query |-> q, at |-> clock]} : t.at >= clock - Window}
      BY <2>1 DEF Trimmed
    <3>2. Entry(q)' = [query |-> q, at |-> clock] /\ \A p \in Completed : Entry(p)' = Entry(p)
      BY <2>5, <2>6 DEF Entry
    <3>3. \A p \in Completed : Entry(p).at = At(p)
      BY DEF Entry
    <3>4. last \in Nat /\ last <= clock
      BY <1>0
    <3>5. kept1 = {p \in kept : At(p) >= clock - Window} \cup {q}
      <4>1. q \in kept1
        BY <1>0, <2>3, <2>5
      <4>2. \A p \in Completed : p \in kept1 <=> p \in kept /\ At(p) >= clock - Window
        <5> SUFFICES ASSUME NEW p \in Completed
                     PROVE  p \in kept1 <=> p \in kept /\ At(p) >= clock - Window
          OBVIOUS
        <5>1. At(p) \in Nat /\ At(p)' = At(p) /\ p \in Completed'
          BY <2>3, <2>6, <2>7
        <5>2. At(p) >= clock - Window => At(p) >= last - Window
          BY <1>0, <3>4, <5>1
        <5> QED
          BY <5>1, <5>2
      <4> QED
        BY <2>3, <4>1, <4>2
    <3> DEFINE new == [query |-> q, at |-> clock]
    <3>6. new.at = clock /\ clock >= clock - Window
      BY <1>0
    <3>7. completions = {Entry(p) : p \in kept} /\ kept \subseteq Completed
      BY <1>1
    <3> HIDE DEF new, kept, kept1
    <3>8. completions' = {t \in completions : t.at >= clock - Window} \cup {new}
      BY <3>1, <3>6 DEF new
    <3>9. {t \in completions : t.at >= clock - Window} =
             {Entry(p) : p \in {r \in kept : At(r) >= clock - Window}}
      BY <3>3, <3>7
    <3>10. {Entry(p)' : p \in kept1} =
              {Entry(p) : p \in {r \in kept : At(r) >= clock - Window}} \cup {new}
      BY <3>2, <3>5, <3>7 DEF new
    <3> QED
      BY <3>8, <3>9, <3>10
  <2>9. \A p \in Completed' : At(p)' \in 0 .. clock' /\ At(p)' <= clock
    BY <1>0, <2>1, <2>3, <2>5, <2>6, <2>7
  <2>10. clock \in 0 .. clock' /\ q \in Completed' /\ Window' = Window
    BY <1>0, <2>1, <2>3
  <2> QED
    BY <2>4, <2>5, <2>8, <2>9, <2>10 DEF WindowInv
<1> QED
  BY <1>3, <1>4, <1>5, ArmStepCases

(* The drain *)

Busy == {q \in Queries : pc[q] = "run"}

\* What the invariants say of the figures of the drain.
LEMMA DrainTypes ==
    ASSUME FiringInv, DrainInv
    PROVE  /\ fired \subseteq Queries /\ QueryTimeout \in Nat \ {0}
           /\ IsFiniteSet(Owed) /\ Cardinality(Owed) \in Nat
           /\ \A q \in Queries : ran[q] \in 0 .. QueryTimeout /\ TimeLeft(q) \in 0 .. QueryTimeout
           /\ clock \in Nat /\ Duration \in Nat /\ InitQueries \in Nat \ {0}
<1>1. /\ clock \in Nat /\ Duration \in Nat /\ InitQueries \in Nat \ {0}
      /\ QueryTimeout \in Nat \ {0}
  BY ArmConstants, TimeoutAssumption DEF FiringInv
<1>2. fired \subseteq Queries /\ IsFiniteSet(fired)
  <2>1. PICK n \in 0 .. Duration \div Interval + 1 : fired = 1 .. n
    BY DEF FiringInv
  <2> QED
    BY <2>1, ArmConstants, FS_Interval
<1>3. IsFiniteSet(Owed) /\ Cardinality(Owed) \in Nat
  <2>1. IsFiniteSet(1 .. QueryTimeout)
    BY <1>1, FS_Interval
  <2>2. IsFiniteSet(fired \X (1 .. QueryTimeout))
    BY <1>2, <2>1, FS_Product
  <2>3. Owed \subseteq fired \X (1 .. QueryTimeout)
    BY DEF Owed
  <2> QED
    BY <2>2, <2>3, FS_Subset, FS_CardinalityType
<1>4. \A q \in Queries : ran[q] \in 0 .. QueryTimeout
  BY DEF DrainInv
<1>5. \A q \in Queries : TimeLeft(q) \in 0 .. QueryTimeout
  BY <1>1, <1>4 DEF TimeLeft
<1> QED
  BY <1>1, <1>2, <1>3, <1>4, <1>5

\* A limit lasts from the start of the query it is of, and never over its end.
LEMMA RanStep ==
    ASSUME IInv, CallsInv, FiringInv, DrainInv, [ArmNext]_allVars
    PROVE  /\ ran' \in [Queries -> 0 .. QueryTimeout]
           /\ \A q \in Queries : pc'[q] \notin {"run", "done"} => ran'[q] = 0
           /\ \/ ran' = ran
              \/ Tick /\ UNCHANGED vars
<1>1. CASE /\ UNCHANGED vars
           /\ Fire \/ StopFiring \/ Sample \/ EndArm \/ Tick \/ UNCHANGED armVars
  <2>1. CASE Tick
    <3>1. /\ ran' = [q \in Queries |-> IF pc[q] = "run" THEN ran[q] + 1 ELSE 0]
          /\ \A q \in fired : ~TimeLimitPassed(q)
      BY <2>1 DEF Tick, TimePasses, Settled, QuerySettled
    <3>2. \A q \in Queries : pc[q] = "run" => ran[q] < QueryTimeout
      <4>1. \A q \in Queries : pc[q] = "run" => q \in fired
        BY DEF FiringInv, Called
      <4> QED
        BY <3>1, <4>1, DrainTypes DEF TimeLimitPassed
    <3>3. \A q \in Queries : ran'[q] \in 0 .. QueryTimeout
      BY <3>1, <3>2, DrainTypes
    <3>4. pc' = pc
      BY <1>1 DEF vars, callVars
    <3> QED
      BY <1>1, <2>1, <3>1, <3>3, <3>4
  <2>2. CASE ~Tick
    <3>1. ran' = ran \/ ArmRest \/ UNCHANGED allVars
      BY <1>1, <2>2 DEF ArmNext, ArmStep, Start, GoOn, Return, Call, Admitted, Expires,
         NetworkAnswers, TimesOut, Fire, StopFiring, Sample, EndArm, queryVars
    <3>2. ran' = ran /\ pc' = pc
      BY <1>1, <3>1 DEF ArmRest, allVars, queryVars, vars, callVars
    <3> QED
      BY <3>2 DEF DrainInv
  <2> QED
    BY <2>1, <2>2
<1>2. ASSUME NEW q \in Queries, ArmCall(q), Start(q) \/ GoOn(q) \/ Return(q)
      PROVE  /\ ran' = ran
             /\ \A p \in Queries : pc'[p] \notin {"run", "done"} => ran'[p] = 0
  <2>1. ran' = ran
    BY <1>2 DEF Start, GoOn, Return, Call, Admitted, Expires, NetworkAnswers, TimesOut
  <2>2. \A p \in Queries \ {q} : pc'[p] = pc[p]
    BY <1>2, CallMoves
  <2>3. pc'[q] \notin {"run", "done"} => pc[q] \notin {"run", "done"}
    <3>1. pc \in [Queries -> Points]
      BY DEF IInv, CallTypes
    <3> QED
      BY <1>2, <3>1 DEF ArmCall, FindPeer, WalkAdmitted, Execute, Deadline, QueryReturns,
         QueryRaises, Unwind, Finish
  <2> QED
    BY <2>1, <2>2, <2>3 DEF DrainInv
<1> QED
  BY <1>1, <1>2, ArmStepCases DEF DrainInv

\* Time passes only when every slot is out, or else nobody waits for one.
LEMMA SlotsBusy ==
    ASSUME IInv, CallsInv, FiringInv, Settled, phase = "draining"
    PROVE  /\ IsFiniteSet(Busy) /\ Cardinality(Busy) \in Nat /\ Cardinality(Busy) >= 1
           /\ Busy \subseteq fired
           /\ \/ Cardinality(Busy) >= InitQueries
              \/ Busy # {} /\ \A q \in fired : pc[q] \in {"run", "done"}
<1>0. /\ \A q \in fired : /\ pc[q] # "idle"
                          /\ pc[q] \in {"run", "done"} \/ q \in Waiting(ql) \cup Waiting(rwl)
      /\ \E q \in fired : pc[q] # "done"
      /\ fired \subseteq Queries /\ Called \subseteq fired
  <2>1. fired \subseteq Queries
    <3>1. PICK n \in 0 .. Duration \div Interval + 1 : fired = 1 .. n
      BY DEF FiringInv
    <3> QED
      BY <3>1, ArmConstants
  <2> QED
    BY <2>1 DEF Settled, QuerySettled, FiresDone, FiringInv
<1>1. Busy \subseteq fired /\ IsFiniteSet(Busy) /\ Cardinality(Busy) \in Nat
  <2>1. Busy \subseteq Called /\ Busy \subseteq Queries
    BY DEF Busy, Called
  <2> QED
    BY <1>0, <2>1, ConstantFacts, FS_Subset, FS_CardinalityType
<1>2. Waiting(rwl) = {}
  <2>1. Waiting(rwl) \subseteq Walks
    BY DEF IInv, Pools, Consistent, Waiting, Range
  <2> QED
    BY <2>1, ArmAssumption
<1>3. CASE Waiting(ql) = {}
  <2>1. \A q \in fired : pc[q] \in {"run", "done"}
    BY <1>0, <1>2, <1>3
  <2>2. PICK q \in fired : pc[q] = "run"
    BY <1>0, <2>1
  <2>3. q \in Busy
    BY <1>0, <2>2 DEF Busy
  <2>4. Cardinality(Busy) # 0
    BY <1>1, <2>3, FS_EmptySet
  <2> QED
    BY <1>1, <2>1, <2>3, <2>4
<1>4. CASE Waiting(ql) # {}
  <2>1. PICK p \in Waiting(ql) : p \in Queries /\ pc[p] = "query"
    <3>1. Waiting(ql) \subseteq Queries
      BY DEF IInv, Pools, Consistent, Waiting, Range
    <3> QED
      BY <1>4, <3>1 DEF IInv, SlotsMatchTasks
  <2>2. ql.total = InitQueries
    BY <2>1 DEF IInv, Pools, CallsInv
  <2>3. ql.lot # <<>>
    BY <2>1, EmptySeq DEF Waiting, Range
  <2>4. Cardinality(ql.borrowers) >= InitQueries
    BY <2>2, <2>3 DEF IInv, Pools, Consistent, WorkConserving
  <2>5. ql.borrowers = Busy
    <3>1. ql.borrowers \subseteq Queries /\ ql.borrowers \cap Waiting(ql) = {}
      BY DEF IInv, Pools, Consistent, LotIsSane
    <3>2. Busy \subseteq ql.borrowers
      BY DEF Busy, IInv, SlotsMatchTasks
    <3>3. ASSUME NEW q \in ql.borrowers PROVE q \in Busy
      <4>1. q \in Queries /\ pc[q] \in {"query", "run"} /\ q \notin Waiting(ql)
        BY <3>1 DEF IInv, SlotsMatchTasks
      <4>2. q \in fired
        BY <1>0, <4>1 DEF Called
      <4> QED
        BY <1>0, <1>2, <4>1, <4>2 DEF Busy
    <3> QED
      BY <3>2, <3>3
  <2> QED
    BY <1>1, <2>4, <2>5, ArmConstants
<1> QED
  BY <1>3, <1>4

\* A tick takes one tick off what each query that runs may still take.
LEMMA TickTakes ==
    ASSUME IInv, CallsInv, FiringInv, DrainInv, Tick, UNCHANGED vars, phase = "draining"
    PROVE  /\ \A q \in fired : TimeLeft(q)' = IF q \in Busy THEN TimeLeft(q) - 1 ELSE TimeLeft(q)
           /\ \A q \in fired : TimeLeft(q)' \in Nat
           /\ IsFiniteSet(Owed') /\ Cardinality(Owed') \in Nat
           /\ Cardinality(Owed') + Cardinality(Busy) <= Cardinality(Owed)
<1>0. /\ ran' = [q \in Queries |-> IF pc[q] = "run" THEN ran[q] + 1 ELSE 0]
      /\ Settled /\ fired' = fired /\ pc' = pc
      /\ \A q \in fired : ~TimeLimitPassed(q)
  BY DEF Tick, TimePasses, Settled, QuerySettled, vars, callVars
<1>1. /\ IsFiniteSet(Busy) /\ Cardinality(Busy) \in Nat /\ Busy \subseteq fired
      /\ fired \subseteq Queries /\ QueryTimeout \in Nat \ {0}
      /\ \A q \in Queries : ran[q] \in 0 .. QueryTimeout /\ TimeLeft(q) \in 0 .. QueryTimeout
      /\ IsFiniteSet(Owed) /\ Cardinality(Owed) \in Nat
  BY <1>0, SlotsBusy, DrainTypes
<1>2. \A q \in Busy : TimeLeft(q) \in 1 .. QueryTimeout /\ TimeLeft(q)' = TimeLeft(q) - 1
  <2> SUFFICES ASSUME NEW q \in Busy
               PROVE  TimeLeft(q) \in 1 .. QueryTimeout /\ TimeLeft(q)' = TimeLeft(q) - 1
    OBVIOUS
  <2>1. q \in Queries /\ pc[q] = "run" /\ q \in fired
    BY <1>1 DEF Busy
  <2>2. ran[q] < QueryTimeout /\ ran[q] \in Nat
    BY <1>0, <1>1, <2>1 DEF TimeLimitPassed
  <2>3. ran'[q] = ran[q] + 1
    BY <1>0, <2>1
  <2> QED
    BY <1>0, <1>1, <2>1, <2>2, <2>3 DEF TimeLeft
<1>3. \A q \in fired \ Busy : TimeLeft(q)' = TimeLeft(q)
  <2> SUFFICES ASSUME NEW q \in fired \ Busy PROVE TimeLeft(q)' = TimeLeft(q)
    OBVIOUS
  <2>1. q \in Queries /\ pc[q] # "run" /\ ran'[q] = 0
    BY <1>0, <1>1 DEF Busy
  <2>2. pc[q] # "done" => ran[q] = 0
    BY <2>1 DEF DrainInv
  <2> QED
    BY <1>0, <2>1, <2>2 DEF TimeLeft
<1> DEFINE last == [q \in Busy |-> <<q, TimeLeft(q)>>]
           L == {<<q, TimeLeft(q)>> : q \in Busy}
<1>4. IsFiniteSet(L) /\ Cardinality(L) = Cardinality(Busy)
  <2>1. last \in Bijection(Busy, L)
    BY DEF Bijection, Injection, Surjection, IsInjective
  <2> HIDE DEF last, L
  <2> QED
    BY <1>1, <2>1, FS_Bijection DEF ExistsBijection
<1>5. Owed' \cup L \subseteq Owed /\ Owed' \cap L = {}
  <2>1. L \subseteq Owed
    BY <1>1, <1>2 DEF Owed
  <2>2. ASSUME NEW t \in Owed' PROVE t \in Owed /\ t \notin L
    <3>1. /\ t \in fired \X (1 .. QueryTimeout) /\ t[2] <= TimeLeft(t[1])'
          /\ t[1] \in fired /\ t[2] \in 1 .. QueryTimeout
      BY <1>0, <2>2 DEF Owed
    <3>2. TimeLeft(t[1]) \in 0 .. QueryTimeout
      BY <1>1, <3>1
    <3>3. CASE t[1] \in Busy
      <4>1. t[2] <= TimeLeft(t[1]) - 1
        BY <1>2, <3>1, <3>3
      <4>2. t[2] <= TimeLeft(t[1]) /\ t[2] # TimeLeft(t[1])
        BY <3>1, <3>2, <4>1
      <4> QED
        BY <3>1, <4>2 DEF Owed
    <3>4. CASE t[1] \notin Busy
      <4>1. t[2] <= TimeLeft(t[1])
        BY <1>3, <3>1, <3>4
      <4> QED
        BY <3>1, <3>4, <4>1 DEF Owed
    <3> QED
      BY <3>3, <3>4
  <2> QED
    BY <2>1, <2>2
<1> HIDE DEF L
<1>6. /\ IsFiniteSet(Owed') /\ Cardinality(Owed') \in Nat
      /\ Cardinality(Owed' \cup L) = Cardinality(Owed') + Cardinality(L)
      /\ Cardinality(Owed' \cup L) <= Cardinality(Owed)
  <2>1. IsFiniteSet(Owed')
    BY <1>1, <1>5, FS_Subset
  <2>2. Cardinality(Owed') \in Nat /\ Cardinality(L) \in Nat
    BY <1>4, <2>1, FS_CardinalityType
  <2>3. Cardinality(Owed' \cup L) = Cardinality(Owed') + Cardinality(L) - Cardinality(Owed' \cap L)
    BY <1>4, <2>1, FS_Union
  <2>4. Cardinality(Owed' \cap L) = 0
    BY <1>5, FS_EmptySet
  <2>5. Cardinality(Owed' \cup L) <= Cardinality(Owed)
    BY <1>1, <1>5, FS_Subset
  <2> QED
    BY <2>1, <2>2, <2>3, <2>4, <2>5
<1>7. \A q \in fired : TimeLeft(q)' = IF q \in Busy THEN TimeLeft(q) - 1 ELSE TimeLeft(q)
  BY <1>2, <1>3
<1>8. \A q \in fired : TimeLeft(q)' \in Nat
  <2>1. \A q \in Busy : TimeLeft(q)' \in Nat
    BY <1>1, <1>2
  <2> QED
    BY <1>1, <1>3, <2>1
<1> QED
  BY <1>4, <1>6, <1>7, <1>8

\* A tick costs k of the budget: k slots give it back, or one does and the query
\* that has them to itself has a tick less.
LEMMA TickPays ==
    ASSUME NEW k \in Nat \ {0}, NEW x \in Int, NEW c \in Nat, NEW d \in Nat, NEW b \in Nat,
           NEW t \in Nat, NEW u \in Nat, NEW s \in Int,
           d + b <= c, k * x + c + (k - 1) * t <= s,
           \/ b >= k /\ u <= t
           \/ b >= 1 /\ u = t - 1
    PROVE  k * (x + 1) + d + (k - 1) * u <= s
<1>1. k * (x + 1) = k * x + k /\ k * x \in Int
  OBVIOUS
<1>2. (k - 1) * t \in Nat /\ (k - 1) * u \in Nat
  OBVIOUS
<1>3. CASE b >= k /\ u <= t
  <2>1. (k - 1) * u <= (k - 1) * t
    BY <1>3
  <2> QED
    BY <1>1, <1>2, <1>3, <2>1
<1>4. CASE b >= 1 /\ u = t - 1
  <2>1. (k - 1) * u = (k - 1) * t - (k - 1)
    BY <1>4
  <2> QED
    BY <1>1, <1>2, <1>4, <2>1
<1> QED
  BY <1>3, <1>4

LEMMA DrainStep ==
    ASSUME IInv, Books, CallsInv, FiringInv, DrainInv, [ArmNext]_allVars
    PROVE  DrainInv'
<1> DEFINE K == InitQueries
           T == QueryTimeout
<1>0. /\ fired \subseteq Queries /\ T \in Nat \ {0} /\ K \in Nat \ {0}
      /\ IsFiniteSet(Owed) /\ Cardinality(Owed) \in Nat
      /\ \A q \in Queries : ran[q] \in 0 .. T /\ TimeLeft(q) \in 0 .. T
      /\ clock \in Nat /\ Duration \in Nat
  BY DrainTypes
<1>1. /\ ran' \in [Queries -> 0 .. T]
      /\ \A q \in Queries : pc'[q] \notin {"run", "done"} => ran'[q] = 0
  BY RanStep
<1>2a. phase' \in {"firing", "draining", "over"}
  BY ArmStepCases DEF Fire, StopFiring, Sample, EndArm, Tick, Start, GoOn, Return, armVars, DrainInv
<1> SUFFICES ASSUME phase' # "firing"
             PROVE  /\ clock' >= Duration /\ owed' \in Nat /\ Spent' <= Budget'
                    /\ \A q \in fired' : Spent' + (K - 1) * TimeLeft(q)' <= Budget'
  BY <1>1, <1>2a DEF DrainInv
<1>2. CASE phase = "firing"
  <2>1. StopFiring /\ UNCHANGED vars
    BY <1>2, ArmStepCases DEF Fire, StopFiring, Sample, EndArm, Tick, Start, GoOn, Return, armVars
  <2>2. /\ clock >= Duration /\ clock <= Duration /\ owed' = Cardinality(Owed)
        /\ UNCHANGED <<clock, fired, pc, ran>>
    BY <1>2, <2>1 DEF StopFiring, FiringInv, queryVars, vars, callVars
  <2>3. Owed' = Owed /\ \A q \in fired : TimeLeft(q)' = TimeLeft(q)
    BY <2>2 DEF Owed, TimeLeft
  <2>4. Spent' = Cardinality(Owed) /\ Budget' = Cardinality(Owed) + (K - 1) * T
    BY <1>0, <2>2, <2>3 DEF Spent, Budget
  <2>5. (K - 1) * T \in Nat
    BY <1>0
  <2>6. \A q \in fired : (K - 1) * TimeLeft(q) <= (K - 1) * T
    BY <1>0
  <2>7. \A q \in fired : (K - 1) * TimeLeft(q) \in Nat
    BY <1>0
  <2> HIDE DEF K, T
  <2> QED
    BY <1>0, <2>2, <2>3, <2>4, <2>5, <2>6, <2>7
<1>3. CASE phase # "firing" /\ Tick /\ UNCHANGED vars
  <2>1. /\ clock' = clock + 1 /\ Settled /\ phase = "draining" /\ UNCHANGED <<fired, owed>>
        /\ clock >= Duration /\ owed \in Nat
    BY <1>3 DEF Tick, DrainInv
  <2> DEFINE x == clock - Duration
             C == Cardinality(Owed)
             D == Cardinality(Owed')
             B == Cardinality(Busy)
             L(q) == TimeLeft(q)
             M(q) == TimeLeft(q)'
  <2>2. /\ B \in Nat /\ B >= 1 /\ Busy \subseteq fired
        /\ \/ B >= K
           \/ Busy # {} /\ \A q \in fired : pc[q] \in {"run", "done"}
    BY <2>1, SlotsBusy
  <2>3. /\ D \in Nat /\ D + B <= C /\ C \in Nat
        /\ \A q \in fired : M(q) = IF q \in Busy THEN L(q) - 1 ELSE L(q)
        /\ \A q \in fired : M(q) \in Nat
    BY <1>0, <1>3, <2>1, TickTakes
  <2>4. \A q \in fired : L(q) \in Nat /\ (q \notin Busy /\ pc[q] = "done" => L(q) = 0)
    BY <1>0 DEF TimeLeft
  <2>5. /\ Spent = K * x + C /\ Spent' = K * (x + 1) + D /\ Budget' = Budget
        /\ x \in Int /\ Budget \in Int
    <3>1. clock' - Duration = x + 1 /\ x \in Int
      BY <1>0, <2>1
    <3> QED
      BY <1>0, <2>1, <3>1 DEF Spent, Budget
  <2>6. /\ K * x + C + (K - 1) * 0 <= Budget
        /\ \A q \in fired : K * x + C + (K - 1) * L(q) <= Budget
    <3>1. K * x + C <= Budget /\ \A q \in fired : K * x + C + (K - 1) * L(q) <= Budget
      BY <1>3, <2>5 DEF DrainInv
    <3>2. K * x + C \in Int /\ (K - 1) * 0 = 0
      BY <1>0, <2>3, <2>5
    <3> HIDE DEF K, x, C, L
    <3> QED
      BY <3>1, <3>2
  <2> HIDE DEF x, C, D, B, L, M, K
  <2>7. ASSUME B >= K
        PROVE  /\ K * (x + 1) + D <= Budget
               /\ \A q \in fired : K * (x + 1) + D + (K - 1) * M(q) <= Budget
    <3>1. K * (x + 1) + D + (K - 1) * 0 <= Budget
      BY <1>0, <2>2, <2>3, <2>5, <2>6, <2>7, TickPays
    <3>2. K * (x + 1) + D \in Int /\ (K - 1) * 0 = 0
      BY <1>0, <2>3, <2>5
    <3>3. ASSUME NEW q \in fired PROVE K * (x + 1) + D + (K - 1) * M(q) <= Budget
      <4>1. M(q) \in Nat /\ L(q) \in Nat /\ M(q) <= L(q) /\ K * x + C + (K - 1) * L(q) <= Budget
        BY <2>3, <2>4, <2>6
      <4> QED
        BY <1>0, <2>2, <2>3, <2>5, <2>7, <4>1, TickPays
    <3> QED
      BY <3>1, <3>2, <3>3
  <2>8. ASSUME Busy # {}, \A q \in fired : pc[q] \in {"run", "done"}
        PROVE  /\ K * (x + 1) + D <= Budget
               /\ \A q \in fired : K * (x + 1) + D + (K - 1) * M(q) <= Budget
    <3>1. ASSUME NEW q \in Busy PROVE K * (x + 1) + D + (K - 1) * M(q) <= Budget
      <4>1. /\ M(q) \in Nat /\ L(q) \in Nat /\ M(q) = L(q) - 1
            /\ K * x + C + (K - 1) * L(q) <= Budget
        BY <2>2, <2>3, <2>4, <2>6
      <4> QED
        BY <1>0, <2>2, <2>3, <2>5, <4>1, TickPays
    <3>2. K * (x + 1) + D <= Budget
      <4>1. PICK q \in Busy : K * (x + 1) + D + (K - 1) * M(q) <= Budget
        BY <2>8, <3>1
      <4>2. (K - 1) * M(q) \in Nat /\ K * (x + 1) + D \in Int
        BY <1>0, <2>2, <2>3, <2>5
      <4> QED
        BY <2>5, <4>1, <4>2
    <3>3. ASSUME NEW q \in fired \ Busy PROVE K * (x + 1) + D + (K - 1) * M(q) <= Budget
      <4>1. M(q) = 0
        <5>1. q \in Queries /\ pc[q] = "done"
          BY <1>0, <2>8, <3>3 DEF Busy
        <5> QED
          BY <2>3, <2>4, <3>3, <5>1
      <4>2. (K - 1) * M(q) = 0 /\ K * (x + 1) + D \in Int
        BY <1>0, <2>3, <2>5, <4>1
      <4> QED
        BY <3>2, <4>2
    <3> QED
      BY <3>1, <3>2, <3>3
  <2>9. clock' >= Duration /\ owed' \in Nat
    BY <1>0, <2>1
  <2> QED
    BY <2>1, <2>2, <2>5, <2>7, <2>8, <2>9 DEF K, M
<1>4. CASE phase # "firing" /\ ~(Tick /\ UNCHANGED vars)
  <2>1. ran' = ran
    BY <1>4, RanStep
  <2>2. UNCHANGED <<clock, fired, owed>>
    BY <1>4, ArmStepCases DEF Fire, StopFiring, Sample, EndArm, Start, GoOn, Return, armVars
  <2>3. \A q \in Queries : pc[q] = "done" => pc'[q] = "done"
    <3>1. CASE UNCHANGED vars
      BY <3>1 DEF vars, callVars
    <3>2. ASSUME NEW q \in Queries, ArmCall(q)
          PROVE  \A p \in Queries : pc[p] = "done" => pc'[p] = "done"
      <4>1. pc[q] # "done"
        BY <3>2 DEF ArmCall, FindPeer, WalkAdmitted, Execute, Deadline, QueryReturns,
           QueryRaises, Unwind, CallsInv
      <4> QED
        BY <3>2, <4>1, CallMoves
    <3> QED
      BY <3>1, <3>2, ArmStepCases
  <2>4. \A q \in fired : TimeLeft(q)' \in Nat /\ TimeLeft(q)' <= TimeLeft(q) /\ TimeLeft(q) \in Nat
    BY <1>0, <2>1, <2>3 DEF TimeLeft
  <2>5. Cardinality(Owed') \in Nat /\ Cardinality(Owed') <= Cardinality(Owed)
    <3>1. Owed' \subseteq Owed
      <4> SUFFICES ASSUME NEW t \in Owed' PROVE t \in Owed
        OBVIOUS
      <4>1. t \in fired \X (1 .. QueryTimeout) /\ t[2] <= TimeLeft(t[1])'
        BY <2>2 DEF Owed
      <4>2. t[1] \in fired /\ t[2] \in Nat
        BY <1>0, <4>1
      <4>3. t[2] <= TimeLeft(t[1])
        BY <2>4, <4>1, <4>2
      <4> QED
        BY <4>1, <4>3 DEF Owed
    <3> QED
      BY <1>0, <3>1, FS_Subset, FS_CardinalityType
  <2>6. /\ Budget' = Budget /\ Budget \in Int /\ owed \in Nat /\ clock >= Duration
        /\ Spent' <= Spent /\ Spent' \in Int /\ Spent \in Int /\ Spent <= Budget
        /\ \A q \in fired : Spent + (K - 1) * TimeLeft(q) <= Budget
    <3>1. owed \in Nat /\ clock >= Duration /\ Spent <= Budget
          /\ \A q \in fired : Spent + (K - 1) * TimeLeft(q) <= Budget
      BY <1>4 DEF DrainInv
    <3>2. Budget' = Budget /\ Budget \in Int
      BY <1>0, <2>2, <3>1 DEF Budget
    <3>3. Spent' <= Spent /\ Spent' \in Int /\ Spent \in Int
      BY <1>0, <2>2, <2>5 DEF Spent
    <3> QED
      BY <3>1, <3>2, <3>3
  <2>7. ASSUME NEW q \in fired PROVE Spent' + (K - 1) * TimeLeft(q)' <= Budget
    <3> DEFINE a == TimeLeft(q)
               b == TimeLeft(q)'
    <3>1. a \in Nat /\ b \in Nat /\ b <= a /\ Spent + (K - 1) * a <= Budget
      BY <2>4, <2>6, <2>7
    <3> HIDE DEF a, b, K
    <3>2. (K - 1) * b <= (K - 1) * a /\ (K - 1) * a \in Nat /\ (K - 1) * b \in Nat
      BY <1>0, <3>1
    <3>3. Spent' + (K - 1) * b <= Budget
      BY <2>6, <3>1, <3>2
    <3> QED
      BY <3>3 DEF b
  <2> QED
    BY <2>2, <2>6, <2>7
<1> QED
  BY <1>2, <1>3, <1>4

LEMMA ArmInvInit == ArmInit => ArmInv
<1> SUFFICES ASSUME ArmInit PROVE ArmInv
  OBVIOUS
<1>1. Init /\ IInv /\ Books
  BY InitInv, InitBooks DEF ArmInit, TimedInit
<1>2. Called = {} /\ Completed = {}
  BY <1>1 DEF Init, Called, Completed
<1>3. CallsInv
  <2>1. Cardinality(ql.borrowers) = 0 /\ Cardinality(Called) = 0
    <3>1. ql.borrowers = {}
      BY <1>1 DEF Init, NewLimiter
    <3> QED
      BY <1>2, <3>1, FS_EmptySet
  <2> QED
    BY <1>1, <1>2, <2>1, ArmConstants DEF CallsInv, Init, Terminal
<1>4. FiringInv
  <2>1. fired = 1 .. 0 /\ nextFire = 0 * Interval /\ clock = 0 /\ nextFire = 0 /\ phase = "firing"
    BY ArmConstants DEF ArmInit
  <2>2. 0 \in 0 .. Duration \div Interval + 1 /\ 0 <= Duration
    BY ArmConstants
  <2> QED
    BY <1>2, <2>1, <2>2 DEF FiringInv
<1>5. SamplesInv
  BY ArmConstants DEF ArmInit, SamplesInv
<1>6. WindowInv
  <2>1. took \in [Queries -> Int] /\ 0 \in 0 .. clock /\ completions = {}
    BY DEF ArmInit
  <2>2. completions = {Entry(q) : q \in {p \in Completed : At(p) >= 0 - Window}}
    BY <1>2, <2>1
  <2> QED
    BY <1>2, <2>1, <2>2 DEF WindowInv
<1>7. DrainInv
  BY <1>1, TimeoutAssumption DEF ArmInit, TimedInit, DrainInv
<1> QED
  BY <1>1, <1>3, <1>4, <1>5, <1>6, <1>7 DEF ArmInv

LEMMA ArmInvHolds == ArmSpec => []ArmInv
<1>1. ArmInv /\ [ArmNext]_allVars => ArmInv'
  BY ServiceInArm, FiringStep, SamplesStep, WindowStep, DrainStep DEF ArmInv
<1> QED
  BY <1>1, ArmInvInit, PTL DEF ArmSpec
-----------------------------------------------------------------------------
(* The latency figures *)

\* The places before that of i in a list in ascending order, its own included.
Before(d, i) == {j \in DOMAIN d : d[j] < d[i] \/ (d[j] = d[i] /\ j <= i)}
Place(d, i) == Cardinality(Before(d, i))

\* Each place in the order is that of one of the results.
LEMMA PlaceFacts ==
    ASSUME NEW n \in Nat, NEW d \in [1 .. n -> Int]
    PROVE  /\ \A i \in 1 .. n : IsFiniteSet(Before(d, i)) /\ Place(d, i) \in 1 .. n
           /\ \A k \in 1 .. n : \E i \in 1 .. n : Place(d, i) = k
<1> DEFINE D == 1 .. n
           R(i) == Place(d, i)
           r == [i \in D |-> R(i)]
<1>1. /\ IsFiniteSet(D) /\ Cardinality(D) = n /\ DOMAIN d = D
      /\ \A i \in D : d[i] \in Int /\ i \in Int
  BY FS_Interval
<1> HIDE DEF D
<1>2. \A i \in D : /\ Before(d, i) \subseteq D /\ IsFiniteSet(Before(d, i))
                   /\ R(i) \in Nat /\ R(i) <= n
  <2> SUFFICES ASSUME NEW i \in D
               PROVE  /\ Before(d, i) \subseteq D /\ IsFiniteSet(Before(d, i))
                      /\ R(i) \in Nat /\ R(i) <= n
    OBVIOUS
  <2>1. Before(d, i) \subseteq D
    BY <1>1 DEF Before
  <2> QED
    BY <1>1, <2>1, FS_Subset, FS_CardinalityType DEF Place
<1>3. \A i \in D : i \in Before(d, i)
  BY <1>1 DEF Before
<1>4. \A i \in D : R(i) \in 1 .. n
  <2> SUFFICES ASSUME NEW i \in D PROVE R(i) \in 1 .. n
    OBVIOUS
  <2>1. R(i) # 0
    BY <1>2, <1>3, FS_EmptySet DEF Place
  <2> HIDE DEF R
  <2> QED
    BY <1>2, <2>1
<1>5. ASSUME NEW i \in D, NEW j \in D, i \notin Before(d, j) PROVE R(j) < R(i)
  <2>1. Before(d, j) \cup {i} \subseteq Before(d, i)
    <3>1. ~(d[i] < d[j]) /\ ~(d[i] = d[j] /\ i <= j)
      BY <1>1, <1>5 DEF Before
    <3>2. \A t \in D : d[t] < d[j] \/ (d[t] = d[j] /\ t <= j)
                          => d[t] < d[i] \/ (d[t] = d[i] /\ t <= i)
      BY <1>1, <3>1
    <3> QED
      BY <1>1, <1>3, <3>2 DEF Before
  <2>2. /\ Cardinality(Before(d, j) \cup {i}) = R(j) + 1
        /\ Cardinality(Before(d, j) \cup {i}) <= R(i)
    BY <1>2, <1>5, <2>1, FS_AddElement, FS_Subset DEF Place
  <2> HIDE DEF R
  <2> QED
    BY <1>2, <2>2
<1>6. \A i, j \in D : R(i) = R(j) => i = j
  <2> SUFFICES ASSUME NEW i \in D, NEW j \in D, R(i) = R(j) PROVE i = j
    OBVIOUS
  <2>1. i \in Before(d, j) /\ j \in Before(d, i)
    <3>1. R(i) \in Nat /\ R(j) \in Nat
      BY <1>2
    <3>2. (i \notin Before(d, j) => R(j) < R(i)) /\ (j \notin Before(d, i) => R(i) < R(j))
      BY <1>5
    <3> HIDE DEF R
    <3> QED
      BY <3>1, <3>2
  <2>2. i <= j /\ j <= i
    BY <1>1, <2>1 DEF Before
  <2> QED
    BY <1>1, <2>2
<1>7. r \in Injection(D, 1 .. n)
  <2> HIDE DEF R
  <2> QED
    BY <1>4, <1>6 DEF Injection, IsInjective
<1>8. r \in Surjection(D, 1 .. n)
  <2>1. IsFiniteSet(1 .. n) /\ Cardinality(1 .. n) = n
    BY FS_Interval
  <2> HIDE DEF r
  <2> QED
    BY <1>1, <1>7, <2>1, FS_Injection
<1>9. \A k \in 1 .. n : \E i \in D : R(i) = k
  <2> HIDE DEF R
  <2> QED
    BY <1>8 DEF Surjection
<1> QED
  BY <1>2, <1>4, <1>9 DEF D

\* The durations in order: each leaves its share of them below it and above it.
LEMMA SortedFacts ==
    ASSUME NEW n \in Nat, NEW d \in [1 .. n -> Int]
    PROVE  /\ Sorted(d) \in [1 .. n -> Int] /\ Len(Sorted(d)) = n
           /\ \A v \in Int : Under(d, v) \in Nat /\ UpTo(d, v) \in Nat
           /\ \A k \in 1 .. n : Under(d, Sorted(d)[k]) < k /\ k <= UpTo(d, Sorted(d)[k])
           /\ \A j, k \in 1 .. n : j <= k => Sorted(d)[j] <= Sorted(d)[k]
<1> DEFINE s == Sorted(d)
<1>1. /\ DOMAIN d = 1 .. n /\ \A i \in 1 .. n : d[i] \in Int
      /\ IsFiniteSet(1 .. n) /\ Range(d) \subseteq Int
  BY FS_Interval DEF Range
<1>2. \A v \in Int : /\ IsFiniteSet({i \in 1 .. n : d[i] < v}) /\ Under(d, v) \in Nat
                     /\ IsFiniteSet({i \in 1 .. n : d[i] <= v}) /\ UpTo(d, v) \in Nat
  <2> SUFFICES ASSUME NEW v \in Int
               PROVE  /\ IsFiniteSet({i \in 1 .. n : d[i] < v}) /\ Under(d, v) \in Nat
                      /\ IsFiniteSet({i \in 1 .. n : d[i] <= v}) /\ UpTo(d, v) \in Nat
    OBVIOUS
  <2>1. {i \in 1 .. n : d[i] < v} \subseteq 1 .. n /\ {i \in 1 .. n : d[i] <= v} \subseteq 1 .. n
    OBVIOUS
  <2>2. IsFiniteSet({i \in 1 .. n : d[i] < v}) /\ IsFiniteSet({i \in 1 .. n : d[i] <= v})
    BY <1>1, <2>1, FS_Subset
  <2> QED
    BY <1>1, <2>2, FS_CardinalityType DEF Under, UpTo
<1>3. ASSUME NEW k \in 1 .. n
      PROVE  \E v \in Range(d) : Under(d, v) < k /\ k <= UpTo(d, v)
  <2>1. PICK i \in 1 .. n : Place(d, i) = k /\ IsFiniteSet(Before(d, i))
    BY PlaceFacts
  <2>2. d[i] \in Range(d) /\ d[i] \in Int
    BY <1>1 DEF Range
  <2> DEFINE A == {j \in 1 .. n : d[j] < d[i]}
             B == {j \in 1 .. n : d[j] <= d[i]}
  <2>3. /\ A \cup {i} \subseteq Before(d, i) /\ i \notin A /\ Before(d, i) \subseteq B
    BY <1>1 DEF Before
  <2>4. IsFiniteSet(A) /\ IsFiniteSet(B) /\ Cardinality(A) \in Nat
    BY <1>2, <2>2, FS_CardinalityType
  <2>5. Under(d, d[i]) = Cardinality(A) /\ UpTo(d, d[i]) = Cardinality(B)
    BY <1>1 DEF Under, UpTo
  <2> HIDE DEF A, B
  <2>6. /\ Cardinality(A \cup {i}) = Cardinality(A) + 1
        /\ Cardinality(A \cup {i}) <= Cardinality(Before(d, i))
        /\ Cardinality(Before(d, i)) <= Cardinality(B)
    BY <2>1, <2>3, <2>4, FS_AddElement, FS_Subset
  <2>7. Under(d, d[i]) < k /\ k <= UpTo(d, d[i])
    BY <2>1, <2>4, <2>5, <2>6 DEF Place
  <2> QED
    BY <2>2, <2>7
<1>4. \A k \in 1 .. n : s[k] \in Range(d) /\ Under(d, s[k]) < k /\ k <= UpTo(d, s[k])
  <2> SUFFICES ASSUME NEW k \in 1 .. n
               PROVE  s[k] \in Range(d) /\ Under(d, s[k]) < k /\ k <= UpTo(d, s[k])
    OBVIOUS
  <2>1. s[k] = CHOOSE v \in Range(d) : Under(d, v) < k /\ k <= UpTo(d, v)
    BY <1>1 DEF Sorted
  <2>2. \E v \in Range(d) : Under(d, v) < k /\ k <= UpTo(d, v)
    BY <1>3
  <2> QED
    BY <2>1, <2>2
<1>5. s \in [1 .. n -> Int]
  <2>1. DOMAIN s = 1 .. n /\ s = [k \in 1 .. n |-> s[k]]
    BY <1>1 DEF Sorted
  <2> QED
    BY <1>1, <1>4, <2>1
<1> HIDE DEF s
<1>6. s \in Seq(Int) /\ Len(s) = n
  BY <1>5, IsASeq, LenProperties, SeqDef
<1>7. ASSUME NEW j \in 1 .. n, NEW k \in 1 .. n, j <= k PROVE s[j] <= s[k]
  <2> SUFFICES ASSUME s[k] < s[j] PROVE FALSE
    BY <1>5
  <2> DEFINE A == {i \in 1 .. n : d[i] < s[j]}
             B == {i \in 1 .. n : d[i] <= s[k]}
  <2>1. B \subseteq A /\ IsFiniteSet(A) /\ IsFiniteSet(B)
    <3>1. s[j] \in Int /\ s[k] \in Int
      BY <1>5
    <3>2. IsFiniteSet(A) /\ IsFiniteSet(B)
      BY <1>2, <3>1
    <3>3. \A i \in 1 .. n : d[i] <= s[k] => d[i] < s[j]
      BY <1>1, <3>1
    <3> QED
      BY <3>2, <3>3
  <2>2. Under(d, s[j]) = Cardinality(A) /\ UpTo(d, s[k]) = Cardinality(B)
    BY <1>1 DEF Under, UpTo
  <2> HIDE DEF A, B
  <2>3. Cardinality(B) <= Cardinality(A) /\ Cardinality(A) \in Nat /\ Cardinality(B) \in Nat
    BY <2>1, FS_Subset, FS_CardinalityType
  <2>4. Cardinality(A) < j /\ k <= Cardinality(B)
    BY <1>4, <2>2
  <2> QED
    BY <1>7, <2>3, <2>4
<1> QED
  BY <1>2, <1>4, <1>5, <1>6, <1>7 DEF s

\* v is interpolated at the rank f and r hundredths of n durations in order.
Interpolates(s, n, pct, f, r, v) ==
    /\ (n - 1) * pct = 100 * f + r
    /\ r = 0 => v = 100 * s[f + 1]
    /\ r > 0 => f + 2 <= n /\ v = 100 * s[f + 1] + (s[f + 2] - s[f + 1]) * r

LEMMA RankOfPercentile ==
    ASSUME NEW n \in Nat \ {0}, NEW s \in [1 .. n -> Int], Len(s) = n, NEW pct \in 0 .. 99
    PROVE  \E f \in 0 .. n - 1, r \in 0 .. 99 :
              Interpolates(s, n, pct, f, r, Percentile(s, pct))
<1> DEFINE k == (n - 1) * pct
           f == k \div 100
           r == k % 100
           c == IF f + 1 < n THEN f + 1 ELSE n - 1
<1>1. k \in Nat /\ k <= 99 * (n - 1)
  OBVIOUS
<1>2. Percentile(s, pct) = 100 * s[f + 1] + (s[c + 1] - s[f + 1]) * r
  BY DEF Percentile
<1> HIDE DEF k
<1>3. f \in Nat /\ r \in 0 .. 99 /\ k = 100 * f + r
  BY <1>1
<1> HIDE DEF f, r
<1>4. f <= n - 1 /\ (r > 0 => f + 2 <= n)
  BY <1>1, <1>3
<1>5. s[f + 1] \in Int /\ s[c + 1] \in Int
  <2>1. f + 1 \in 1 .. n /\ c + 1 \in 1 .. n
    BY <1>3, <1>4
  <2> QED
    BY <2>1
<1>6. r = 0 => Percentile(s, pct) = 100 * s[f + 1]
  BY <1>2, <1>5
<1>7. r > 0 => c = f + 1
  BY <1>3, <1>4
<1>8. r > 0 => Percentile(s, pct) = 100 * s[f + 1] + (s[f + 2] - s[f + 1]) * r
  <2>1. ASSUME r > 0 PROVE c + 1 = f + 2
    BY <1>3, <1>7, <2>1
  <2> QED
    BY <1>2, <2>1
<1>9. f \in 0 .. n - 1
  BY <1>3, <1>4
<1> QED
  BY <1>3, <1>4, <1>6, <1>8, <1>9 DEF k, Interpolates

\* An interpolated value lies between the two it is interpolated between.
LEMMA Interpolated ==
    ASSUME NEW a \in Int, NEW b \in Int, a <= b, NEW r \in 0 .. 99, NEW q \in 0 .. r
    PROVE  /\ 100 * a + (b - a) * q <= 100 * a + (b - a) * r
           /\ 100 * a <= 100 * a + (b - a) * r /\ 100 * a + (b - a) * r <= 100 * b
           /\ 100 * a + (b - a) * r \in Int
<1> DEFINE w == b - a
<1>1. w \in Nat
  OBVIOUS
<1> HIDE DEF w
<1>2. w * q <= w * r /\ 0 <= w * r /\ w * r <= w * 100 /\ w * r \in Int
  BY <1>1
<1>3. w * 100 = 100 * b - 100 * a
  BY DEF w
<1> HIDE DEF w
<1> QED
  BY <1>2, <1>3 DEF w

\* A percentile leaves its share of the durations below it and the rest above, up
\* to the one that its rank falls into.
LEMMA PercentileParts ==
    ASSUME NEW n \in Nat \ {0}, NEW d \in [1 .. n -> Int], NEW pct \in 0 .. 99
    PROVE  LET v == Percentile(Sorted(d), pct)
           IN  /\ v \in Int
               /\ 100 * Cardinality({i \in 1 .. n : 100 * d[i] < v}) < 100 + (n - 1) * pct
               /\ 100 * Cardinality({i \in 1 .. n : 100 * d[i] > v}) < 100 + (n - 1) * (100 - pct)
<1> DEFINE s == Sorted(d)
           v == Percentile(s, pct)
           below == {i \in 1 .. n : 100 * d[i] < v}
           above == {i \in 1 .. n : 100 * d[i] > v}
<1>1. /\ s \in [1 .. n -> Int] /\ Len(s) = n
      /\ \A u \in Int : Under(d, u) \in Nat /\ UpTo(d, u) \in Nat
      /\ \A k \in 1 .. n : Under(d, s[k]) < k /\ k <= UpTo(d, s[k])
      /\ \A j, k \in 1 .. n : j <= k => s[j] <= s[k]
  BY SortedFacts
<1> HIDE DEF s
<1>2. PICK f \in 0 .. n - 1, r \in 0 .. 99 : Interpolates(s, n, pct, f, r, v)
  BY <1>1, RankOfPercentile
<1> HIDE DEF v
<1> USE DEF Interpolates
<1>3. /\ IsFiniteSet(1 .. n) /\ Cardinality(1 .. n) = n /\ DOMAIN d = 1 .. n
      /\ \A i \in 1 .. n : d[i] \in Int
  BY FS_Interval
\* The results between which the value lies.
<1>4. PICK g \in 1 .. n : /\ v \in Int /\ 100 * s[f + 1] <= v /\ v <= 100 * s[g]
                          /\ \/ g = f + 1 /\ r = 0
                             \/ g = f + 2 /\ r > 0
                          /\ f + 1 \in 1 .. n
  <2>1. CASE r = 0
    <3>1. f + 1 \in 1 .. n /\ s[f + 1] \in Int
      BY <1>1
    <3> QED
      BY <1>2, <2>1, <3>1
  <2>2. CASE r > 0
    <3>1. f + 1 \in 1 .. n /\ f + 2 \in 1 .. n
      BY <1>2, <2>2
    <3>2. s[f + 1] \in Int /\ s[f + 2] \in Int /\ s[f + 1] <= s[f + 2]
      <4>1. f + 1 <= f + 2
        OBVIOUS
      <4> QED
        BY <1>1, <3>1, <4>1
    <3>3. /\ 100 * s[f + 1] <= v /\ v <= 100 * s[f + 2] /\ v \in Int
      <4>1. v = 100 * s[f + 1] + (s[f + 2] - s[f + 1]) * r /\ r \in 0 .. r
        BY <1>2, <2>2
      <4> QED
        BY <3>2, <4>1, Interpolated
    <3> QED
      BY <2>2, <3>1, <3>3
  <2> QED
    BY <2>1, <2>2
<1>5. 100 * Cardinality(below) < 100 + (n - 1) * pct
  <2> DEFINE A == {i \in 1 .. n : d[i] < s[g]}
  <2>1. s[g] \in Int
    BY <1>1
  <2>2. \A i \in 1 .. n : 100 * d[i] < v => d[i] < s[g]
    BY <1>3, <1>4, <2>1
  <2>3. below \subseteq A /\ IsFiniteSet(A)
    <3>1. A \subseteq 1 .. n
      OBVIOUS
    <3>2. IsFiniteSet(A)
      BY <1>3, <3>1, FS_Subset
    <3> QED
      BY <2>2, <3>2
  <2>4. Cardinality(A) < g
    BY <1>1, <1>3 DEF Under
  <2> HIDE DEF A, below
  <2>5. Cardinality(below) \in Nat /\ Cardinality(A) \in Nat /\ Cardinality(below) <= Cardinality(A)
    BY <2>3, FS_Subset, FS_CardinalityType
  <2>6. Cardinality(below) < g
    BY <2>4, <2>5
  <2>7. 100 * Cardinality(below) < 100 + (100 * f + r)
    BY <1>4, <2>5, <2>6
  <2> QED
    BY <1>2, <2>7
<1>6. 100 * Cardinality(above) < 100 + (n - 1) * (100 - pct)
  <2> DEFINE A == {i \in 1 .. n : d[i] <= s[f + 1]}
  <2>1. s[f + 1] \in Int
    BY <1>1, <1>4
  <2>2. \A i \in 1 .. n : 100 * d[i] > v => ~(d[i] <= s[f + 1])
    BY <1>3, <1>4, <2>1
  <2>3. above \cup A \subseteq 1 .. n /\ above \cap A = {}
    BY <2>2
  <2>4. f + 1 <= Cardinality(A)
    BY <1>1, <1>3, <1>4 DEF UpTo
  <2> HIDE DEF A, above
  <2>5. /\ IsFiniteSet(A) /\ IsFiniteSet(above)
        /\ Cardinality(A) \in Nat /\ Cardinality(above) \in Nat
        /\ Cardinality(above \cup A) <= n
        /\ Cardinality(above \cup A) = Cardinality(above) + Cardinality(A) - Cardinality(above \cap A)
        /\ Cardinality(above \cap A) = 0
    <3>1. IsFiniteSet(A) /\ IsFiniteSet(above) /\ Cardinality(above \cup A) <= n
      BY <1>3, <2>3, FS_Subset
    <3>2. Cardinality(above \cap A) = 0
      BY <2>3, FS_EmptySet
    <3> QED
      BY <3>1, <3>2, FS_CardinalityType, FS_Union
  <2>6. Cardinality(above) + f + 1 <= n
    BY <2>4, <2>5
  <2>7. 100 * Cardinality(above) < 100 * n - (100 * f + r)
    BY <2>5, <2>6
  <2>8. (n - 1) * (100 - pct) = 100 * n - 100 - (n - 1) * pct
    OBVIOUS
  <2> QED
    BY <1>2, <2>7, <2>8
<1> QED
  BY <1>4, <1>5, <1>6 DEF v, s

\* A higher percentile is no lower value.
LEMMA PercentileGrows ==
    ASSUME NEW n \in Nat \ {0}, NEW d \in [1 .. n -> Int],
           NEW p \in 0 .. 99, NEW q \in 0 .. 99, p <= q
    PROVE  Percentile(Sorted(d), p) <= Percentile(Sorted(d), q)
<1> DEFINE s == Sorted(d)
           v == Percentile(s, p)
           w == Percentile(s, q)
<1>1. /\ s \in [1 .. n -> Int] /\ Len(s) = n
      /\ \A j, k \in 1 .. n : j <= k => s[j] <= s[k]
  BY SortedFacts
<1> HIDE DEF s
<1>2. PICK f \in 0 .. n - 1, r \in 0 .. 99 : Interpolates(s, n, p, f, r, v)
  BY <1>1, RankOfPercentile
<1>3. PICK g \in 0 .. n - 1, t \in 0 .. 99 : Interpolates(s, n, q, g, t, w)
  BY <1>1, RankOfPercentile
<1> HIDE DEF v, w
<1> USE DEF Interpolates
<1> SUFFICES v <= w
  BY DEF v, w, s
<1>4. 100 * f + r <= 100 * g + t
  <2>1. (n - 1) * p <= (n - 1) * q
    <3>1. \A a, x, y \in Nat : x <= y => a * x <= a * y
      OBVIOUS
    <3>2. n - 1 \in Nat /\ p \in Nat /\ q \in Nat
      OBVIOUS
    <3> QED
      BY <3>1, <3>2
  <2>2. (n - 1) * p = 100 * f + r /\ (n - 1) * q = 100 * g + t
    BY <1>2, <1>3
  <2> QED
    BY <2>1, <2>2
<1>5. f + 1 \in 1 .. n /\ g + 1 \in 1 .. n /\ s[f + 1] \in Int /\ s[g + 1] \in Int
  <2>1. f + 1 \in 1 .. n /\ g + 1 \in 1 .. n
    OBVIOUS
  <2> QED
    BY <1>1, <2>1
<1>6. r > 0 => f + 2 \in 1 .. n /\ s[f + 2] \in Int /\ s[f + 1] <= s[f + 2]
  <2> SUFFICES ASSUME r > 0
               PROVE  f + 2 \in 1 .. n /\ s[f + 2] \in Int /\ s[f + 1] <= s[f + 2]
    OBVIOUS
  <2>1. f + 2 \in 1 .. n
    BY <1>2
  <2> QED
    BY <1>1, <1>5, <2>1
<1>7. t > 0 => g + 2 \in 1 .. n /\ s[g + 2] \in Int /\ s[g + 1] <= s[g + 2]
  <2> SUFFICES ASSUME t > 0
               PROVE  g + 2 \in 1 .. n /\ s[g + 2] \in Int /\ s[g + 1] <= s[g + 2]
    OBVIOUS
  <2>1. g + 2 \in 1 .. n
    BY <1>3
  <2> QED
    BY <1>1, <1>5, <2>1
<1>8. 100 * s[g + 1] <= w /\ w \in Int
  <2>1. CASE t = 0
    BY <1>3, <1>5, <2>1
  <2>2. CASE t > 0
    <3>1. w = 100 * s[g + 1] + (s[g + 2] - s[g + 1]) * t /\ t \in 0 .. t
      BY <1>3, <2>2
    <3> QED
      BY <1>5, <1>7, <2>2, <3>1, Interpolated
  <2> QED
    BY <2>1, <2>2
<1>9. CASE f = g
  <2>1. CASE r = 0
    BY <1>2, <1>8, <1>9, <2>1
  <2>2. CASE r > 0
    <3>1. t > 0 /\ r \in 0 .. t
      BY <1>4, <1>9, <2>2
    <3>2. /\ v = 100 * s[f + 1] + (s[f + 2] - s[f + 1]) * r
          /\ w = 100 * s[f + 1] + (s[f + 2] - s[f + 1]) * t
      BY <1>2, <1>3, <1>9, <2>2, <3>1
    <3> QED
      BY <1>5, <1>6, <2>2, <3>1, <3>2, Interpolated
  <2> QED
    BY <2>1, <2>2
<1>10. CASE f # g
  <2>1. f + 1 <= g
    BY <1>4, <1>10
  <2>2. v <= 100 * s[g + 1] /\ v \in Int
    <3>1. CASE r = 0
      <4>1. s[f + 1] <= s[g + 1]
        BY <1>1, <1>5, <2>1
      <4> QED
        BY <1>2, <1>5, <3>1, <4>1
    <3>2. CASE r > 0
      <4>1. s[f + 2] <= s[g + 1]
        BY <1>1, <1>5, <1>6, <2>1, <3>2
      <4>2. v = 100 * s[f + 1] + (s[f + 2] - s[f + 1]) * r /\ r \in 0 .. r
        BY <1>2, <3>2
      <4>3. v <= 100 * s[f + 2] /\ v \in Int
        BY <1>5, <1>6, <3>2, <4>2, Interpolated
      <4> QED
        BY <1>5, <1>6, <3>2, <4>1, <4>3
    <3> QED
      BY <3>1, <3>2
  <2> QED
    BY <1>5, <1>8, <2>2
<1> QED
  BY <1>9, <1>10

\* The durations the figures are taken of.
LEMMA DurationsTyped ==
    ASSUME ArmInv
    PROVE  [i \in DOMAIN history |-> took[history[i].query]] \in [1 .. Len(history) -> Int]
<1>1. /\ history \in Seq([query : Queries, status : Terminal])
      /\ took \in [Queries -> Int]
  BY DEF ArmInv, IInv, CallTypes, WindowInv
<1>2. DOMAIN history = 1 .. Len(history) /\ \A i \in DOMAIN history : history[i].query \in Queries
  <2> DEFINE R == [query : Queries, status : Terminal]
  <2>1. \A r \in R : r.query \in Queries
    OBVIOUS
  <2> HIDE DEF R
  <2>2. history \in Seq(R)
    BY <1>1 DEF R
  <2>3. DOMAIN history = 1 .. Len(history) /\ \A i \in DOMAIN history : history[i] \in R
    BY <2>2
  <2> QED
    BY <2>1, <2>3
<1> QED
  BY <1>1, <1>2
-----------------------------------------------------------------------------
\* An arm of the experiment is one of the ways to use the coordinator.
THEOREM ArmUsesCoordinator == ArmSpec => Spec
<1>1. ArmInv /\ [ArmNext]_allVars => ArmInv' /\ [Next]_vars
  BY ServiceInArm, FiringStep, SamplesStep, WindowStep, DrainStep DEF ArmInv
<1>2. ArmInit => Init
  BY DEF ArmInit, TimedInit
<1> QED
  BY <1>1, <1>2, ArmInvInit, PTL DEF ArmSpec, Spec

\* Neither what the samples saw nor what ever ran exceeds the cap, what runs has
\* its token, and the gauge of free slots never goes negative.
THEOREM PeaksNeverExceed == ArmSpec => []PeaksWithinCap
<1>1. ASSUME ArmInv PROVE PeaksWithinCap
  <2>1. /\ maxQueries = InitQueries /\ InitQueries \in Nat
        /\ Cardinality(ql.borrowers) <= InitQueries /\ Cardinality(ql.borrowers) \in Nat
        /\ Cardinality(Running) <= Cardinality(ql.borrowers)
        /\ peak \in 0 .. InitQueries /\ peakBorrowed \in 0 .. InitQueries
    BY <1>1, RunningHolds, ArmConstants DEF ArmInv, CallsInv, SamplesInv
  <2>2. /\ Snapshot.peak = peak /\ Snapshot.available = maxQueries - Cardinality(ql.borrowers)
        /\ Snapshot.current = Cardinality(Running)
        /\ Snapshot.borrowed = Cardinality(ql.borrowers)
    BY DEF Snapshot, Borrowed
  <2> QED
    BY <2>1, <2>2 DEF PeaksWithinCap
<1> QED
  BY <1>1, ArmInvHolds, PTL

\* The arm that is over has one outcome for each query it fired, also for those
\* that were queued when the firing stopped.
THEOREM ReportCoversAll == ArmSpec => []ReportIsComplete
<1>1. ASSUME ArmInv PROVE ReportIsComplete
  <2> SUFFICES ASSUME phase = "over"
               PROVE  /\ \A q \in fired : pc[q] = "done"
                      /\ count["total"] = Cardinality(fired)
                      /\ count["success"] + count["failed"] + count["timeout"] = count["total"]
    BY DEF ReportIsComplete, Snapshot
  <2>1. \A q \in fired : pc[q] = "done"
    BY <1>1 DEF ArmInv, FiringInv
  <2>2. fired \subseteq Queries
    <3>1. PICK n \in 0 .. Duration \div Interval + 1 : fired = 1 .. n
      BY <1>1 DEF ArmInv, FiringInv
    <3> QED
      BY <3>1, ArmConstants
  <2>3. Called = fired
    BY <1>1, <2>1, <2>2 DEF Called, ArmInv, FiringInv
  <2>4. \A q \in Queries : pc[q] \in {"idle", "done"}
    BY <2>1, <2>3 DEF Called
  <2>5. Cardinality(Serving) = 0
    <3>1. Serving = {}
      BY <1>1, <2>4 DEF Serving, ArmInv, Books
    <3> QED
      BY <3>1, FS_EmptySet
  <2>6. /\ count["total"] = Cardinality(Called) /\ count["cancelled"] = 0
        /\ count["total"] = Cardinality(Serving) + Finished
        /\ count \in [Terminal \cup {"total"} -> Nat]
    BY <1>1 DEF ArmInv, CallsInv, Books, IInv, CallTypes
  <2>7. count["total"] = count["success"] + count["failed"] + count["timeout"]
    <3>1. /\ count["success"] \in Nat /\ count["failed"] \in Nat /\ count["timeout"] \in Nat
      BY <2>6 DEF Terminal
    <3> QED
      BY <2>5, <2>6, <3>1 DEF Finished
  <2> QED
    BY <2>1, <2>3, <2>6, <2>7
<1> QED
  BY <1>1, ArmInvHolds, PTL

\* The slots share what the queries in flight were owed, up to the end, in which the
\* last one may have the arm to itself for its time limit.
THEOREM DrainStaysBounded == ArmSpec => []DrainIsBounded
<1>1. ASSUME ArmInv PROVE DrainIsBounded
  <2> SUFFICES ASSUME phase # "firing"
               PROVE  InitQueries * (clock - Duration) <= owed + (InitQueries - 1) * QueryTimeout
    BY DEF DrainIsBounded
  <2>1. /\ Spent <= Budget /\ owed \in Nat /\ Cardinality(Owed) \in Nat
        /\ clock \in Nat /\ Duration \in Nat /\ InitQueries \in Nat \ {0} /\ QueryTimeout \in Nat
    BY <1>1, DrainTypes DEF ArmInv, DrainInv
  <2>2. /\ InitQueries * (clock - Duration) \in Int
        /\ owed + (InitQueries - 1) * QueryTimeout \in Int
    BY <2>1
  <2> QED
    BY <2>1, <2>2 DEF Spent, Budget
<1> QED
  BY <1>1, ArmInvHolds, PTL

\* The throughput counts every completion of the last Window, and none that is
\* older than the last completion by more than that.
THEOREM ThroughputStaysRecent == ArmSpec => []ThroughputIsRecent
<1>1. ASSUME ArmInv PROVE ThroughputIsRecent
  <2> DEFINE Since(t) == {q \in Queries : pc[q] = "done" /\ At(q) >= t}
             latest == Max({0} \cup {At(q) : q \in Since(0)})
  <2>0. /\ clock \in Nat /\ Window \in Nat
        /\ \A q \in Completed : At(q) \in 0 .. clock
    BY <1>1, ArmConstants DEF ArmInv, FiringInv, WindowInv
  <2>1. PICK last \in 0 .. clock :
           /\ last = 0 \/ \E q \in Completed : At(q) = last
           /\ \A q \in Completed : At(q) <= last
           /\ completions = {Entry(q) : q \in {p \in Completed : At(p) >= last - Window}}
    BY <1>1 DEF ArmInv, WindowInv
  <2>2. last \in Nat /\ last <= clock /\ \A q \in Completed : At(q) \in Nat /\ At(q) >= 0
    BY <2>0
  <2>3. latest = last
    <3> DEFINE S == {0} \cup {At(q) : q \in Since(0)}
    <3>1. Since(0) = Completed
      BY <2>2 DEF Completed
    <3>2. last \in S /\ \A y \in S : last >= y /\ y \in Nat
      BY <2>1, <2>2, <3>1
    <3> HIDE DEF S
    <3>3. \A x \in S : (\A y \in S : x >= y) => x = last
      BY <2>2, <3>2
    <3> QED
      BY <3>2, <3>3 DEF Max, S
  <2>4. Since(last - Window) = {p \in Completed : At(p) >= last - Window}
    BY DEF Completed
  <2>5. \A t \in Int : IsFiniteSet(Since(t)) /\ Cardinality(Since(t)) \in Nat
    <3> SUFFICES ASSUME NEW t \in Int PROVE IsFiniteSet(Since(t)) /\ Cardinality(Since(t)) \in Nat
      OBVIOUS
    <3>1. Since(t) \subseteq Queries /\ IsFiniteSet(Queries)
      BY ConstantFacts
    <3> QED
      BY <3>1, FS_Subset, FS_CardinalityType
  <2>6. Cardinality(completions) = Cardinality(Since(last - Window))
    <3> DEFINE S == Since(last - Window)
               f == [q \in S |-> Entry(q)]
    <3>1. completions = {Entry(q) : q \in S} /\ IsFiniteSet(S)
      BY <2>0, <2>1, <2>2, <2>4, <2>5
    <3>2. \A p, q \in S : Entry(p) = Entry(q) => p = q
      BY DEF Entry
    <3> HIDE DEF S
    <3>3. f \in Bijection(S, completions)
      BY <3>1, <3>2 DEF Bijection, Injection, Surjection, IsInjective
    <3> HIDE DEF f
    <3>4. Cardinality(completions) = Cardinality(S)
      BY <3>1, <3>3, FS_Bijection DEF ExistsBijection
    <3> QED
      BY <3>4 DEF S
  <2>7. Cardinality(Since(clock - Window)) <= Cardinality(Since(last - Window))
    <3>1. Since(clock - Window) \subseteq Since(last - Window)
      BY <2>0, <2>2 DEF Completed
    <3>2. IsFiniteSet(Since(last - Window))
      BY <2>0, <2>2, <2>5
    <3> QED
      BY <3>1, <3>2, FS_Subset
  <2>8. Snapshot.throughput = Cardinality(completions)
    BY DEF Snapshot
  <2>9. Snapshot.throughput \in Cardinality(Since(clock - Window)) .. Cardinality(Since(latest - Window))
    <3> DEFINE a == Cardinality(Since(clock - Window))
               b == Cardinality(Since(last - Window))
    <3>1. a \in Nat /\ b \in Nat /\ a <= b
      <4>1. clock - Window \in Int /\ last - Window \in Int
        BY <2>0, <2>2
      <4> HIDE DEF Since
      <4> QED
        BY <2>5, <2>7, <4>1
    <3>2. Snapshot.throughput = b
      BY <2>6, <2>8
    <3> HIDE DEF a, b
    <3>3. Snapshot.throughput \in a .. b
      BY <3>1, <3>2
    <3> QED
      BY <2>3, <3>3 DEF a, b
  <2> HIDE DEF latest
  <2> QED
    BY <2>9 DEF ThroughputIsRecent, At, latest
<1> QED
  BY <1>1, ArmInvHolds, PTL

\* The figures of a snapshot are in order, and each divides the results as its
\* name says, whatever the durations are and in whatever order they came in.
THEOREM FiguresAgree == ArmSpec => []LatencyFiguresAgree
<1>1. ASSUME ArmInv PROVE LatencyFiguresAgree
  <2> DEFINE durations == [i \in DOMAIN history |-> took[history[i].query]]
             n == Len(durations)
             Below(v) == Cardinality({i \in 1 .. n : 100 * durations[i] < v})
             Above(v) == Cardinality({i \in 1 .. n : 100 * durations[i] > v})
             Parts(v, pct) == /\ 100 * Below(v) < 100 + (n - 1) * pct
                              /\ 100 * Above(v) < 100 + (n - 1) * (100 - pct)
  <2>1. durations \in [1 .. Len(history) -> Int] /\ Len(history) \in Nat
    <3>1. history \in Seq([query : Queries, status : Terminal])
      BY <1>1 DEF ArmInv, IInv, CallTypes
    <3> QED
      BY <1>1, <3>1, DurationsTyped, LenProperties
  <2> HIDE DEF durations
  <2>2. n = Len(history)
    BY <2>1, IsASeq, LenProperties, SeqDef
  <2>3. n \in Nat /\ durations \in [1 .. n -> Int]
    BY <2>1, <2>2
  <2> HIDE DEF n
  <2>4. ASSUME n > 0
        PROVE  /\ P50(durations) <= P95(durations) /\ P95(durations) <= P99(durations)
               /\ Parts(P50(durations), 50) /\ Parts(P95(durations), 95) /\ Parts(P99(durations), 99)
    <3>1. n \in Nat \ {0}
      BY <2>3, <2>4
    <3>2. 50 \in 0 .. 99 /\ 95 \in 0 .. 99 /\ 99 \in 0 .. 99 /\ 50 <= 95 /\ 95 <= 99
      OBVIOUS
    <3>3. /\ Percentile(Sorted(durations), 50) <= Percentile(Sorted(durations), 95)
          /\ Percentile(Sorted(durations), 95) <= Percentile(Sorted(durations), 99)
      BY <2>3, <3>1, <3>2, PercentileGrows
    <3>4. \A pct \in 0 .. 99 : Parts(Percentile(Sorted(durations), pct), pct)
      BY <2>3, <3>1, PercentileParts
    <3> HIDE DEF Parts
    <3> QED
      BY <3>2, <3>3, <3>4 DEF P50, P95, P99
  <2> QED
    BY <2>4 DEF LatencyFiguresAgree, Latencies, durations, n
<1> QED
  BY <1>1, ArmInvHolds, PTL
=============================================================================
