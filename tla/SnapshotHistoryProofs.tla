------------------------ MODULE SnapshotHistoryProofs ------------------------
(* Theorems about the snapshot history, for every retention, every prune       *)
(* period, and any number of crashes, restarts and failing prunes.             *)
EXTENDS SnapshotHistory, FiniteSetTheorems, SequenceTheorems, TLAPS

\* What a process that has pruned knows about the table, however long ago that
\* was: PrunedOnTime needs it, since most appends do not prune.
PrunedSince ==
    lastPrune > startedAt => \A t \in rows : lastPrune - t <= Retention

HistoryInv == HistoryTypeOK /\ PrunedSince

LEMMA InitHistory == Init => HistoryInv
BY HistoryAssumption DEF Init, HistoryInv, HistoryTypeOK, PrunedSince

\* Every step keeps the table, the prune clock and the start of the process in step.
LEMMA StepHistory == HistoryInv /\ [Next]_vars => HistoryInv'
<1>1. SUFFICES ASSUME HistoryInv, [Next]_vars
               PROVE  HistoryInv'
  OBVIOUS
<1> USE <1>1, HistoryAssumption
<1>2. /\ now \in Nat /\ startedAt \in Nat
      /\ lastPrune \in Int /\ startedAt <= lastPrune /\ lastPrune <= now
      /\ Retention \in Nat /\ PruneEvery \in Nat
  BY DEF HistoryInv, HistoryTypeOK
<1>3. /\ \A t \in rows : t \in 0 .. now
      /\ \A t \in Inserted : t \in 0 .. now
  BY <1>2 DEF HistoryInv, HistoryTypeOK, Inserted
<1>4. CASE Tick
  BY <1>2, <1>3, <1>4 DEF Tick, HistoryInv, HistoryTypeOK, PrunedSince
<1>5. CASE AppendRow
  <2>1. CASE PruneIsDue /\ rows' = Pruned(Inserted) /\ lastPrune' = now
    <3>1. HistoryTypeOK'
      BY <1>2, <1>3, <1>5, <2>1 DEF AppendRow, HistoryInv, HistoryTypeOK, Pruned
    <3>2. PrunedSince'
      BY <1>2, <1>3, <1>5, <2>1 DEF AppendRow, Pruned, PrunedSince
    <3> QED  BY <3>1, <3>2 DEF HistoryInv
  <2>2. CASE ~PruneIsDue /\ rows' = Inserted /\ UNCHANGED lastPrune
    BY <1>2, <1>3, <1>5, <2>2
    DEF AppendRow, Inserted, HistoryInv, HistoryTypeOK, PrunedSince
  <2> QED  BY <1>5, <2>1, <2>2 DEF AppendRow
<1>6. CASE PruneFails
  BY <1>2, <1>3, <1>6
  DEF PruneFails, Inserted, HistoryInv, HistoryTypeOK, PrunedSince
<1>7. CASE Crash
  <2>1. rows' = rows \/ rows' = Inserted
    BY <1>7 DEF Crash
  <2>2. HistoryTypeOK'
    BY <1>2, <1>3, <1>7, <2>1 DEF Crash, HistoryInv, HistoryTypeOK
  <2>3. PrunedSince'
    BY <1>2, <1>3, <1>7, <2>1 DEF Crash, Inserted, HistoryInv, PrunedSince
  <2> QED  BY <2>2, <2>3 DEF HistoryInv
<1>8. CASE Start
  BY <1>2, <1>3, <1>8 DEF Start, HistoryInv, HistoryTypeOK, PrunedSince
<1>9. CASE UNCHANGED vars
  BY <1>9 DEF vars, HistoryInv, HistoryTypeOK, PrunedSince
<1> QED  BY <1>4, <1>5, <1>6, <1>7, <1>8, <1>9 DEF Next

LEMMA HistoryInvariant == Spec => []HistoryInv
BY InitHistory, StepHistory, PTL DEF Spec

\* The table, the prune clock and the start of the process stay in step.
THEOREM HistoryTyped == Spec => []HistoryTypeOK
<1>1. HistoryInv => HistoryTypeOK
  BY DEF HistoryInv
<1> QED  BY <1>1, HistoryInvariant, PTL

\* No prune of any process ever deletes a row within the retention.
THEOREM NothingDeletedEarly == Spec => NoEarlyDeletion
<1>1. HistoryInv /\ [Next]_vars => [\A t \in rows \ rows' : now - t > Retention]_vars
  <2>1. SUFFICES ASSUME HistoryInv, Next, NEW t \in rows \ rows'
                 PROVE  now - t > Retention
    BY DEF vars
  <2>2. t \in Nat /\ now \in Nat /\ Retention \in Nat
    BY <2>1, HistoryAssumption DEF HistoryInv, HistoryTypeOK
  <2>3. AppendRow /\ rows' = Pruned(Inserted)
    BY <2>1 DEF Next, Tick, AppendRow, PruneFails, Crash, Start, Inserted
  <2> QED  BY <2>1, <2>2, <2>3 DEF Pruned, Inserted
<1> QED  BY <1>1, HistoryInvariant, PTL DEF Spec, NoEarlyDeletion

\* A process that has run for a prune period keeps the table bounded.
THEOREM TableStaysBounded == Spec => PrunedOnTime
<1>1. HistoryInv /\ [Next]_vars
        => [AppendRow /\ now - startedAt > PruneEvery => Bounded(rows')]_vars
  <2>1. SUFFICES ASSUME HistoryInv, AppendRow, now - startedAt > PruneEvery,
                        NEW t \in rows'
                 PROVE  now - t <= Retention + PruneEvery
    BY DEF Bounded
  <2> USE <2>1, HistoryAssumption DEF HistoryInv, HistoryTypeOK
  <2>2. CASE PruneIsDue /\ rows' = Pruned(Inserted)
    BY <2>2 DEF Pruned, Inserted
  <2>3. CASE ~PruneIsDue /\ rows' = Inserted
    <3>1. now - lastPrune <= PruneEvery /\ lastPrune > startedAt
      BY <2>3 DEF PruneIsDue
    <3>2. CASE t = now
      BY <3>2
    <3>3. CASE t \in rows
      <4>1. lastPrune - t <= Retention
        BY <3>1, <3>3 DEF PrunedSince
      <4> QED  BY <3>1, <3>3, <4>1
    <3> QED  BY <2>3, <3>2, <3>3 DEF Inserted
  <2> QED  BY <2>2, <2>3 DEF AppendRow
<1> QED  BY <1>1, HistoryInvariant, PTL DEF Spec, PrunedOnTime
-----------------------------------------------------------------------------
(* The charts *)

\* The members of S up to t, and the place of t in S.
Upto(S, t) == {s \in S : s <= t}
Rank(S, t) == Cardinality(Upto(S, t))

\* Each place among n numbers is held by one of them, in ascending order.
LEMMA RankFacts ==
    ASSUME NEW S \in SUBSET Nat, IsFiniteSet(S)
    PROVE  /\ Cardinality(S) \in Nat
           /\ \A t \in S : IsFiniteSet(Upto(S, t)) /\ Rank(S, t) \in 1 .. Cardinality(S)
           /\ \A t, u \in S : t < u => Rank(S, t) < Rank(S, u)
           /\ \A k \in 1 .. Cardinality(S) : \E t \in S : Rank(S, t) = k
<1> DEFINE n == Cardinality(S)
           R(t) == Rank(S, t)
           r == [t \in S |-> R(t)]
<1>1. n \in Nat /\ \A t \in S : t \in Nat
  BY FS_CardinalityType
<1>2. \A t \in S : IsFiniteSet(Upto(S, t)) /\ R(t) \in Nat /\ R(t) <= n
  BY FS_Subset, FS_CardinalityType DEF Upto, Rank
<1>3. \A t \in S : R(t) \in 1 .. n
  <2> SUFFICES ASSUME NEW t \in S PROVE R(t) \in 1 .. n
    OBVIOUS
  <2>1. R(t) # 0
    BY <1>1, <1>2, FS_EmptySet DEF Upto, Rank
  <2> HIDE DEF n, R
  <2> QED
    BY <1>1, <1>2, <2>1
<1>4. ASSUME NEW t \in S, NEW u \in S, t < u PROVE R(t) < R(u)
  <2>1. Upto(S, t) \cup {u} \subseteq Upto(S, u) /\ u \notin Upto(S, t)
    <3>1. \A x \in S : x <= t => x <= u
      BY <1>1, <1>4
    <3>2. u <= u /\ ~(u <= t)
      BY <1>1, <1>4
    <3> QED
      BY <3>1, <3>2 DEF Upto
  <2>2. /\ Cardinality(Upto(S, t) \cup {u}) = Cardinality(Upto(S, t)) + 1
        /\ Cardinality(Upto(S, t) \cup {u}) <= Cardinality(Upto(S, u))
    BY <1>2, <2>1, FS_AddElement, FS_Subset
  <2> QED
    BY <1>2, <2>2 DEF Rank
<1>5. r \in Injection(S, 1 .. n)
  <2>1. \A t, u \in S : R(t) = R(u) => t = u
    <3> SUFFICES ASSUME NEW t \in S, NEW u \in S, R(t) = R(u) PROVE t = u
      OBVIOUS
    <3>1. R(t) \in Nat /\ R(u) \in Nat
      BY <1>2
    <3>2. (t < u => R(t) < R(u)) /\ (u < t => R(u) < R(t))
      BY <1>4
    <3> HIDE DEF R
    <3> QED
      BY <1>1, <3>1, <3>2
  <2> HIDE DEF R, n
  <2> QED
    BY <1>3, <2>1 DEF Injection, IsInjective
<1>6. r \in Surjection(S, 1 .. n)
  <2>1. IsFiniteSet(1 .. n) /\ Cardinality(1 .. n) = n
    BY <1>1, FS_Interval
  <2> HIDE DEF r
  <2> QED
    BY <1>5, <2>1, FS_Injection
<1>7. \A k \in 1 .. n : \E t \in S : R(t) = k
  <2> HIDE DEF R, n
  <2> QED
    BY <1>6 DEF Surjection
<1> QED
  BY <1>1, <1>2, <1>3, <1>4, <1>7

\* The ascending list of a set holds at each place the member that belongs there.
LEMMA AscendingFacts ==
    ASSUME NEW S \in SUBSET Nat, IsFiniteSet(S)
    PROVE  /\ Ascending(S) \in Seq(S) /\ Len(Ascending(S)) = Cardinality(S)
           /\ \A i \in 1 .. Cardinality(S) :
                 Ascending(S)[i] \in S /\ Rank(S, Ascending(S)[i]) = i
<1> DEFINE n == Cardinality(S)
           At(i) == CHOOSE t \in S : Rank(S, t) = i
           a == [i \in 1 .. n |-> At(i)]
<1>1. n \in Nat /\ \A i \in 1 .. n : \E t \in S : Rank(S, t) = i
  BY RankFacts
<1>2. \A i \in 1 .. n : At(i) \in S /\ Rank(S, At(i)) = i
  BY <1>1
<1>3. Ascending(S) = a
  BY Zenon DEF Ascending, Rank, Upto
<1> HIDE DEF n, At
<1>4. a \in [1 .. n -> S] /\ \A i \in 1 .. n : a[i] = At(i)
  BY <1>2
<1>5. a \in Seq(S) /\ Len(a) = n
  <2> HIDE DEF a
  <2> QED
    BY <1>1, <1>4, IsASeq, LenProperties, SeqDef
<1> QED
  BY <1>2, <1>3, <1>4, <1>5 DEF n

LEMMA DivisionFacts ==
    ASSUME NEW a \in Nat, NEW b \in Nat \ {0}
    PROVE  a \div b \in Nat /\ b * (a \div b) <= a /\ a < b * (a \div b) + b
OBVIOUS

\* How many rows a chart of n rows gets: all of them below 2 * MaxPoints, and from
\* there on at least MaxPoints and less than twice that.
LEMMA StrideFacts ==
    ASSUME NEW n \in Nat
    PROVE  LET step == Stride(n)
               m == (n + step - 1) \div step
           IN  /\ step \in Nat \ {0} /\ m \in Nat
               /\ m < 2 * MaxPoints
               /\ m >= IF n < MaxPoints THEN n ELSE MaxPoints
               /\ step * m <= n + step - 1
               /\ n > 0 => m > 0
<1> DEFINE M == MaxPoints
           q == n \div M
           step == Stride(n)
           m == (n + step - 1) \div step
<1>1. M \in Nat \ {0}
  BY HistoryAssumption
<1>2. q \in Nat /\ M * q <= n /\ n < M * q + M
  <2> HIDE DEF M
  <2> QED
    BY <1>1, DivisionFacts
<1>3. step = IF q > 1 THEN q ELSE 1
  BY DEF Stride
<1> HIDE DEF M, q, step
<1>4. step \in Nat \ {0} /\ n + step - 1 \in Nat
  BY <1>2, <1>3
<1>5. m \in Nat /\ step * m <= n + step - 1 /\ n + step - 1 < step * m + step
  BY <1>4, DivisionFacts
<1> HIDE DEF m
<1>6. m < 2 * M /\ m >= IF n < M THEN n ELSE M
  <2>1. CASE q > 1
    <3>1. step = q
      BY <1>3, <2>1
    <3>2. q * M <= n /\ n < q * M + M /\ q * m <= n + q - 1 /\ n + q - 1 < q * m + q
      BY <1>1, <1>2, <1>5, <3>1
    <3>3. m >= M
      <4> SUFFICES ASSUME m < M PROVE FALSE
        BY <1>1, <1>5
      <4>1. m + 1 <= M
        BY <1>1, <1>5
      <4>2. q * (m + 1) <= q * M
        BY <1>1, <1>2, <1>5, <4>1
      <4>3. q * (m + 1) = q * m + q
        BY <1>2, <1>5
      <4> QED
        BY <1>1, <1>2, <1>5, <3>2, <4>2, <4>3
    <3>4. m < 2 * M
      <4> SUFFICES ASSUME m >= 2 * M PROVE FALSE
        BY <1>1, <1>5
      <4>1. q * m >= q * (2 * M)
        BY <1>1, <1>2, <1>5
      <4>2. q * (2 * M) = q * M + q * M
        BY <1>1, <1>2
      <4>3. (q - 1) * (M - 1) >= 0 /\ (q - 1) * (M - 1) = q * M - q - M + 1
        BY <1>1, <1>2, <2>1
      <4> QED
        BY <1>1, <1>2, <1>5, <3>2, <4>1, <4>2, <4>3
    <3> QED
      BY <1>1, <1>2, <1>5, <3>3, <3>4
  <2>2. CASE ~(q > 1)
    <3>1. m = n
      BY <1>2, <1>3, <1>5, <2>2
    <3>2. M * q <= M
      BY <1>1, <1>2, <2>2
    <3> QED
      BY <1>1, <1>2, <3>1, <3>2
  <2> QED
    BY <2>1, <2>2
<1>7. n > 0 => m > 0
  BY <1>1, <1>5, <1>6
<1> QED
  BY <1>4, <1>5, <1>6, <1>7 DEF M, m, step

\* The points of a chart are rows of its window at places one stride apart.
LEMMA QueryFacts ==
    ASSUME HistoryTypeOK, NEW minutes \in Nat
    PROVE  LET W == Window(minutes)
               n == Cardinality(W)
               step == Stride(n)
               m == (n + step - 1) \div step
           IN  /\ W \in SUBSET Nat /\ IsFiniteSet(W) /\ n \in Nat
               /\ Len(Query(minutes)) = m /\ DOMAIN Query(minutes) = 1 .. m
               /\ \A i \in 1 .. m :
                     /\ Query(minutes)[i] \in W
                     /\ Rank(W, Query(minutes)[i]) = (i - 1) * step + 1
<1> DEFINE W == Window(minutes)
           n == Cardinality(W)
           step == Stride(n)
           m == (n + step - 1) \div step
           place(i) == (i - 1) * step + 1
           points == [i \in 1 .. m |-> Ascending(W)[place(i)]]
<1>1. W \in SUBSET Nat /\ IsFiniteSet(W)
  <2>1. now \in Nat /\ rows \in SUBSET (0 .. now)
    BY DEF HistoryTypeOK
  <2>2. IsFiniteSet(0 .. now)
    BY <2>1, FS_Interval
  <2>3. W \subseteq 0 .. now
    BY <2>1 DEF Window
  <2> QED
    BY <2>1, <2>2, <2>3, FS_Subset
<1> HIDE DEF W
<1>2. /\ n \in Nat /\ Ascending(W) \in Seq(W) /\ Len(Ascending(W)) = n
      /\ \A i \in 1 .. n : Ascending(W)[i] \in W /\ Rank(W, Ascending(W)[i]) = i
  BY <1>1, AscendingFacts, FS_CardinalityType
<1> HIDE DEF n
<1>3. step \in Nat \ {0} /\ m \in Nat /\ step * m <= n + step - 1
  BY <1>2, StrideFacts
<1> HIDE DEF step, m
<1>4. \A i \in 1 .. m : place(i) \in 1 .. n
  <2> SUFFICES ASSUME NEW i \in 1 .. m PROVE place(i) \in 1 .. n
    OBVIOUS
  <2>1. step * i <= step * m
    BY <1>3
  <2>2. (i - 1) * step = step * i - step /\ (i - 1) * step >= 0
    BY <1>3
  <2>3. (i - 1) * step \in Nat
    BY <1>3
  <2> QED
    BY <1>2, <1>3, <2>1, <2>2, <2>3
<1>5. Query(minutes) = points
  BY <1>2 DEF Query, W, n, step, m
<1> HIDE DEF place
<1>6. points \in Seq(W) /\ DOMAIN points = 1 .. m /\ Len(points) = m
  <2>1. points \in [1 .. m -> W]
    BY <1>2, <1>4
  <2> HIDE DEF points
  <2> QED
    BY <1>3, <2>1, IsASeq, LenProperties, SeqDef
<1>7. \A i \in 1 .. m : points[i] \in W /\ Rank(W, points[i]) = place(i)
  BY <1>2, <1>4
<1> QED
  BY <1>1, <1>2, <1>5, <1>6, <1>7 DEF W, n, step, m, place

\* What query returns for a chart: all rows of the window while they fit, else
\* MaxPoints to twice as many, from its oldest row on, in order, one stride of rows
\* after the other, whatever crashes and failing prunes made of the table.
THEOREM ChartsStayFaithful == Spec => []ChartsAreFaithful
<1>1. HistoryTypeOK => ChartsAreFaithful
  <2> SUFFICES ASSUME HistoryTypeOK, NEW minutes \in 0 .. now
               PROVE  LET n == Cardinality(Window(minutes))
                          points == Query(minutes)
                      IN  /\ Range(points) \subseteq Window(minutes)
                          /\ Len(points) < 2 * MaxPoints
                          /\ Len(points) >= IF n < MaxPoints THEN n ELSE MaxPoints
                          /\ n > 0 => \A t \in Window(minutes) : points[1] <= t
                          /\ \A i \in 2 .. Len(points) :
                                Cardinality({t \in Window(minutes) :
                                    points[i-1] < t /\ t <= points[i]}) = Stride(n)
    BY DEF ChartsAreFaithful
  <2> DEFINE W == Window(minutes)
             n == Cardinality(W)
             points == Query(minutes)
             step == Stride(n)
             m == (n + step - 1) \div step
  <2>1. minutes \in Nat
    BY DEF HistoryTypeOK
  <2>2. /\ W \in SUBSET Nat /\ IsFiniteSet(W) /\ n \in Nat
        /\ Len(points) = m /\ DOMAIN points = 1 .. m
        /\ \A i \in 1 .. m : /\ points[i] \in W
                             /\ Rank(W, points[i]) = (i - 1) * step + 1
    BY <2>1, QueryFacts
  <2>3. /\ step \in Nat \ {0} /\ m \in Nat /\ m < 2 * MaxPoints
        /\ m >= IF n < MaxPoints THEN n ELSE MaxPoints
        /\ n > 0 => m > 0
    BY <2>2, StrideFacts
  <2> HIDE DEF W, n, step, points, m
  <2>4. /\ \A t \in W : IsFiniteSet(Upto(W, t)) /\ Rank(W, t) \in Nat \ {0}
        /\ \A t, u \in W : t < u => Rank(W, t) < Rank(W, u)
        /\ \A t \in W : t \in Nat
    BY <2>2, RankFacts DEF n
  <2>5. Range(points) \subseteq W
    BY <2>2 DEF Range
  <2>6. ASSUME n > 0, NEW t \in W PROVE points[1] <= t
    <3>1. 1 \in 1 .. m /\ (1 - 1) * step + 1 = 1
      BY <2>3, <2>6
    <3>2. points[1] \in W /\ Rank(W, points[1]) = 1
      BY <2>2, <3>1
    <3>3. ~ (t < points[1])
      BY <2>4, <3>2
    <3> QED
      BY <2>4, <3>2, <3>3
  <2>7. ASSUME NEW i \in 2 .. m
        PROVE  Cardinality({t \in W : points[i-1] < t /\ t <= points[i]}) = step
    <3> DEFINE p == points[i-1]
               u == points[i]
               between == {t \in W : p < t /\ t <= u}
    <3>1. i \in 1 .. m /\ i - 1 \in 1 .. m
      BY <2>3
    <3>2. p \in W /\ u \in W /\ p \in Nat /\ u \in Nat
      BY <2>2, <2>4, <3>1
    <3>3. Rank(W, p) = (i - 2) * step + 1 /\ Rank(W, u) = (i - 1) * step + 1
      <4>1. i - 1 - 1 = i - 2
        BY <3>1, <2>3
      <4> QED
        BY <2>2, <3>1, <4>1
    <3>4. Rank(W, u) = Rank(W, p) + step
      <4>1. (i - 1) * step = (i - 2) * step + step
        BY <2>3
      <4>2. (i - 1) * step \in Int /\ (i - 2) * step \in Int
        BY <2>3
      <4> QED
        BY <2>3, <3>3, <4>1, <4>2
    <3> HIDE DEF p, u
    <3>5. p <= u
      BY <2>3, <2>4, <3>2, <3>4
    <3>6. between = Upto(W, u) \ Upto(W, p) /\ Upto(W, u) \cap Upto(W, p) = Upto(W, p)
      <4>1. \A t \in W : /\ (p < t /\ t <= u) <=> (t <= u /\ ~ (t <= p))
                         /\ t <= p => t <= u
        BY <2>4, <3>2, <3>5
      <4> QED
        BY <4>1 DEF Upto
    <3>7. Cardinality(Upto(W, u) \ Upto(W, p))
             = Cardinality(Upto(W, u)) - Cardinality(Upto(W, u) \cap Upto(W, p))
      BY <2>4, <3>2, FS_Difference
    <3>8. Cardinality(between) = Rank(W, u) - Rank(W, p)
      BY <3>6, <3>7 DEF Rank
    <3> HIDE DEF between
    <3>9. Cardinality(between) = step
      BY <2>3, <2>4, <3>2, <3>4, <3>8
    <3> QED
      BY <3>9 DEF between, p, u
  <2> QED
    BY <2>2, <2>3, <2>5, <2>6, <2>7 DEF W, n, step, points
<1> QED
  BY <1>1, HistoryTyped, PTL
=============================================================================
