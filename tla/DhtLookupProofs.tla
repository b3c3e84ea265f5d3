--------------------------- MODULE DhtLookupProofs ---------------------------
(* Safety of a lookup under churn, for any ids, any distance that tells them   *)
(* apart, any sizes of the tables and of a round, and any hop budget.  What a  *)
(* lookup has heard of stays within the network it began in: its era.          *)
EXTENDS DhtLookup, FiniteSetTheorems, SequenceTheorems, WellFoundedInduction, TLAPS

\* The peers built with the network that came of g rebuilds.
Era(g) == IF g = 0 THEN Network ELSE Rebuilt

\* Peers there are, and whom those that were not added know.
NetworkInv ==
    /\ generation \in {0, 1} /\ churn \in 0 .. MaxChurn
    /\ DOMAIN nodes \subseteq Era(generation) \cup Newcomers
    /\ \A p \in DOMAIN nodes : nodes[p] \in [online : BOOLEAN, table : Seq(Ids)]
    /\ \A p \in DOMAIN nodes \ Newcomers : nodes[p].table \in Seq(Era(generation))
    /\ bootTable \in Seq(Era(generation))

\* What the lookup did and has heard of.
LookupInv ==
    /\ qpc \in {"idle", "asleep"} \cup Outcomes
    /\ born \in {0, 1} /\ target \in Targets \cup {None} /\ known \in BOOLEAN
    /\ visited \subseteq Era(born) /\ path \in Seq(Era(born))
    /\ IsInjective(path) /\ Range(path) \subseteq visited
    /\ hops = Len(path) /\ hops <= MaxHops + Alpha - 1
    /\ table \in Seq(Era(born)) /\ pending \in Seq(Era(born)) /\ named \in Seq(Era(born))
    /\ qpc = "idle" => visited = {} /\ path = <<>>
    /\ qpc = "found" => target \in visited

\* On a hop: the peer is a new one of the path, the round fits the budget, and the
\* lookup began in this network or in the one before.
AsleepInv ==
    /\ qpc # "asleep" => at = None
    /\ qpc = "asleep" => /\ at \in visited \ Range(path) /\ target \in Targets
                         /\ hops + 1 + Len(pending) <= MaxHops + Alpha - 1
                         /\ Len(pending) < Alpha
                         /\ generation = 0 => born = 0
    /\ Len(pending) < Alpha

DhtInv == NetworkInv /\ LookupInv /\ AsleepInv
-----------------------------------------------------------------------------
LEMMA DhtConstants ==
    /\ IsFiniteSet(Ids) /\ Ids \subseteq Nat /\ None \notin Ids
    /\ K \in Nat \ {0} /\ Alpha \in Nat \ {0} /\ MaxHops \in Nat \ {0} /\ MaxChurn \in Nat
    /\ \A g : Era(g) \subseteq Ids /\ Era(g) \cap Newcomers = {}
    /\ Era(0) = Network /\ Era(1) = Rebuilt /\ Network \cap Rebuilt = {}
BY DhtAssumption DEF Era, Ids, None

\* How many of S are numbered by d no higher than p.
Rank(S, d, p) == Cardinality({o \in S : d[o] <= d[p]})

\* Numbered apart, a finite set has a member of every rank up to its size.
LEMMA RankFacts ==
    ASSUME NEW S, IsFiniteSet(S), NEW d \in [S -> Nat], IsInjective(d)
    PROVE  /\ Cardinality(S) \in Nat
           /\ \A k \in 1 .. Cardinality(S) : \E p \in S : Rank(S, d, p) = k
<1> DEFINE Upto(p) == {o \in S : d[o] <= d[p]}
           R(p) == Cardinality(Upto(p))
           n == Cardinality(S)
           r == [p \in S |-> R(p)]
<1>0. n \in Nat /\ \A p \in S : d[p] \in Nat
  BY FS_CardinalityType
<1>1. \A p \in S : IsFiniteSet(Upto(p)) /\ R(p) \in Nat /\ R(p) <= n
  BY FS_Subset, FS_CardinalityType
<1>2. \A p \in S : R(p) \in 1 .. n
  <2> SUFFICES ASSUME NEW p \in S PROVE R(p) \in 1 .. n
    OBVIOUS
  <2>1. p \in Upto(p)
    BY <1>0
  <2>2. IsFiniteSet(Upto(p)) /\ R(p) \in Nat /\ R(p) <= n
    BY <1>1
  <2> HIDE DEF Upto
  <2>3. R(p) # 0
    BY <2>1, <2>2, FS_EmptySet
  <2> HIDE DEF n
  <2>4. \A x \in Nat : x # 0 /\ x <= n => x \in 1 .. n
    BY <1>0
  <2> QED
    BY <2>2, <2>3, <2>4
<1>3. ASSUME NEW p \in S, NEW o \in S, d[p] < d[o] PROVE R(p) < R(o)
  <2>1. Upto(p) \cup {o} \subseteq Upto(o) /\ o \notin Upto(p)
    <3>1. \A x \in S : d[x] <= d[p] => d[x] <= d[o]
      BY <1>0, <1>3
    <3>2. d[o] <= d[o] /\ ~(d[o] <= d[p])
      BY <1>0, <1>3
    <3> QED
      BY <3>1, <3>2
  <2>2. /\ Cardinality(Upto(p) \cup {o}) = R(p) + 1
        /\ Cardinality(Upto(p) \cup {o}) <= R(o)
    BY <1>1, <2>1, FS_AddElement, FS_Subset
  <2> HIDE DEF R, Upto
  <2> QED
    BY <1>1, <2>2
<1>4. \A p, o \in S : R(p) = R(o) => p = o
  <2> SUFFICES ASSUME NEW p \in S, NEW o \in S, R(p) = R(o) PROVE p = o
    OBVIOUS
  <2>1. R(p) \in Nat /\ R(o) \in Nat
    BY <1>1
  <2>2. (d[p] < d[o] => R(p) < R(o)) /\ (d[o] < d[p] => R(o) < R(p))
    BY <1>3
  <2> HIDE DEF R
  <2>3. d[p] = d[o]
    BY <1>0, <2>1, <2>2
  <2> QED
    BY <2>3 DEF IsInjective
<1>5. r \in Injection(S, 1 .. n)
  <2> HIDE DEF R, n
  <2> QED
    BY <1>2, <1>4 DEF Injection, IsInjective
<1>6. r \in Surjection(S, 1 .. n)
  <2>1. IsFiniteSet(1 .. n) /\ Cardinality(1 .. n) = n
    BY <1>0, FS_Interval
  <2> HIDE DEF r
  <2> QED
    BY <1>5, <2>1, FS_Injection
<1>7. \A k \in 1 .. n : \E p \in S : R(p) = k
  <2> HIDE DEF R, n
  <2> QED
    BY <1>6 DEF Surjection
<1> QED
  BY <1>0, <1>7 DEF Rank

\* The closest of some ids are some of them, and no more than were asked for.
LEMMA ClosestFacts ==
    ASSUME NEW S \in SUBSET Ids, NEW t \in Ids \cup Targets, NEW k \in Nat
    PROVE  Closest(S, t, k) \in Seq(S) /\ Len(Closest(S, t, k)) <= k
<1> DEFINE d == [p \in S |-> Dist(p, t)]
           R(p) == Cardinality({o \in S : Dist(o, t) <= Dist(p, t)})
           a == Cardinality(S)
           n == IF a < k THEN a ELSE k
           c == [i \in 1 .. n |-> CHOOSE p \in S : R(p) = i]
<1>1. IsFiniteSet(S) /\ d \in [S -> Nat] /\ IsInjective(d)
  <2>1. IsFiniteSet(S)
    BY DhtConstants, FS_Subset
  <2>2. \A p, o \in S : Dist(p, t) \in Nat /\ (Dist(p, t) = Dist(o, t) => p = o)
    BY DistanceAssumption
  <2> QED
    BY <2>1, <2>2 DEF IsInjective
<1>2. \A p \in S : Rank(S, d, p) = R(p)
  <2> SUFFICES ASSUME NEW p \in S
               PROVE  {o \in S : d[o] <= d[p]} = {o \in S : Dist(o, t) <= Dist(p, t)}
    BY Zenon DEF Rank
  <2> QED
    OBVIOUS
<1>3. a \in Nat /\ \A i \in 1 .. a : \E p \in S : R(p) = i
  <2> HIDE DEF d, R
  <2> QED
    BY <1>1, <1>2, RankFacts
<1> HIDE DEF R, a
<1>4. n \in Nat /\ n <= k /\ 1 .. n \subseteq 1 .. a
  BY <1>3
<1>5. c \in [1 .. n -> S]
  BY <1>3, <1>4
<1>6. c \in Seq(S) /\ Len(c) = n
  <2> HIDE DEF n, c
  <2> QED
    BY <1>4, <1>5, IsASeq, LenProperties, SeqDef
<1>7. Closest(S, t, k) = c
  BY DEF Closest, a, R
<1> QED
  BY <1>4, <1>6, <1>7

\* The other names of a list are names of the list.
LEMMA WithoutFacts ==
    ASSUME NEW S, NEW s \in Seq(S), NEW D
    PROVE  Without(s, D) \in Seq(S)
<1> DEFINE kept == Others(s, D)
           R(i) == Cardinality({j \in kept : j <= i})
           d == [i \in kept |-> i]
           n == Cardinality(kept)
           w == [k \in 1 .. n |-> s[CHOOSE i \in kept : R(i) = k]]
<1>1. kept \in SUBSET Nat /\ IsFiniteSet(kept) /\ \A i \in kept : s[i] \in S
  <2>1. /\ Len(s) \in Nat /\ DOMAIN s = 1 .. Len(s) /\ IsFiniteSet(1 .. Len(s))
        /\ \A i \in DOMAIN s : s[i] \in S
    BY LenProperties, ElementOfSeq, FS_Interval
  <2> QED
    BY <2>1, FS_Subset DEF Others
<1> HIDE DEF kept
<1>2. d \in [kept -> Nat] /\ IsInjective(d)
  BY <1>1 DEF IsInjective
<1>3. \A i \in kept : Rank(kept, d, i) = R(i)
  <2> SUFFICES ASSUME NEW i \in kept
               PROVE  {j \in kept : d[j] <= d[i]} = {j \in kept : j <= i}
    BY Zenon DEF Rank
  <2> QED
    OBVIOUS
<1>4. n \in Nat /\ \A k \in 1 .. n : \E i \in kept : R(i) = k
  <2> HIDE DEF d, R
  <2> QED
    BY <1>1, <1>2, <1>3, RankFacts
<1> HIDE DEF R, n
<1>5. w \in [1 .. n -> S]
  BY <1>1, <1>4
<1>6. w \in Seq(S)
  <2> HIDE DEF w
  <2> QED
    BY <1>4, <1>5, IsASeq, SeqDef
<1>7. Without(s, D) = w
  BY Zenon DEF Without, kept, n, R
<1> QED
  BY <1>6, <1>7

\* The next round takes some of the candidates and no more than a round holds.
LEMMA FirstFewFacts ==
    ASSUME NEW S, NEW s \in Seq(S)
    PROVE  FirstFew(s) \in Seq(S) /\ Len(FirstFew(s)) <= Alpha
<1> DEFINE n == Len(s)
           m == IF n < Alpha THEN n ELSE Alpha
<1>1. n \in Nat /\ Alpha \in Nat
  BY LenProperties, DhtConstants
<1>2. \A i \in 1 .. m : s[i] \in S
  BY <1>1, ElementOfSeq
<1> HIDE DEF n
<1>3. m \in Nat /\ m <= Alpha /\ m <= n
  BY <1>1
<1>4. SubSeq(s, 1, m) \in Seq(S) /\ Len(SubSeq(s, 1, m)) = m
  <2> HIDE DEF m
  <2> QED
    BY <1>2, <1>3, SubSeqProperties
<1> QED
  BY <1>3, <1>4 DEF FirstFew, n
-----------------------------------------------------------------------------
\* What the lookup, which saw the peers seen and hears of peers of E only, comes
\* to: it ends, or sleeps on a new peer with less than room candidates left.
MovesOn(E, seen, room) ==
    /\ visited' \in SUBSET E /\ seen \subseteq visited'
    /\ pending' \in Seq(E) /\ named' \in Seq(E)
    /\ qpc' \in {"asleep", "failed", "exhausted"}
    /\ qpc' # "asleep" => at' = None /\ table' = <<>> /\ pending' = <<>>
    /\ qpc' = "asleep" => /\ at' \in visited' \ seen /\ at' \in DOMAIN nodes
                          /\ table' = nodes[at'].table
                          /\ Len(pending') < room

LEMMA FirstLiveFacts ==
    ASSUME NEW S, NEW s \in Seq(S), NEW seen, Live(s, seen) # {}
    PROVE  FirstLive(s, seen) \in Live(s, seen)
<1>1. Live(s, seen) \in SUBSET Nat
  BY LenProperties DEF Live
<1>2. PICK i \in Live(s, seen) :
          \A j \in Live(s, seen) : ~ (<<j, i>> \in OpToRel(<, Nat))
  BY <1>1, NatLessThanWellFounded, WFMin
<1>3. \A j \in Live(s, seen) : ~ (j < i)
  BY <1>1, <1>2 DEF OpToRel
<1>4. \A j \in Live(s, seen) : i <= j
  BY <1>1, <1>3
<1> QED
  BY <1>4 DEF FirstLive

\* A connection is to a peer that was not seen before, and uses up its place.
LEMMA ContactFacts ==
    ASSUME NEW E, NEW s \in Seq(E), NEW seen \in SUBSET E, NEW names \in Seq(E),
           NEW i \in Live(s, seen), Contact(s, i, seen, names)
    PROVE  MovesOn(E, seen, Len(s))
<1> DEFINE n == Len(s)
<1>1. /\ n \in Nat /\ DOMAIN s = 1 .. n /\ i \in 1 .. n
      /\ \A j \in 1 .. n : s[j] \in E
      /\ s[i] \notin seen /\ s[i] \in DOMAIN nodes
  BY LenProperties, ElementOfSeq DEF Live, Answers
<1>2. /\ visited' = seen \cup {s[j] : j \in 1 .. i}
      /\ visited' \in SUBSET E /\ s[i] \in visited'
  BY <1>1 DEF Contact, Seen
<1>3. /\ SubSeq(s, i + 1, n) \in Seq(E)
      /\ Len(SubSeq(s, i + 1, n)) < n
  <2> HIDE DEF n
  <2>1. \A j \in i + 1 .. n : s[j] \in E
    BY <1>1
  <2>2. /\ SubSeq(s, i + 1, n) \in Seq(E)
        /\ Len(SubSeq(s, i + 1, n)) = IF i + 1 <= n THEN n - (i + 1) + 1 ELSE 0
    BY <1>1, <2>1, SubSeqProperties
  <2> QED
    BY <1>1, <2>2
<1>4. <<>> \in Seq(E)
  BY EmptySeq
<1> QED
  BY <1>1, <1>2, <1>3, <1>4 DEF MovesOn, Contact

\* The end of a lookup.
LEMMA EndFacts ==
    ASSUME NEW E, NEW seen \in SUBSET E, NEW done \in SUBSET E, seen \subseteq done,
           NEW room, End("exhausted", done)
    PROVE  MovesOn(E, seen, room)
BY EmptySeq DEF End, MovesOn

\* The rest of a round, then of a new one if the budget allows one.
LEMMA ProceedFacts ==
    ASSUME NEW E, NEW s \in Seq(E), NEW seen \in SUBSET E, NEW names \in Seq(E), NEW h,
           Proceed(s, seen, names, h)
    PROVE  \/ MovesOn(E, seen, Len(s))
           \/ h < MaxHops /\ MovesOn(E, seen, Alpha)
<1> DEFINE done == seen \cup Range(s)
           cands == Without(names, done)
           fresh == FirstFew(cands)
<1>1. done \in SUBSET E /\ seen \subseteq done
  BY RangeOfSeq
<1>2. fresh \in Seq(E) /\ Len(fresh) <= Alpha /\ Len(fresh) \in Nat
  BY WithoutFacts, FirstFewFacts, LenProperties
<1>3. <<>> \in Seq(E) /\ Alpha \in Nat
  BY EmptySeq, DhtConstants
<1> HIDE DEF done, cands, fresh
<1>4. CASE Live(s, seen) # {} /\ Contact(s, FirstLive(s, seen), seen, names)
  BY <1>4, FirstLiveFacts, ContactFacts
<1>5. CASE End("exhausted", done)
  BY <1>1, <1>5, EndFacts
<1>6. CASE h < MaxHops /\ Live(fresh, done) # {}
               /\ Contact(fresh, FirstLive(fresh, done), done, <<>>)
  <2>1. FirstLive(fresh, done) \in Live(fresh, done)
    BY <1>2, <1>6, FirstLiveFacts
  <2>2. MovesOn(E, done, Len(fresh))
    BY <1>1, <1>2, <1>3, <1>6, <2>1, ContactFacts
  <2>3. pending' \in Seq(E) => Len(pending') \in Nat
    BY LenProperties
  <2>4. MovesOn(E, seen, Alpha)
    BY <1>1, <1>2, <1>3, <2>2, <2>3 DEF MovesOn
  <2> QED
    BY <1>6, <2>4
<1>7. CASE h < MaxHops /\ End("exhausted", done \cup Range(fresh))
  <2>1. done \cup Range(fresh) \in SUBSET E /\ seen \subseteq done \cup Range(fresh)
    BY <1>1, <1>2, RangeOfSeq
  <2> QED
    BY <1>7, <2>1, EndFacts
<1> QED
  BY <1>4, <1>5, <1>6, <1>7 DEF Proceed, MayGoOn, done, cands, fresh
-----------------------------------------------------------------------------
\* A network knows only itself.
LEMMA TablesFacts ==
    ASSUME NEW S \in SUBSET Ids, NEW p \in S
    PROVE  Tables(S)[p] \in Seq(S) /\ Tables(S)[p] \in Seq(Ids)
<1>1. Closest(S \ {p}, p, K) \in Seq(S \ {p})
  BY DhtConstants, ClosestFacts
<1>2. Closest(S \ {p}, p, K) \in Seq(S) /\ Closest(S \ {p}, p, K) \in Seq(Ids)
  BY <1>1, SeqMonotonic
<1> QED
  BY <1>2 DEF Tables

LEMMA InitDht == Init => DhtInv
<1> SUFFICES ASSUME Init PROVE DhtInv
  OBVIOUS
<1>1. Network \in SUBSET Ids /\ Era(0) = Network /\ MaxChurn \in Nat
      /\ Alpha \in Nat \ {0} /\ MaxHops \in Nat \ {0}
  BY DhtConstants DEF Ids
<1>2. \A p \in Network : Tables(Network)[p] \in Seq(Network) /\ Tables(Network)[p] \in Seq(Ids)
  BY <1>1, TablesFacts
<1>3. <<>> \in Seq(Network) /\ Len(<<>>) = 0 /\ Range(<<>>) = {} /\ IsInjective(<<>>)
  BY EmptySeq DEF Range, IsInjective
<1>4. NetworkInv
  <2>1. /\ DOMAIN nodes = Network /\ generation = 0 /\ churn = 0
        /\ \A p \in Network : nodes[p] = [online |-> TRUE, table |-> Tables(Network)[p]]
        /\ \E boot \in Network : bootTable = Tables(Network)[boot]
    BY DEF Init
  <2>2. 0 \in 0 .. MaxChurn
    BY <1>1
  <2>3. ASSUME NEW p \in Network
        PROVE  nodes[p] \in [online : BOOLEAN, table : Seq(Ids)]
    <3>1. /\ nodes[p] = [online |-> TRUE, table |-> Tables(Network)[p]]
          /\ Tables(Network)[p] \in Seq(Ids)
      BY <1>2, <2>1
    <3> QED
      BY <3>1
  <2>4. \A p \in Network : nodes[p].table \in Seq(Network)
    BY <1>2, <2>1
  <2> QED
    BY <1>1, <1>2, <2>1, <2>2, <2>3, <2>4 DEF NetworkInv
<1>5. LookupInv
  <2>1. /\ qpc = "idle" /\ born = 0 /\ target = None /\ known = FALSE /\ visited = {}
        /\ path = <<>> /\ hops = 0 /\ table = <<>> /\ pending = <<>> /\ named = <<>>
    BY DEF Init
  <2>2. 0 <= MaxHops + Alpha - 1
    BY <1>1
  <2> QED
    BY <1>1, <1>3, <2>1, <2>2 DEF LookupInv
<1>6. AsleepInv
  BY <1>1, <1>3 DEF Init, AsleepInv
<1> QED
  BY <1>4, <1>5, <1>6 DEF DhtInv

\* A lookup that sleeps on a peer is in the network there is.
LEMMA MoveStays ==
    ASSUME NetworkInv, NEW g \in {0, 1}, NEW seen, NEW room, MovesOn(Era(g), seen, room)
    PROVE  /\ qpc' = "asleep" => g = generation
           /\ table' \in Seq(Era(g))
<1>1. CASE qpc' # "asleep"
  BY <1>1, EmptySeq DEF MovesOn
<1>2. CASE qpc' = "asleep"
  <2>1. at' \in Era(g) /\ at' \in DOMAIN nodes /\ table' = nodes[at'].table
    BY <1>2 DEF MovesOn
  <2>2. at' \in Era(generation) /\ at' \notin Newcomers /\ generation \in {0, 1}
    BY <2>1, DhtConstants DEF NetworkInv
  <2>3. g = generation
    BY <2>1, <2>2, DhtConstants
  <2>4. nodes[at'].table \in Seq(Era(generation))
    BY <2>1, <2>2 DEF NetworkInv
  <2> QED
    BY <2>1, <2>3, <2>4
<1> QED
  BY <1>1, <1>2

LEMMA QueryKeeps ==
    ASSUME DhtInv, NEW t \in Targets, Query(t)
    PROVE  DhtInv'
<1> DEFINE E == Era(generation)
           s == Closest(Range(bootTable), t, Alpha)
<1>1. /\ qpc = "idle" /\ target' = t /\ known' \in BOOLEAN /\ born' = generation
      /\ Proceed(s, {}, <<>>, 0)
      /\ netVars' = netVars /\ path' = path /\ hops' = hops
  BY DEF Query
<1>2. generation \in {0, 1} /\ Range(bootTable) \in SUBSET E /\ E \in SUBSET Ids
  BY DhtConstants, RangeOfSeq DEF DhtInv, NetworkInv
<1>3. Alpha \in Nat \ {0} /\ MaxHops \in Nat \ {0}
  BY DhtConstants
<1>4. s \in Seq(E) /\ Len(s) <= Alpha /\ Len(s) \in Nat
  <2>1. s \in Seq(Range(bootTable)) /\ Len(s) <= Alpha
    BY <1>2, <1>3, ClosestFacts
  <2> HIDE DEF s, E
  <2> QED
    BY <1>2, <2>1, SeqMonotonic, LenProperties
<1>5. <<>> \in Seq(E)
  BY EmptySeq
<1> HIDE DEF s
<1>6. \E room \in Nat : room <= Alpha /\ MovesOn(E, {}, room)
  <2> HIDE DEF E
  <2>1. {} \in SUBSET E
    OBVIOUS
  <2>2. \/ MovesOn(E, {}, Len(s))
        \/ 0 < MaxHops /\ MovesOn(E, {}, Alpha)
    BY <1>1, <1>4, <1>5, <2>1, ProceedFacts
  <2> QED
    BY <1>3, <1>4, <2>2
<1>7. PICK room \in Nat : room <= Alpha /\ MovesOn(E, {}, room)
  BY <1>6
<1>8. table' \in Seq(E)
  BY <1>2, <1>7, MoveStays DEF DhtInv
<1>9. /\ path = <<>> /\ hops = 0 /\ Range(<<>>) = {} /\ Len(<<>>) = 0
      /\ path \in Seq(E)
  BY <1>1, <1>5 DEF DhtInv, LookupInv, Range
<1>10. NetworkInv'
  BY <1>1 DEF DhtInv, NetworkInv, netVars
<1>11. LookupInv'
  <2>1. generation' = generation
    BY <1>1 DEF netVars
  <2>2. IsInjective(<<>>)
    BY DEF IsInjective
  <2> QED
    BY <1>1, <1>2, <1>3, <1>7, <1>8, <1>9, <2>1, <2>2 DEF LookupInv, MovesOn, Outcomes
<1>12. AsleepInv'
  <2>1. generation' = generation
    BY <1>1 DEF netVars
  <2>2. pending' \in Seq(E) /\ Len(pending') \in Nat
    BY <1>7, LenProperties DEF MovesOn
  <2> QED
    BY <1>1, <1>2, <1>3, <1>7, <1>9, <2>1, <2>2 DEF AsleepInv, MovesOn
<1> QED
  BY <1>10, <1>11, <1>12 DEF DhtInv

\* A new peer at the end of a path.
LEMMA PathFacts ==
    ASSUME NEW E, NEW s \in Seq(E), IsInjective(s), NEW p \in E, p \notin Range(s)
    PROVE  /\ Append(s, p) \in Seq(E) /\ IsInjective(Append(s, p))
           /\ Range(Append(s, p)) = Range(s) \cup {p}
           /\ Len(Append(s, p)) = Len(s) + 1
<1> DEFINE n == Len(s)
           a == Append(s, p)
<1>1. n \in Nat /\ DOMAIN s = 1 .. n
  BY LenProperties
<1>2. /\ a \in Seq(E) /\ Len(a) = n + 1 /\ a[n + 1] = p
      /\ \A i \in 1 .. n : a[i] = s[i]
  BY AppendProperties
<1>3. DOMAIN a = 1 .. n + 1
  BY <1>2, LenProperties
<1> HIDE DEF a, n
<1>4. 1 .. n + 1 = (1 .. n) \cup {n + 1} /\ n + 1 \notin 1 .. n
  BY <1>1
<1>5. Range(a) = Range(s) \cup {p}
  BY <1>1, <1>2, <1>3, <1>4 DEF Range
<1>6. \A i \in 1 .. n : s[i] # p
  BY <1>1 DEF Range
<1>7. IsInjective(a)
  BY <1>1, <1>2, <1>3, <1>4, <1>6 DEF IsInjective
<1> QED
  BY <1>2, <1>5, <1>7 DEF a, n

LEMMA HopKeeps == DhtInv /\ Hop => DhtInv'
<1> SUFFICES ASSUME DhtInv, Hop PROVE DhtInv'
  OBVIOUS
<1> DEFINE E == Era(born)
           p2 == Append(path, at)
           m == Len(pending)
<1>1. /\ qpc = "asleep" /\ hops' = hops + 1 /\ path' = p2
      /\ netVars' = netVars /\ target' = target /\ known' = known /\ born' = born
  BY DEF Hop
<1>2. /\ at \in visited \ Range(path) /\ target \in Targets
      /\ hops + 1 + m <= MaxHops + Alpha - 1 /\ m < Alpha
      /\ generation = 0 => born = 0
  BY <1>1 DEF DhtInv, AsleepInv
<1>3. /\ born \in {0, 1} /\ visited \in SUBSET E /\ path \in Seq(E)
      /\ IsInjective(path) /\ Range(path) \subseteq visited /\ hops = Len(path)
      /\ table \in Seq(E) /\ pending \in Seq(E) /\ named \in Seq(E)
      /\ known \in BOOLEAN
  BY DEF DhtInv, LookupInv
<1>4. Alpha \in Nat \ {0} /\ MaxHops \in Nat \ {0} /\ E \in SUBSET Ids
  BY DhtConstants
<1> HIDE DEF E
<1>5. m \in Nat /\ hops \in Nat
  BY <1>3, LenProperties
<1>6. /\ p2 \in Seq(E) /\ IsInjective(p2) /\ Range(p2) = Range(path) \cup {at}
      /\ Len(p2) = hops + 1
  BY <1>2, <1>3, PathFacts
<1> HIDE DEF m, p2
<1>7. NetworkInv'
  BY <1>1 DEF DhtInv, NetworkInv, netVars
<1>8. generation' = generation
  BY <1>1 DEF netVars
<1>9. /\ hops' = Len(path') /\ hops' <= MaxHops + Alpha - 1
      /\ path' \in Seq(E) /\ IsInjective(path') /\ Range(path') \subseteq visited
  BY <1>1, <1>2, <1>3, <1>4, <1>5, <1>6
<1>10. CASE Hit /\ End("found", visited)
  <2>1. /\ qpc' = "found" /\ visited' = visited /\ at' = None
        /\ table' = <<>> /\ pending' = <<>> /\ named' = <<>> /\ target \in visited
        /\ <<>> \in Seq(E) /\ Len(<<>>) = 0
    BY <1>2, <1>10, EmptySeq DEF End, Hit
  <2>2. LookupInv'
    BY <1>1, <1>2, <1>3, <1>9, <2>1 DEF LookupInv, Outcomes, E
  <2>3. AsleepInv'
    BY <1>4, <2>1 DEF AsleepInv
  <2> QED
    BY <1>7, <2>2, <2>3 DEF DhtInv
<1>11. CASE Proceed(pending, visited, named \o Closest(Range(table), target, Alpha), hops + 1)
  <2> DEFINE names == named \o Closest(Range(table), target, Alpha)
  <2>1. names \in Seq(E)
    <3>1. Range(table) \in SUBSET E
      BY <1>3, RangeOfSeq
    <3>2. Closest(Range(table), target, Alpha) \in Seq(Range(table))
      BY <1>2, <1>4, <3>1, ClosestFacts
    <3>3. Closest(Range(table), target, Alpha) \in Seq(E)
      BY <3>1, <3>2, SeqMonotonic
    <3> QED
      BY <1>3, <3>3, ConcatProperties
  <2> HIDE DEF names
  <2>2. \/ MovesOn(E, visited, Len(pending))
        \/ hops + 1 < MaxHops /\ MovesOn(E, visited, Alpha)
    <3>1. Proceed(pending, visited, names, hops + 1)
      BY <1>11 DEF names
    <3> QED
      BY <1>3, <2>1, <3>1, ProceedFacts
  <2>3. PICK room \in Nat : /\ MovesOn(E, visited, room) /\ room <= Alpha
                            /\ hops + 1 + room <= MaxHops + Alpha - 1
    BY <1>2, <1>4, <1>5, <2>2 DEF m
  <2>4. table' \in Seq(E) /\ (qpc' = "asleep" => born = generation)
    BY <1>3, <2>3, MoveStays DEF DhtInv, E
  <2>5. pending' \in Seq(E) /\ Len(pending') \in Nat
    BY <2>3, LenProperties DEF MovesOn
  <2>6. LookupInv'
    BY <1>1, <1>2, <1>3, <1>9, <2>3, <2>4 DEF LookupInv, MovesOn, Outcomes, E
  <2>7. qpc' = "asleep" => at' \notin Range(path')
    BY <1>1, <1>2, <1>3, <1>6, <2>3 DEF MovesOn
  <2>8. Len(pending') < Alpha
    <3>1. Len(<<>>) = 0
      BY EmptySeq
    <3> QED
      BY <1>4, <2>3, <2>5, <3>1 DEF MovesOn
  <2>9. qpc' = "asleep" => hops' + 1 + Len(pending') <= MaxHops + Alpha - 1
    BY <1>1, <1>4, <1>5, <2>3, <2>5 DEF MovesOn
  <2>10. AsleepInv'
    BY <1>1, <1>2, <1>8, <2>3, <2>7, <2>8, <2>9 DEF AsleepInv, MovesOn
  <2> QED
    BY <1>7, <2>6, <2>10 DEF DhtInv
<1> QED
  BY <1>10, <1>11 DEF Hop

LEMMA CancelledKeeps == DhtInv /\ Cancelled => DhtInv'
<1> SUFFICES ASSUME DhtInv, Cancelled PROVE DhtInv'
  OBVIOUS
<1>1. /\ qpc' = "cancelled" /\ visited' = visited /\ at' = None
      /\ table' = <<>> /\ pending' = <<>> /\ named' = <<>>
      /\ netVars' = netVars /\ target' = target /\ known' = known /\ born' = born
      /\ path' = path /\ hops' = hops
  BY DEF Cancelled, End
<1>2. <<>> \in Seq(Era(born)) /\ Len(<<>>) = 0 /\ Alpha \in Nat \ {0}
  BY EmptySeq, DhtConstants
<1>3. NetworkInv'
  BY <1>1 DEF DhtInv, NetworkInv, netVars
<1>4. LookupInv'
  BY <1>1, <1>2 DEF DhtInv, LookupInv, Outcomes
<1>5. AsleepInv'
  BY <1>1, <1>2 DEF AsleepInv
<1> QED
  BY <1>3, <1>4, <1>5 DEF DhtInv
-----------------------------------------------------------------------------
\* A change of the network leaves the lookup as it is.
LEMMA LookupStays ==
    ASSUME LookupInv, UNCHANGED queryVars
    PROVE  LookupInv'
<1>1. /\ qpc' = qpc /\ born' = born /\ target' = target /\ known' = known
      /\ visited' = visited /\ path' = path /\ hops' = hops
      /\ table' = table /\ pending' = pending /\ named' = named
  BY DEF queryVars
<1> QED
  BY <1>1 DEF LookupInv

LEMMA AsleepStays ==
    ASSUME AsleepInv, UNCHANGED queryVars, generation' = generation \/ generation' = 1
    PROVE  AsleepInv'
<1>1. /\ qpc' = qpc /\ at' = at /\ born' = born /\ target' = target
      /\ visited' = visited /\ path' = path /\ hops' = hops /\ pending' = pending
  BY DEF queryVars
<1> QED
  BY <1>1 DEF AsleepInv

LEMMA ChurnFacts ==
    ASSUME NetworkInv, Churn
    PROVE  churn' \in 0 .. MaxChurn
<1>1. churn \in 0 .. MaxChurn /\ MaxChurn \in Nat
  BY DhtConstants DEF NetworkInv
<1> QED
  BY <1>1 DEF Churn

LEMMA TogglePeerKeeps == \A p : DhtInv /\ TogglePeer(p) => DhtInv'
<1> SUFFICES ASSUME NEW p, DhtInv, TogglePeer(p) PROVE DhtInv'
  OBVIOUS
<1>1. /\ Churn /\ p \in DOMAIN nodes
      /\ nodes' = [nodes EXCEPT ![p].online = ~@]
      /\ bootTable' = bootTable /\ generation' = generation /\ UNCHANGED queryVars
  BY DEF TogglePeer
<1>2. DOMAIN nodes' = DOMAIN nodes
  BY <1>1
<1>3. \A o \in DOMAIN nodes : /\ nodes'[o] \in [online : BOOLEAN, table : Seq(Ids)]
                            /\ nodes'[o].table = nodes[o].table
  <2> SUFFICES ASSUME NEW o \in DOMAIN nodes
               PROVE  /\ nodes'[o] \in [online : BOOLEAN, table : Seq(Ids)]
                      /\ nodes'[o].table = nodes[o].table
    OBVIOUS
  <2> DEFINE T == Seq(Ids)
  <2>1. nodes[o] \in [online : BOOLEAN, table : T]
    BY DEF DhtInv, NetworkInv
  <2> HIDE DEF T
  <2>2. nodes'[o] \in [online : BOOLEAN, table : T] /\ nodes'[o].table = nodes[o].table
    BY <1>1, <2>1
  <2> QED
    BY <2>2 DEF T
<1>4. NetworkInv'
  BY <1>1, <1>2, <1>3, ChurnFacts DEF DhtInv, NetworkInv
<1> QED
  BY <1>1, <1>4, LookupStays, AsleepStays DEF DhtInv

LEMMA RemovePeerKeeps == \A p : DhtInv /\ RemovePeer(p) => DhtInv'
<1> SUFFICES ASSUME NEW p, DhtInv, RemovePeer(p) PROVE DhtInv'
  OBVIOUS
<1>1. /\ Churn /\ nodes' = [o \in DOMAIN nodes \ {p} |-> nodes[o]]
      /\ bootTable' = bootTable /\ generation' = generation /\ UNCHANGED queryVars
  BY DEF RemovePeer
<1>2. /\ DOMAIN nodes' = DOMAIN nodes \ {p}
      /\ \A o \in DOMAIN nodes \ {p} : nodes'[o] = nodes[o]
  BY <1>1
<1>3. NetworkInv'
  BY <1>1, <1>2, ChurnFacts DEF DhtInv, NetworkInv
<1> QED
  BY <1>1, <1>3, LookupStays, AsleepStays DEF DhtInv

LEMMA AddPeerKeeps == \A p : DhtInv /\ AddPeer(p) => DhtInv'
<1> SUFFICES ASSUME NEW p, DhtInv, AddPeer(p) PROVE DhtInv'
  OBVIOUS
<1>1. /\ Churn /\ p \in Newcomers /\ nodes' = WithPeer(p)
      /\ bootTable' = bootTable /\ generation' = generation /\ UNCHANGED queryVars
  BY DEF AddPeer
<1>2. /\ DOMAIN nodes' = DOMAIN nodes \cup {p}
      /\ nodes'[p] = [online |-> TRUE, table |-> Closest(DOMAIN nodes, p, K)]
      /\ \A o \in DOMAIN nodes \ {p} : nodes'[o] = nodes[o]
  BY <1>1 DEF WithPeer
<1>3. Closest(DOMAIN nodes, p, K) \in Seq(Ids)
  <2>1. DOMAIN nodes \in SUBSET Ids /\ p \in Ids /\ K \in Nat
    BY <1>1, DhtConstants DEF DhtInv, NetworkInv, Ids
  <2>2. Closest(DOMAIN nodes, p, K) \in Seq(DOMAIN nodes)
    BY <2>1, ClosestFacts
  <2> QED
    BY <2>1, <2>2, SeqMonotonic
<1>4. nodes'[p] \in [online : BOOLEAN, table : Seq(Ids)]
  BY <1>2, <1>3
<1>5. NetworkInv'
  BY <1>1, <1>2, <1>4, ChurnFacts DEF DhtInv, NetworkInv
<1> QED
  BY <1>1, <1>5, LookupStays, AsleepStays DEF DhtInv

LEMMA SetScenarioKeeps == DhtInv /\ SetScenario => DhtInv'
<1> SUFFICES ASSUME DhtInv, SetScenario PROVE DhtInv'
  OBVIOUS
<1>1. Churn /\ generation' = 1 /\ Build(Rebuilt) /\ UNCHANGED queryVars
  BY DEF SetScenario
<1>2. PICK off \in SUBSET Rebuilt, boot \in Rebuilt :
          /\ nodes' = [p \in Rebuilt |->
                          [online |-> p \notin off, table |-> Tables(Rebuilt)[p]]]
          /\ bootTable' = Tables(Rebuilt)[boot]
  BY <1>1 DEF Build
<1>3. Rebuilt \in SUBSET Ids /\ Era(1) = Rebuilt
  BY DhtConstants DEF Ids
<1>4. \A p \in Rebuilt : Tables(Rebuilt)[p] \in Seq(Rebuilt) /\ Tables(Rebuilt)[p] \in Seq(Ids)
  BY <1>3, TablesFacts
<1>5. /\ DOMAIN nodes' = Rebuilt
      /\ \A p \in Rebuilt : /\ nodes'[p].online \in BOOLEAN
                            /\ nodes'[p].table = Tables(Rebuilt)[p]
  BY <1>2
<1>6. NetworkInv'
  BY <1>1, <1>2, <1>3, <1>4, <1>5, ChurnFacts DEF DhtInv, NetworkInv
<1> QED
  BY <1>1, <1>6, LookupStays, AsleepStays DEF DhtInv

LEMMA DhtInvStep == DhtInv /\ [Next]_vars => DhtInv'
<1> SUFFICES ASSUME DhtInv, [Next]_vars PROVE DhtInv'
  OBVIOUS
<1>1. CASE UNCHANGED vars
  <2>1. UNCHANGED queryVars /\ UNCHANGED netVars
    BY <1>1 DEF vars
  <2>2. NetworkInv'
    BY <2>1 DEF DhtInv, NetworkInv, netVars
  <2> QED
    BY <2>1, <2>2, LookupStays, AsleepStays DEF DhtInv, netVars
<1>2. CASE \E t \in Targets : Query(t)
  BY <1>2, QueryKeeps
<1>3. CASE Hop \/ Cancelled
  BY <1>3, HopKeeps, CancelledKeeps
<1>4. CASE \E p \in Ids : TogglePeer(p) \/ RemovePeer(p) \/ AddPeer(p)
  BY <1>4, TogglePeerKeeps, RemovePeerKeeps, AddPeerKeeps
<1>5. CASE SetScenario
  BY <1>5, SetScenarioKeeps
<1> QED
  BY <1>1, <1>2, <1>3, <1>4, <1>5 DEF Next, Rest

LEMMA DhtInvHolds == Spec => []DhtInv
<1> QED
  BY InitDht, DhtInvStep, PTL DEF Spec
-----------------------------------------------------------------------------
\* Every variable keeps to the values the code gives it.
THEOREM DhtTyped == Spec => []DhtTypeOK
<1>1. DhtInv => DhtTypeOK
  <2> SUFFICES ASSUME DhtInv PROVE DhtTypeOK
    OBVIOUS
  <2>1. /\ Era(born) \in SUBSET Ids /\ Era(generation) \in SUBSET Ids
        /\ Newcomers \subseteq Ids /\ None \notin Ids
    BY DhtConstants DEF Ids
  <2>2. /\ bootTable \in Seq(Ids) /\ table \in Seq(Ids) /\ pending \in Seq(Ids)
        /\ named \in Seq(Ids) /\ path \in Seq(Ids) /\ visited \in SUBSET Ids
    BY <2>1, SeqMonotonic DEF DhtInv, NetworkInv, LookupInv
  <2>3. DOMAIN nodes \subseteq Ids /\ generation \in 0 .. 1 /\ born \in 0 .. 1
    BY <2>1 DEF DhtInv, NetworkInv, LookupInv
  <2>4. hops \in Nat
    BY <2>2, LenProperties DEF DhtInv, LookupInv
  <2>5. at \in Ids \cup {None} /\ (at # None <=> qpc = "asleep")
    BY <2>1, <2>2 DEF DhtInv, AsleepInv
  <2> QED
    BY <2>2, <2>3, <2>4, <2>5 DEF DhtInv, NetworkInv, LookupInv, AsleepInv, DhtTypeOK
<1> QED
  BY <1>1, DhtInvHolds, PTL

\* Churn cannot send a lookup in circles: no peer is contacted twice, and the path
\* it reports (query's path and hops) has one entry for each hop.
THEOREM PathNeverRepeats == Spec => []NoPeerTwice
<1>1. DhtInv => NoPeerTwice
  <2> SUFFICES ASSUME DhtInv PROVE NoPeerTwice
    OBVIOUS
  <2>1. Range(path) \subseteq Ids /\ None \notin Ids
    BY DhtConstants DEF DhtInv, LookupInv
  <2>2. at \notin Range(path)
    BY <2>1 DEF DhtInv, AsleepInv
  <2> QED
    BY <2>2 DEF DhtInv, LookupInv, NoPeerTwice
<1> QED
  BY <1>1, DhtInvHolds, PTL

\* max_hops, looked at between rounds, is exceeded by the rest of a round at most.
THEOREM BudgetAlwaysHolds == Spec => []BudgetHolds
<1>1. DhtInv => BudgetHolds
  BY DEF DhtInv, LookupInv, BudgetHolds
<1> QED
  BY <1>1, DhtInvHolds, PTL

\* add_peer writes the newcomer's own table and no other: nobody who is asked ever
\* names a newcomer, and a lookup for one does not find it.
THEOREM NewcomersStayUnknown == Spec => []AddedPeersStayUnknown
<1>1. DhtInv => AddedPeersStayUnknown
  <2> SUFFICES ASSUME DhtInv PROVE AddedPeersStayUnknown
    OBVIOUS
  <2>1. Era(born) \cap Newcomers = {} /\ Era(generation) \cap Newcomers = {}
    BY DhtConstants
  <2>2. \A p \in DOMAIN nodes \ Newcomers : Range(nodes[p].table) \subseteq Era(generation)
    BY RangeOfSeq DEF DhtInv, NetworkInv
  <2> QED
    BY <2>1, <2>2 DEF DhtInv, LookupInv, AddedPeersStayUnknown
<1> QED
  BY <1>1, DhtInvHolds, PTL

\* After a rebuild (set_scenario) a lookup in flight contacts nobody new: whom it
\* has heard of is gone, and nobody of the new network has the id of an old peer.
THEOREM LookupsEndWithNetwork == Spec => LookupsEndWithTheirNetwork
<1>1. DhtInv /\ [Next]_vars => [NobodyElseToAsk]_vars
  <2> SUFFICES ASSUME DhtInv, Next, qpc = "asleep", born # generation
               PROVE  at' \in {at, None}
    BY DEF NobodyElseToAsk
  <2>1. CASE Hop
    <3> DEFINE names == named \o Closest(Range(table), target, Alpha)
               E == Era(born)
    <3>1. CASE End("found", visited)
      BY <3>1 DEF End
    <3>2. CASE Proceed(pending, visited, names, hops + 1)
      <4>1. /\ visited \in SUBSET E /\ pending \in Seq(E) /\ named \in Seq(E)
            /\ table \in Seq(E) /\ target \in Targets /\ born \in {0, 1}
        BY DEF DhtInv, LookupInv, AsleepInv
      <4>2. E \in SUBSET Ids /\ Alpha \in Nat
        BY DhtConstants
      <4> HIDE DEF E
      <4>3. Range(table) \in SUBSET E
        BY <4>1, RangeOfSeq
      <4>4. Closest(Range(table), target, Alpha) \in Seq(Range(table))
        BY <4>1, <4>2, <4>3, ClosestFacts
      <4>5. Closest(Range(table), target, Alpha) \in Seq(E)
        BY <4>3, <4>4, SeqMonotonic
      <4>6. names \in Seq(E)
        BY <4>1, <4>5, ConcatProperties
      <4> HIDE DEF names
      <4>7. PICK room : MovesOn(E, visited, room)
        BY <3>2, <4>1, <4>6, ProceedFacts
      <4>8. qpc' # "asleep"
        BY <4>1, <4>7, MoveStays DEF DhtInv, E
      <4> QED
        BY <4>7, <4>8 DEF MovesOn
    <3> QED
      BY <2>1, <3>1, <3>2 DEF Hop
  <2>2. CASE Cancelled
    BY <2>2 DEF Cancelled, End
  <2>3. CASE UNCHANGED queryVars
    BY <2>3 DEF queryVars
  <2> QED
    BY <2>1, <2>2, <2>3
    DEF Next, Query, TogglePeer, RemovePeer, AddPeer, SetScenario, Rest, vars
<1> QED
  BY <1>1, DhtInvHolds, PTL DEF Spec, LookupsEndWithTheirNetwork
=============================================================================
