--------------------------- MODULE TelemetryProofs ---------------------------
(* Safety of the broadcast path, for any number of clients, snapshots and      *)
(* settings and any size of the channel.  The roster, the round under way and  *)
(* the numbers of the snapshots between their source and a client's socket     *)
(* are each held together by an invariant of their own.                        *)
EXTENDS Telemetry, FiniteSetTheorems, SequenceTheorems, TLAPS

\* The snapshots a client may still get, or got, that are older than its greeting.
Older(c) == {n \in (Range(got[c]) \cup Range(chan) \cup {cur}) \ {0} : n < greet[c]}

Rising(s) == \A i, j \in DOMAIN s : i < j => s[i] < s[j]

\* The types the steps need; the bounds of TelemetryTypeOK follow from them.
Typed ==
    /\ settings \in Nat /\ shown \in [Clients -> Nat]
    /\ taken \in Seq([kind : {"tick", "emit", "greet"}, settings : Nat])
    /\ chan \in Seq(Nat) /\ Len(chan) <= ChanSize
    /\ bpc \in {"idle", "got", "send"} /\ cur \in Nat
    /\ round \in Seq(Clients) /\ pos \in Nat /\ (bpc = "send" => pos \in 1 .. Len(round))
    /\ roster \in Seq(Clients)
    /\ dead \subseteq Clients /\ gone \subseteq Clients
    /\ cpc \in [Clients -> {"new", "greeting", "open", "closed"}]
    /\ greet \in [Clients -> Nat] /\ got \in [Clients -> Seq(Nat)]

\* Who is struck off has lost the connection or has left, and does not come back.
RosterInv ==
    /\ RosterIsRight
    /\ IsInjective(round)
    /\ \A c \in Range(round) \cup gone : cpc[c] # "new"
    /\ \A c \in dead : c \in gone \/ cpc[c] = "closed"

\* Each client that was served in this round got the snapshot, or is gone or dead.
RoundInv ==
    bpc = "send" => \A k \in 1 .. pos - 1 :
        \/ round[k] \in dead \cup gone
        \/ cur \in Range(got[round[k]])

\* Snapshots are queued and sent in the order of their numbers, each once.
QueueInv ==
    /\ Rising(chan)
    /\ \A k \in DOMAIN chan : cur < chan[k] /\ chan[k] <= Len(taken)
    /\ cur <= Len(taken)
    /\ bpc = "idle" <=> cur = 0
    /\ bpc = "idle" => chan = <<>>

FrameClient(c) ==
    /\ Rising(got[c]) /\ 0 \notin Range(got[c])
    /\ \A i \in DOMAIN got[c] : got[c][i] <= Len(taken)
    /\ bpc # "idle" => \A i \in DOMAIN got[c] : got[c][i] <= cur
    /\ bpc # "idle" /\ cur \in Range(got[c]) =>
          bpc = "send" /\ \E k \in 1 .. pos - 1 : round[k] = c
    /\ greet[c] <= Len(taken)
    /\ cpc[c] = "new" => greet[c] = 0 /\ got[c] = <<>>
    /\ Cardinality(Older(c)) <= ChanSize + 1
FrameInv == \A c \in Clients : FrameClient(c)

\* No client was shown settings that are not in force yet.
ShownInv == \A c \in Clients : shown[c] <= settings

Core == Typed /\ RosterInv /\ RoundInv /\ QueueInv /\ FrameInv /\ ShownInv

\* The bounds of the model; outside a round the place in it is 0.
Bounded ==
    /\ settings <= MaxPosts /\ Len(taken) <= MaxSnapshots
    /\ \A i \in DOMAIN taken : taken[i].settings <= MaxPosts
    /\ bpc # "send" => pos = 0

TelemetryInv == Core /\ HistoryMissesNoTick /\ Bounded
-----------------------------------------------------------------------------
(* Lists of clients and of snapshots *)

\* A number up to n is the rank of exactly one of n numbers.
LEMMA RankFacts ==
    ASSUME NEW K \in SUBSET Nat, IsFiniteSet(K)
    PROVE  LET Rank(i) == Cardinality({j \in K : j <= i})
           IN  /\ Cardinality(K) \in Nat
               /\ \A i \in K : Rank(i) \in 1 .. Cardinality(K)
               /\ \A i, j \in K : i < j => Rank(i) < Rank(j)
               /\ \A k \in 1 .. Cardinality(K) : \E i \in K : Rank(i) = k
<1> DEFINE Upto(i) == {j \in K : j <= i}
           Rank(i) == Cardinality(Upto(i))
           n == Cardinality(K)
           r == [i \in K |-> Rank(i)]
<1>0. n \in Nat
  BY FS_CardinalityType
<1>1. \A i \in K : IsFiniteSet(Upto(i)) /\ Rank(i) \in Nat /\ Rank(i) <= n
  BY FS_Subset, FS_CardinalityType
<1>2. \A i \in K : Rank(i) \in 1 .. n
  <2> SUFFICES ASSUME NEW i \in K PROVE Rank(i) \in 1 .. n
    OBVIOUS
  <2>1. i \in Upto(i)
    OBVIOUS
  <2>2. IsFiniteSet(Upto(i)) /\ Rank(i) \in Nat /\ Rank(i) <= n
    BY <1>1
  <2> HIDE DEF Upto
  <2>3. Rank(i) # 0
    BY <2>1, <2>2, FS_EmptySet
  <2> HIDE DEF n
  <2>4. \A x \in Nat : x # 0 /\ x <= n => x \in 1 .. n
    BY <1>0
  <2> QED
    BY <2>2, <2>3, <2>4
<1>3. ASSUME NEW i \in K, NEW j \in K, i < j PROVE Rank(i) < Rank(j)
  <2>0. i \in Nat /\ j \in Nat /\ \A x \in K : x \in Nat
    OBVIOUS
  <2>1. Upto(i) \cup {j} \subseteq Upto(j) /\ j \notin Upto(i)
    <3>1. \A x \in K : x <= i => x <= j
      BY <1>3, <2>0
    <3>2. j <= j /\ ~(j <= i)
      BY <1>3, <2>0
    <3> QED
      BY <3>1, <3>2
  <2>2. /\ Cardinality(Upto(i) \cup {j}) = Rank(i) + 1
        /\ Cardinality(Upto(i) \cup {j}) <= Rank(j)
    BY <1>1, <2>1, FS_AddElement, FS_Subset
  <2> HIDE DEF Rank, Upto
  <2> QED
    BY <1>1, <2>2
<1>4. r \in Injection(K, 1 .. n)
  <2>1. \A i, j \in K : Rank(i) = Rank(j) => i = j
    <3> SUFFICES ASSUME NEW i \in K, NEW j \in K, Rank(i) = Rank(j) PROVE i = j
      OBVIOUS
    <3>1. ~(i < j) /\ ~(j < i)
      <4>1. Rank(i) \in Nat /\ Rank(j) \in Nat
        BY <1>1
      <4>2. (i < j => Rank(i) < Rank(j)) /\ (j < i => Rank(j) < Rank(i))
        BY <1>3
      <4> HIDE DEF Rank
      <4> QED
        BY <4>1, <4>2
    <3> QED
      BY <3>1
  <2> HIDE DEF Rank, n
  <2> QED
    BY <1>2, <2>1 DEF Injection, IsInjective
<1>5. r \in Surjection(K, 1 .. n)
  <2>1. IsFiniteSet(1 .. n) /\ Cardinality(1 .. n) = n
    BY <1>0, FS_Interval
  <2> HIDE DEF r
  <2> QED
    BY <1>4, <2>1, FS_Injection
<1>6. \A k \in 1 .. n : \E i \in K : Rank(i) = k
  <2> HIDE DEF Rank, n
  <2> QED
    BY <1>5 DEF Surjection
<1> QED
  BY <1>0, <1>2, <1>3, <1>6

\* Striking clients off a list leaves the others on it, each as often as before.
LEMMA WithoutFacts ==
    ASSUME NEW S, NEW s \in Seq(S), NEW D
    PROVE  /\ Without(s, D) \in Seq(S)
           /\ Range(Without(s, D)) = Range(s) \ D
           /\ IsInjective(s) => IsInjective(Without(s, D))
<1> DEFINE kept == {i \in DOMAIN s : s[i] \notin D}
           Upto(i) == Cardinality({j \in kept : j <= i})
           n == Cardinality(kept)
           At(k) == CHOOSE i \in kept : Upto(i) = k
           w == Without(s, D)
<1>1. /\ Len(s) \in Nat /\ DOMAIN s = 1 .. Len(s)
      /\ \A i \in DOMAIN s : s[i] \in S
  BY LenProperties, ElementOfSeq
<1>2. kept \in SUBSET Nat /\ IsFiniteSet(kept)
  <2>1. IsFiniteSet(1 .. Len(s)) /\ kept \subseteq 1 .. Len(s)
    BY <1>1, FS_Interval
  <2> QED
    BY <2>1, FS_Subset
<1>3. /\ n \in Nat
      /\ \A i \in kept : Upto(i) \in 1 .. n
      /\ \A i, j \in kept : i < j => Upto(i) < Upto(j)
      /\ \A k \in 1 .. n : \E i \in kept : Upto(i) = k
  <2> HIDE DEF kept
  <2> QED
    BY <1>2, RankFacts
<1>4. w = [k \in 1 .. n |-> s[At(k)]]
  BY Zenon DEF Without
<1> HIDE DEF Upto, n, w
<1>5. \A k \in 1 .. n : At(k) \in kept /\ Upto(At(k)) = k
  BY <1>3
<1>6. \A i, j \in kept : Upto(i) = Upto(j) => i = j
  BY <1>2, <1>3
<1>7. \A i \in kept : Upto(i) \in 1 .. n /\ At(Upto(i)) = i
  BY <1>3, <1>5, <1>6
<1> HIDE DEF At
<1>8. w \in Seq(S) /\ DOMAIN w = 1 .. n
  <2>1. \A k \in 1 .. n : s[At(k)] \in S
    BY <1>1, <1>5
  <2>2. w \in [1 .. n -> S]
    BY <1>4, <2>1
  <2> QED
    BY <1>3, <2>2, SeqDef
<1>9. Range(w) = Range(s) \ D
  <2>1. \A k \in 1 .. n : w[k] = s[At(k)] /\ s[At(k)] \in Range(s) \ D
    BY <1>4, <1>5 DEF Range
  <2>2. ASSUME NEW x \in Range(s) \ D PROVE x \in Range(w)
    <3>1. PICK i \in kept : s[i] = x
      BY DEF Range
    <3>2. Upto(i) \in 1 .. n /\ w[Upto(i)] = x
      BY <1>4, <1>7, <3>1
    <3> QED
      BY <1>8, <3>2 DEF Range
  <2> QED
    BY <1>8, <2>1, <2>2 DEF Range
<1>10. ASSUME IsInjective(s) PROVE IsInjective(w)
  <2>1. ASSUME NEW k \in 1 .. n, NEW m \in 1 .. n, w[k] = w[m] PROVE k = m
    <3>1. At(k) = At(m)
      BY <1>4, <1>5, <1>10, <2>1 DEF IsInjective
    <3> QED
      BY <1>5, <3>1
  <2> QED
    BY <1>8, <2>1 DEF IsInjective
<1> QED
  BY <1>8, <1>9, <1>10 DEF w

LEMMA AppendFacts ==
    ASSUME NEW S, NEW s \in Seq(S), NEW e \in S
    PROVE  /\ Append(s, e) \in Seq(S)
           /\ Len(s) \in Nat /\ Len(Append(s, e)) = Len(s) + 1
           /\ DOMAIN s = 1 .. Len(s)
           /\ DOMAIN Append(s, e) = 1 .. Len(s) + 1
           /\ \A i \in 1 .. Len(s) : Append(s, e)[i] = s[i]
           /\ Append(s, e)[Len(s) + 1] = e
           /\ Range(Append(s, e)) = Range(s) \cup {e}
<1> DEFINE a == Append(s, e)
           n == Len(s)
<1>1. /\ n \in Nat /\ DOMAIN s = 1 .. n
      /\ a \in Seq(S) /\ Len(a) = n + 1
      /\ \A i \in 1 .. n : a[i] = s[i]
      /\ a[n + 1] = e
  BY LenProperties, AppendProperties
<1>2. DOMAIN a = 1 .. n + 1
  BY <1>1, LenProperties
<1> HIDE DEF a, n
<1>3. 1 .. n + 1 = (1 .. n) \cup {n + 1}
  BY <1>1
<1>4. Range(a) = {a[i] : i \in 1 .. n + 1} /\ Range(s) = {s[i] : i \in 1 .. n}
  BY <1>1, <1>2 DEF Range
<1>5. Range(a) = Range(s) \cup {e}
  <2>1. \A i \in 1 .. n + 1 : a[i] \in Range(s) \cup {e}
    BY <1>1, <1>3, <1>4
  <2>2. \A i \in 1 .. n : s[i] \in Range(a)
    BY <1>1, <1>3, <1>4
  <2>3. e \in Range(a)
    BY <1>1, <1>3, <1>4
  <2> QED
    BY <1>4, <2>1, <2>2, <2>3
<1> QED
  BY <1>1, <1>2, <1>5 DEF a, n

\* A number above all of a rising list goes at its end.
LEMMA RisingAppend ==
    ASSUME NEW s \in Seq(Nat), NEW e \in Nat, Rising(s), \A i \in 1 .. Len(s) : s[i] < e
    PROVE  Rising(Append(s, e))
<1> DEFINE a == Append(s, e)
           n == Len(s)
<1>1. /\ n \in Nat /\ DOMAIN s = 1 .. n /\ DOMAIN a = 1 .. n + 1
      /\ \A i \in 1 .. n : a[i] = s[i]
      /\ a[n + 1] = e
  BY AppendFacts
<1> HIDE DEF a, n
<1>2. \A i, j \in 1 .. n + 1 : i < j => i \in 1 .. n /\ (j = n + 1 \/ j \in 1 .. n)
  BY <1>1
<1>3. ASSUME NEW i \in 1 .. n + 1, NEW j \in 1 .. n + 1, i < j PROVE a[i] < a[j]
  <2>1. i \in 1 .. n /\ (j = n + 1 \/ j \in 1 .. n)
    BY <1>2, <1>3
  <2>2. CASE j = n + 1
    BY <1>1, <2>1, <2>2 DEF n
  <2>3. CASE j \in 1 .. n
    BY <1>1, <1>3, <2>1, <2>3 DEF Rising
  <2> QED
    BY <2>1, <2>2, <2>3
<1>4. Rising(a)
  BY <1>1, <1>3 DEF Rising
<1> QED
  BY <1>4 DEF a

LEMMA TailFacts ==
    ASSUME NEW S, NEW s \in Seq(S), s # <<>>
    PROVE  /\ Tail(s) \in Seq(S) /\ Head(s) = s[1] /\ s[1] \in S
           /\ Len(s) \in Nat \ {0} /\ DOMAIN s = 1 .. Len(s)
           /\ Len(Tail(s)) = Len(s) - 1 /\ DOMAIN Tail(s) = 1 .. Len(s) - 1
           /\ \A i \in 1 .. Len(s) - 1 : Tail(s)[i] = s[i + 1]
<1>1. /\ Tail(s) \in Seq(S) /\ Len(Tail(s)) = Len(s) - 1
      /\ \A i \in 1 .. Len(Tail(s)) : Tail(s)[i] = s[i+1]
  BY HeadTailProperties
<1>2. Len(s) \in Nat \ {0} /\ DOMAIN s = 1 .. Len(s)
  BY EmptySeq, LenProperties
<1>3. DOMAIN Tail(s) = 1 .. Len(s) - 1
  BY <1>1, LenProperties
<1>4. s[1] \in S /\ Head(s) = s[1]
  BY <1>2, ElementOfSeq
<1> QED
  BY <1>1, <1>2, <1>3, <1>4
-----------------------------------------------------------------------------
(* What the parts of an action do *)

\* The channel's elements, the snapshot in hand and a client's frames are numbers.
LEMMA NumberFacts ==
    ASSUME Typed
    PROVE  /\ Len(taken) \in Nat /\ Len(chan) \in Nat /\ DOMAIN chan = 1 .. Len(chan)
           /\ \A k \in DOMAIN chan : chan[k] \in Nat
           /\ Range(chan) \subseteq Nat
           /\ \A c \in Clients : /\ DOMAIN got[c] = 1 .. Len(got[c]) /\ Len(got[c]) \in Nat
                                 /\ \A i \in DOMAIN got[c] : got[c][i] \in Nat
                                 /\ Range(got[c]) \subseteq Nat
<1>1. Len(taken) \in Nat
  BY LenProperties DEF Typed
<1>2. /\ Len(chan) \in Nat /\ DOMAIN chan = 1 .. Len(chan)
      /\ \A k \in DOMAIN chan : chan[k] \in Nat
  BY LenProperties, ElementOfSeq DEF Typed
<1>3. ASSUME NEW c \in Clients
      PROVE  /\ DOMAIN got[c] = 1 .. Len(got[c]) /\ Len(got[c]) \in Nat
             /\ \A i \in DOMAIN got[c] : got[c][i] \in Nat
  <2>1. got[c] \in Seq(Nat)
    BY DEF Typed
  <2> QED
    BY <2>1, LenProperties, ElementOfSeq
<1> QED
  BY <1>1, <1>2, <1>3 DEF Range

\* Nothing older than a greeting is added once the client is greeted.
LEMMA OlderShrinks ==
    ASSUME Typed, NEW c \in Clients,
           greet'[c] = greet[c], greet[c] <= Len(taken),
           \A n \in Range(got'[c]) \cup Range(chan') \cup {cur'} :
              \/ n \in Range(got[c]) \cup Range(chan) \cup {cur, 0}
              \/ n > Len(taken) /\ n \in Nat
    PROVE  Cardinality(Older(c)) <= ChanSize + 1 => Cardinality(Older(c)') <= ChanSize + 1
<1>1. greet[c] \in Nat /\ cur \in Nat
  BY DEF Typed
<1>2. Range(got[c]) \cup Range(chan) \cup {cur} \subseteq Nat /\ Len(taken) \in Nat
  BY <1>1, NumberFacts
<1>3. Older(c) \subseteq 0 .. greet[c]
  BY <1>1, <1>2 DEF Older
<1>4. IsFiniteSet(Older(c))
  <2>1. IsFiniteSet(0 .. greet[c])
    BY <1>1, FS_Interval
  <2> QED
    BY <1>3, <2>1, FS_Subset
<1>5. Older(c)' \subseteq Older(c)
  BY <1>1, <1>2 DEF Older
<1>6. /\ Cardinality(Older(c)) \in Nat /\ Cardinality(Older(c)') \in Nat
      /\ Cardinality(Older(c)') <= Cardinality(Older(c))
  BY <1>4, <1>5, FS_Subset, FS_CardinalityType
<1>7. ChanSize \in Nat
  BY TelemetryAssumption
<1> QED
  BY <1>6, <1>7

LEMMA TakeFacts ==
    ASSUME Typed, NEW kind \in {"tick", "emit", "greet"}, Take(kind)
    PROVE  /\ taken' \in Seq([kind : {"tick", "emit", "greet"}, settings : Nat])
           /\ Len(taken') = Fresh /\ Fresh = Len(taken) + 1 /\ Fresh \in Nat
           /\ DOMAIN taken = 1 .. Len(taken) /\ DOMAIN taken' = 1 .. Fresh
           /\ \A i \in DOMAIN taken : taken'[i] = taken[i]
           /\ taken'[Fresh].kind = kind
<1> DEFINE R == [kind : {"tick", "emit", "greet"}, settings : Nat]
           e == [kind |-> kind, settings |-> settings]
<1>1. e \in R /\ e.kind = kind /\ taken \in Seq(R) /\ taken' = Append(taken, e)
  BY DEF Typed, Take
<1> HIDE DEF e, R
<1>2. /\ taken' \in Seq(R) /\ Len(taken) \in Nat /\ Len(taken') = Len(taken) + 1
      /\ DOMAIN taken = 1 .. Len(taken) /\ DOMAIN taken' = 1 .. Len(taken) + 1
      /\ \A i \in 1 .. Len(taken) : taken'[i] = taken[i]
      /\ taken'[Len(taken) + 1] = e
  BY <1>1, AppendFacts
<1> QED
  BY <1>1, <1>2 DEF Fresh, R

\* The next snapshot is newer than the one in hand, and nothing else is new.
LEMMA ReceiveFacts ==
    ASSUME Typed, QueueInv, bpc # "idle", Receive, taken' = taken
    PROVE  /\ chan' \in Seq(Nat) /\ Len(chan') <= ChanSize
           /\ bpc' \in {"idle", "got"} /\ cur' \in Nat
           /\ round' = <<>> /\ pos' = 0 /\ dead' = {}
           /\ QueueInv'
           /\ bpc' # "idle" => cur < cur'
           /\ Range(chan') \cup {cur'} \subseteq Range(chan) \cup {0}
<1>0. /\ chan \in Seq(Nat) /\ Len(chan) <= ChanSize /\ cur \in Nat
      /\ ChanSize \in Nat /\ Len(taken) \in Nat /\ Len(chan) \in Nat
  BY TelemetryAssumption, NumberFacts DEF Typed
<1>1. CASE chan = <<>>
  <2>1. bpc' = "idle" /\ cur' = 0 /\ chan' = chan /\ Len(chan) = 0 /\ DOMAIN chan = {}
    BY <1>1, EmptySeq DEF Receive, NextOf
  <2> QED
    BY <1>0, <1>1, <2>1 DEF Receive, QueueInv, Rising
<1>2. CASE chan # <<>>
  <2>1. bpc' = "got" /\ cur' = Head(chan) /\ chan' = Tail(chan)
    BY <1>2 DEF Receive, NextOf
  <2> DEFINE n == Len(chan)
  <2>2. /\ chan' \in Seq(Nat) /\ cur' = chan[1] /\ chan[1] \in Nat
        /\ n \in Nat \ {0} /\ DOMAIN chan = 1 .. n
        /\ Len(chan') = n - 1 /\ DOMAIN chan' = 1 .. n - 1
        /\ \A i \in 1 .. n - 1 : chan'[i] = chan[i + 1]
    BY <1>0, <1>2, <2>1, TailFacts
  <2>3. /\ \A k \in 1 .. n : cur < chan[k] /\ chan[k] <= Len(taken) /\ chan[k] \in Nat
        /\ \A i, j \in 1 .. n : i < j => chan[i] < chan[j]
    BY <2>2, NumberFacts DEF QueueInv, Rising
  <2> HIDE DEF n
  <2>4. cur < cur' /\ cur' <= Len(taken) /\ cur' # 0
    BY <1>0, <2>2, <2>3
  <2>5. \A k \in 1 .. n - 1 : k + 1 \in 1 .. n /\ 1 < k + 1 /\ 1 \in 1 .. n
    BY <2>2
  <2>6. \A k \in 1 .. n - 1 : cur' < chan'[k] /\ chan'[k] <= Len(taken)
    BY <2>2, <2>3, <2>5
  <2>7. Rising(chan')
    <3> SUFFICES ASSUME NEW i \in 1 .. n - 1, NEW j \in 1 .. n - 1, i < j
                 PROVE  chan'[i] < chan'[j]
      BY <2>2 DEF Rising
    <3>1. i + 1 \in 1 .. n /\ j + 1 \in 1 .. n /\ i + 1 < j + 1
      BY <2>2
    <3>2. chan'[i] = chan[i + 1] /\ chan'[j] = chan[j + 1]
      BY <2>2
    <3> QED
      BY <2>3, <3>1, <3>2
  <2>8. Range(chan') \cup {cur'} \subseteq Range(chan)
    <3>1. \A k \in 1 .. n : chan[k] \in Range(chan)
      BY <2>2 DEF Range
    <3>2. \A k \in 1 .. n - 1 : chan'[k] \in Range(chan)
      BY <2>2, <2>5, <3>1
    <3>3. chan[1] \in Range(chan)
      BY <2>2, <3>1
    <3> QED
      BY <2>2, <3>2, <3>3 DEF Range
  <2>9. Len(chan') <= ChanSize
    BY <1>0, <2>2 DEF n
  <2>10. QueueInv'
    BY <2>1, <2>2, <2>4, <2>6, <2>7 DEF QueueInv, Rising
  <2> QED
    BY <2>1, <2>2, <2>4, <2>8, <2>9, <2>10 DEF Receive
<1> QED
  BY <1>1, <1>2

\* A snapshot goes to the broadcaster if it waits, else to the end of the queue,
\* else nowhere.
LEMMA OfferFacts ==
    ASSUME Typed, QueueInv, NEW kind \in {"tick", "emit", "greet"}, Take(kind), Offer(Fresh)
    PROVE  /\ chan' \in Seq(Nat) /\ Len(chan') <= ChanSize
           /\ bpc' \in {"idle", "got", "send"} /\ cur' \in Nat
           /\ UNCHANGED <<round, pos, dead>>
           /\ QueueInv'
           /\ \/ bpc = "idle" /\ bpc' = "got" /\ cur' = Fresh
              \/ bpc # "idle" /\ bpc' = bpc /\ cur' = cur
           /\ Range(chan') \subseteq Range(chan) \cup {Fresh}
<1>0. /\ chan \in Seq(Nat) /\ Len(chan) <= ChanSize /\ cur \in Nat
      /\ bpc \in {"idle", "got", "send"}
      /\ ChanSize \in Nat /\ Len(taken) \in Nat /\ Len(chan) \in Nat
      /\ Len(taken') = Fresh /\ Fresh = Len(taken) + 1 /\ Fresh \in Nat
      /\ DOMAIN chan = 1 .. Len(chan) /\ \A k \in DOMAIN chan : chan[k] \in Nat
  BY TelemetryAssumption, NumberFacts, TakeFacts DEF Typed
<1>1. CASE bpc = "idle"
  <2>1. /\ chan = <<>> /\ chan' = chan /\ bpc' = "got" /\ cur' = Fresh
        /\ DOMAIN chan = {}
    BY <1>1, EmptySeq DEF Offer, QueueInv
  <2>2. QueueInv'
    BY <1>0, <2>1 DEF QueueInv, Rising
  <2> QED
    BY <1>0, <1>1, <2>1, <2>2 DEF Offer
<1>2. CASE bpc # "idle" /\ chan' = chan
  <2>1. bpc' = bpc /\ cur' = cur
    BY <1>2 DEF Offer
  <2>2. QueueInv'
    BY <1>0, <1>2, <2>1 DEF QueueInv, Rising
  <2> QED
    BY <1>0, <1>2, <2>1, <2>2 DEF Offer
<1>3. CASE bpc # "idle" /\ Room /\ chan' = Append(chan, Fresh)
  <2>1. bpc' = bpc /\ cur' = cur /\ Len(chan) < ChanSize
    BY <1>3 DEF Offer, Room
  <2> DEFINE n == Len(chan)
  <2>2. /\ chan' \in Seq(Nat) /\ Len(chan') = n + 1
        /\ DOMAIN chan' = 1 .. n + 1 /\ n \in Nat
        /\ \A k \in 1 .. n : chan'[k] = chan[k]
        /\ chan'[n + 1] = Fresh
        /\ Range(chan') = Range(chan) \cup {Fresh}
    BY <1>0, <1>3, AppendFacts
  <2>3. /\ \A k \in 1 .. n : cur < chan[k] /\ chan[k] <= Len(taken) /\ chan[k] \in Nat
        /\ \A i, j \in 1 .. n : i < j => chan[i] < chan[j]
        /\ cur <= Len(taken)
    BY <1>0 DEF QueueInv, Rising
  <2>4. Len(chan') <= ChanSize
    BY <1>0, <2>1, <2>2
  <2> HIDE DEF n
  <2>5. 1 .. n + 1 = (1 .. n) \cup {n + 1}
    BY <2>2
  <2>6. \A k \in DOMAIN chan' : cur' < chan'[k] /\ chan'[k] <= Len(taken')
    <3>1. ASSUME NEW k \in 1 .. n PROVE cur' < chan'[k] /\ chan'[k] <= Len(taken')
      <4>1. chan'[k] = chan[k] /\ chan[k] \in Nat /\ cur < chan[k] /\ chan[k] <= Len(taken)
        BY <2>2, <2>3
      <4> QED
        BY <1>0, <2>1, <4>1
    <3>2. cur' < chan'[n + 1] /\ chan'[n + 1] <= Len(taken')
      BY <1>0, <2>1, <2>2, <2>3
    <3> QED
      BY <2>2, <2>5, <3>1, <3>2
  <2>7. Rising(chan')
    <3>1. \A k \in 1 .. Len(chan) : chan[k] < Fresh
      BY <1>0, <2>3 DEF n
    <3>2. Rising(chan)
      BY DEF QueueInv
    <3> QED
      BY <1>0, <1>3, <3>1, <3>2, RisingAppend
  <2>8. QueueInv'
    BY <1>0, <1>3, <2>1, <2>6, <2>7 DEF QueueInv
  <2> QED
    BY <1>0, <1>3, <2>1, <2>2, <2>4, <2>8 DEF Offer
<1> QED
  BY <1>1, <1>2, <1>3 DEF Offer

\* A new snapshot, on its way or lost, disturbs nobody's frames.
LEMMA OfferKeeps ==
    ASSUME Core, NEW kind \in {"tick", "emit"}, Take(kind), Offer(Fresh),
           UNCHANGED <<settings, clientVars, got, shown>>
    PROVE  Core'
<1>0. Typed /\ QueueInv /\ kind \in {"tick", "emit", "greet"}
  BY DEF Core
<1>1. /\ chan' \in Seq(Nat) /\ Len(chan') <= ChanSize
      /\ bpc' \in {"idle", "got", "send"} /\ cur' \in Nat
      /\ UNCHANGED <<round, pos, dead>>
      /\ QueueInv'
      /\ \/ bpc = "idle" /\ bpc' = "got" /\ cur' = Fresh
         \/ bpc # "idle" /\ bpc' = bpc /\ cur' = cur
      /\ Range(chan') \subseteq Range(chan) \cup {Fresh}
  BY <1>0, OfferFacts
<1>2. /\ taken' \in Seq([kind : {"tick", "emit", "greet"}, settings : Nat])
      /\ Len(taken') = Fresh /\ Fresh = Len(taken) + 1 /\ Fresh \in Nat /\ Len(taken) \in Nat
  BY <1>0, TakeFacts, NumberFacts
<1>3. UNCHANGED <<settings, roster, cpc, gone, greet, got, shown>>
  BY DEF clientVars
<1>4. Typed'
  BY <1>0, <1>1, <1>2, <1>3 DEF Typed
<1>5. RosterInv' /\ ShownInv'
  BY <1>1, <1>3 DEF Core, RosterInv, RosterIsRight, Present, ShownInv
<1>6. RoundInv'
  BY <1>1, <1>3 DEF Core, RoundInv
<1>7. ASSUME NEW c \in Clients PROVE FrameClient(c)'
  <2>1. FrameClient(c) /\ \A i \in DOMAIN got[c] : got[c][i] \in Nat
    BY <1>0, NumberFacts DEF Core, FrameInv
  <2>2. greet[c] \in Nat
    BY <1>0 DEF Typed
  <2>3. Cardinality(Older(c)') <= ChanSize + 1
    <3>1. \A n \in Range(got'[c]) \cup Range(chan') \cup {cur'} :
             \/ n \in Range(got[c]) \cup Range(chan) \cup {cur, 0}
             \/ n > Len(taken) /\ n \in Nat
      BY <1>1, <1>2, <1>3
    <3> QED
      BY <1>0, <1>3, <2>1, <3>1, OlderShrinks DEF FrameClient
  <2>4. \A i \in DOMAIN got[c] : got[c][i] <= Len(taken) /\ got[c][i] < Fresh
    BY <1>2, <2>1 DEF FrameClient
  <2>5. \A i \in DOMAIN got'[c] : got'[c][i] <= Len(taken')
    BY <1>2, <1>3, <2>1, <2>4
  <2>6. greet'[c] <= Len(taken')
    BY <1>2, <1>3, <2>1, <2>2 DEF FrameClient
  <2>7. CASE bpc = "idle" /\ bpc' = "got" /\ cur' = Fresh
    <3>1. cur' \notin Range(got'[c])
      BY <1>2, <1>3, <2>1, <2>4, <2>7 DEF Range
    <3>2. \A i \in DOMAIN got'[c] : got'[c][i] <= cur'
      BY <1>2, <1>3, <2>1, <2>4, <2>7
    <3> QED
      BY <1>3, <2>1, <2>3, <2>5, <2>6, <3>1, <3>2 DEF FrameClient
  <2>8. CASE bpc # "idle" /\ bpc' = bpc /\ cur' = cur
    BY <1>1, <1>3, <2>1, <2>3, <2>5, <2>6, <2>8 DEF FrameClient
  <2> QED
    BY <1>1, <2>7, <2>8
<1> QED
  BY <1>1, <1>4, <1>5, <1>6, <1>7 DEF Core, FrameInv

\* Once a round is over the next snapshot is in hand, or the queue is empty.
LEMMA ReceiveKeeps ==
    ASSUME Core, bpc # "idle", Receive, RosterIsRight',
           UNCHANGED <<settings, taken, shown, cpc, gone, greet>>,
           roster' \in Seq(Clients), got' \in [Clients -> Seq(Nat)],
           \A c \in Clients :
              /\ Rising(got'[c]) /\ 0 \notin Range(got'[c])
              /\ \A i \in DOMAIN got'[c] : got'[c][i] <= cur
              /\ Range(got'[c]) \subseteq Range(got[c]) \cup {cur}
              /\ cpc[c] = "new" => got'[c] = <<>>
    PROVE  Core'
<1>0. Typed /\ QueueInv
  BY DEF Core
<1>1. /\ chan' \in Seq(Nat) /\ Len(chan') <= ChanSize
      /\ bpc' \in {"idle", "got"} /\ cur' \in Nat
      /\ round' = <<>> /\ pos' = 0 /\ dead' = {}
      /\ QueueInv'
      /\ bpc' # "idle" => cur < cur'
      /\ Range(chan') \cup {cur'} \subseteq Range(chan) \cup {0}
  BY <1>0, ReceiveFacts
<1>2. round' \in Seq(Clients) /\ DOMAIN round' = {} /\ Range(round') = {}
  BY <1>1, EmptySeq DEF Range
<1>3. Typed'
  BY <1>0, <1>1, <1>2 DEF Typed
<1>4. RosterInv' /\ ShownInv' /\ RoundInv'
  BY <1>1, <1>2 DEF Core, RosterInv, IsInjective, ShownInv, RoundInv
<1>5. ASSUME NEW c \in Clients PROVE FrameClient(c)'
  <2>1. /\ Rising(got'[c]) /\ 0 \notin Range(got'[c])
        /\ \A i \in DOMAIN got'[c] : got'[c][i] <= cur
        /\ Range(got'[c]) \subseteq Range(got[c]) \cup {cur}
        /\ cpc[c] = "new" => got'[c] = <<>>
    OBVIOUS
  <2>2. FrameClient(c) /\ greet'[c] = greet[c]
    BY DEF Core, FrameInv
  <2>3. Cardinality(Older(c)') <= ChanSize + 1
    <3>1. \A n \in Range(got'[c]) \cup Range(chan') \cup {cur'} :
             n \in Range(got[c]) \cup Range(chan) \cup {cur, 0}
      BY <1>1, <2>1
    <3> QED
      BY <1>0, <2>2, <3>1, OlderShrinks DEF FrameClient
  <2>4. /\ cur \in Nat /\ cur' \in Nat /\ cur <= Len(taken) /\ Len(taken) \in Nat
        /\ \A i \in DOMAIN got'[c] : got'[c][i] \in Nat
    <3>1. got'[c] \in Seq(Nat)
      OBVIOUS
    <3> QED
      BY <1>0, <1>1, <3>1, ElementOfSeq, LenProperties, NumberFacts DEF Typed, QueueInv
  <2>5. \A i \in DOMAIN got'[c] : got'[c][i] <= Len(taken')
    BY <2>1, <2>4
  <2>6. bpc' # "idle" => \A i \in DOMAIN got'[c] : got'[c][i] < cur'
    BY <1>1, <2>1, <2>4
  <2>7. bpc' # "idle" => cur' \notin Range(got'[c])
    BY <2>4, <2>6 DEF Range
  <2>8. bpc' # "idle" => \A i \in DOMAIN got'[c] : got'[c][i] <= cur'
    BY <2>4, <2>6
  <2>9. greet'[c] <= Len(taken') /\ (cpc'[c] = "new" => greet'[c] = 0)
    BY <2>2 DEF FrameClient
  <2> QED
    BY <2>1, <2>3, <2>5, <2>7, <2>8, <2>9 DEF FrameClient
<1> QED
  BY <1>1, <1>3, <1>4, <1>5 DEF Core, FrameInv

\* A round begins with the clients of this moment, none of them served yet.
LEMMA StartRoundKeeps == Core /\ StartRound => Core'
<1> SUFFICES ASSUME Core, StartRound PROVE Core'
  OBVIOUS
<1>0. /\ bpc = "got" /\ Typed /\ RosterInv /\ QueueInv /\ FrameInv
      /\ UNCHANGED <<settings, taken, roster, cpc, gone, greet, got, stored, unstored>>
  BY DEF Core, StartRound, clientVars
<1>1. CASE roster = <<>> /\ Receive /\ UNCHANGED shown
  <2>1. RosterIsRight'
    BY <1>0 DEF RosterInv, RosterIsRight, Present
  <2>2. roster' \in Seq(Clients) /\ got' \in [Clients -> Seq(Nat)]
    BY <1>0 DEF Typed
  <2>3. \A c \in Clients :
           /\ Rising(got'[c]) /\ 0 \notin Range(got'[c])
           /\ \A i \in DOMAIN got'[c] : got'[c][i] <= cur
           /\ Range(got'[c]) \subseteq Range(got[c]) \cup {cur}
           /\ cpc[c] = "new" => got'[c] = <<>>
    BY <1>0 DEF FrameInv, FrameClient
  <2> QED
    BY <1>0, <1>1, <2>1, <2>2, <2>3, ReceiveKeeps
<1>2. CASE /\ roster # <<>>
           /\ bpc' = "send" /\ round' = roster /\ pos' = 1
           /\ HandTo(roster[1])
           /\ UNCHANGED <<chan, cur, dead>>
  <2>1. roster \in Seq(Clients) /\ Len(roster) \in Nat \ {0}
    <3>1. roster \in Seq(Clients)
      BY <1>0 DEF Typed
    <3> QED
      BY <1>2, <3>1, TailFacts
  <2>2. shown' = [shown EXCEPT ![roster[1]] = settings] /\ settings \in Nat
    BY <1>0, <1>2 DEF HandTo, SettingsOf, Typed
  <2>3. 1 \in 1 .. Len(round')
    BY <1>2, <2>1
  <2>4. shown' \in [Clients -> Nat]
    BY <1>0, <2>2 DEF Typed
  <2>5. Typed'
    BY <1>0, <1>2, <2>1, <2>3, <2>4 DEF Typed
  <2>6. ShownInv'
    BY <1>0, <2>2 DEF Core, ShownInv, Typed
  <2>7. RosterInv'
    BY <1>0, <1>2 DEF RosterInv, RosterIsRight, Present
  <2>8. RoundInv'
    BY <1>2 DEF RoundInv
  <2>9. QueueInv'
    BY <1>0, <1>2 DEF QueueInv
  <2>10. FrameInv'
    BY <1>0, <1>2 DEF FrameInv, FrameClient, Older
  <2> QED
    BY <2>5, <2>6, <2>7, <2>8, <2>9, <2>10 DEF Core
<1> QED
  BY <1>1, <1>2 DEF StartRound

-----------------------------------------------------------------------------
(* A round *)

\* What the end of a send did: the client served last got the snapshot in hand,
\* or is among those that failed, or its connection is lost.
Served(failed) ==
    /\ got' \in [Clients -> Seq(Nat)]
    /\ \A c \in Clients :
          /\ Rising(got'[c]) /\ 0 \notin Range(got'[c])
          /\ \A i \in DOMAIN got'[c] : got'[c][i] <= cur
          /\ Range(got[c]) \subseteq Range(got'[c])
          /\ Range(got'[c]) \subseteq Range(got[c]) \cup {cur}
          /\ cur \in Range(got'[c]) => \E k \in 1 .. pos : round[k] = c
          /\ cpc[c] = "new" => got'[c] = <<>>
    /\ dead \subseteq failed /\ failed \subseteq Clients
    /\ \A c \in failed : c \in gone \/ cpc[c] = "closed"
    /\ round[pos] \in failed \cup gone \/ cur \in Range(got'[round[pos]])

\* The broadcaster is in a round, at a client it has not served yet.
LEMMA SendFacts ==
    ASSUME Core, bpc = "send"
    PROVE  /\ pos \in 1 .. Len(round) /\ Len(round) \in Nat /\ DOMAIN round = 1 .. Len(round)
           /\ round[pos] \in Clients /\ cpc[round[pos]] # "new"
           /\ cur \in Nat \ {0}
           /\ cur \notin Range(got[round[pos]])
<1>1. /\ pos \in 1 .. Len(round) /\ round \in Seq(Clients) /\ cur \in Nat
      /\ FrameInv /\ RosterInv /\ cur # 0
  BY DEF Core, Typed, QueueInv
<1>2. Len(round) \in Nat /\ DOMAIN round = 1 .. Len(round) /\ round[pos] \in Clients
  BY <1>1, LenProperties, ElementOfSeq
<1>3. cpc[round[pos]] # "new"
  BY <1>1, <1>2 DEF RosterInv, Range
<1>4. ASSUME cur \in Range(got[round[pos]]) PROVE FALSE
  <2>1. PICK k \in 1 .. pos - 1 : round[k] = round[pos]
    BY <1>1, <1>2, <1>4 DEF FrameInv, FrameClient
  <2>2. k \in DOMAIN round /\ pos \in DOMAIN round /\ k # pos
    BY <1>1, <1>2
  <2> QED
    BY <1>1, <2>1, <2>2 DEF RosterInv, IsInjective
<1> QED
  BY <1>1, <1>2, <1>3, <1>4

\* The frames a client has are all there is to say when its own do not change.
LEMMA FramesAsTheyWere ==
    ASSUME Core, bpc = "send", NEW c \in Clients, got'[c] = got[c]
    PROVE  /\ Rising(got'[c]) /\ 0 \notin Range(got'[c])
           /\ \A i \in DOMAIN got'[c] : got'[c][i] <= cur
           /\ Range(got[c]) \subseteq Range(got'[c])
           /\ Range(got'[c]) \subseteq Range(got[c]) \cup {cur}
           /\ cur \in Range(got'[c]) => \E k \in 1 .. pos : round[k] = c
           /\ cpc[c] = "new" => got'[c] = <<>>
<1>1. FrameClient(c)
  BY DEF Core, FrameInv
<1>2. pos \in Nat
  BY DEF Core, Typed
<1>3. \A k \in 1 .. pos - 1 : k \in 1 .. pos
  BY <1>2
<1> QED
  BY <1>1, <1>3 DEF FrameClient

LEMMA SendFailsServes ==
    ASSUME Core, SendFails
    PROVE  Served(dead \cup {round[pos]})
<1> DEFINE failed == dead \cup {round[pos]}
<1>1. bpc = "send" /\ got' = got /\ (round[pos] \in gone \/ round[pos] \notin Present)
  BY DEF SendFails
<1>2. round[pos] \in Clients /\ cpc[round[pos]] # "new"
  BY <1>1, SendFacts
<1>3. failed \subseteq Clients /\ got' \in [Clients -> Seq(Nat)]
  BY <1>1, <1>2 DEF Core, Typed
<1>4. \A c \in failed : c \in gone \/ cpc[c] = "closed"
  <2>1. round[pos] \in gone \/ cpc[round[pos]] = "closed"
    BY <1>1, <1>2 DEF Present, Core, Typed
  <2> QED
    BY <2>1 DEF Core, RosterInv
<1> QED
  BY <1>1, <1>3, <1>4, FramesAsTheyWere DEF Served

LEMMA SentServes ==
    ASSUME Core, Sent
    PROVE  Served(dead)
<1> DEFINE c == round[pos]
<1>1. /\ bpc = "send" /\ c \in Present
      /\ got' = IF c \in gone THEN got ELSE [got EXCEPT ![c] = Append(@, cur)]
  BY DEF Sent
<1>2. /\ pos \in 1 .. Len(round) /\ c \in Clients /\ cpc[c] # "new"
      /\ cur \in Nat \ {0} /\ cur \notin Range(got[c])
  BY <1>1, SendFacts
<1>3. dead \subseteq Clients /\ got \in [Clients -> Seq(Nat)]
  BY DEF Core, Typed
<1>4. \A d \in dead : d \in gone \/ cpc[d] = "closed"
  BY DEF Core, RosterInv
<1>5. CASE c \in gone
  <2>1. got' = got
    BY <1>1, <1>5
  <2> QED
    BY <1>1, <1>3, <1>4, <1>5, <2>1, FramesAsTheyWere DEF Served
<1>6. CASE c \notin gone
  <2> DEFINE s == got[c]
             n == Len(got[c])
  <2>1. /\ got'[c] = Append(s, cur) /\ s \in Seq(Nat)
        /\ \A d \in Clients \ {c} : got'[d] = got[d]
    BY <1>1, <1>2, <1>3, <1>6
  <2>2. /\ got'[c] \in Seq(Nat) /\ n \in Nat
        /\ DOMAIN s = 1 .. n /\ DOMAIN got'[c] = 1 .. n + 1
        /\ \A i \in 1 .. n : got'[c][i] = s[i]
        /\ got'[c][n + 1] = cur
        /\ Range(got'[c]) = Range(s) \cup {cur}
    BY <1>2, <2>1, AppendFacts
  <2>3. /\ Rising(s) /\ 0 \notin Range(s)
        /\ \A i \in 1 .. n : s[i] <= cur /\ s[i] \in Nat /\ s[i] # cur
    <3>1. FrameClient(c) /\ \A i \in DOMAIN got[c] : got[c][i] \in Nat
      BY <1>2, NumberFacts DEF Core, FrameInv
    <3> QED
      BY <1>1, <1>2, <2>2, <3>1 DEF FrameClient, Range
  <2>4. \A i \in 1 .. n : s[i] < cur
    BY <1>2, <2>3
  <2> HIDE DEF c, s, n
  <2>5. 1 .. n + 1 = (1 .. n) \cup {n + 1}
    BY <2>2
  <2>6. \A i \in DOMAIN got'[c] : got'[c][i] <= cur
    <3>1. \A i \in 1 .. n : got'[c][i] <= cur
      BY <2>2, <2>3
    <3>2. got'[c][n + 1] <= cur
      BY <1>2, <2>2
    <3> QED
      BY <2>2, <2>5, <3>1, <3>2
  <2>7. Rising(got'[c])
    BY <1>2, <2>1, <2>2, <2>3, <2>4, RisingAppend
  <2>8. 0 \notin Range(got'[c]) /\ cur \in Range(got'[c])
    BY <1>2, <2>2, <2>3
  <2>9. pos \in 1 .. pos /\ round[pos] = c
    BY <1>2 DEF c
  <2>10. got' \in [Clients -> Seq(Nat)]
    BY <1>1, <1>2, <1>3, <1>6, <2>1, <2>2
  <2>11. Range(got[c]) \subseteq Range(got'[c]) /\ Range(got'[c]) \subseteq Range(got[c]) \cup {cur}
    BY <2>2 DEF s
  <2>12. ASSUME NEW d \in Clients
         PROVE  /\ Rising(got'[d]) /\ 0 \notin Range(got'[d])
                /\ \A i \in DOMAIN got'[d] : got'[d][i] <= cur
                /\ Range(got[d]) \subseteq Range(got'[d])
                /\ Range(got'[d]) \subseteq Range(got[d]) \cup {cur}
                /\ cur \in Range(got'[d]) => \E k \in 1 .. pos : round[k] = d
                /\ cpc[d] = "new" => got'[d] = <<>>
    <3>1. CASE d = c
      BY <1>2, <2>6, <2>7, <2>8, <2>9, <2>11, <3>1
    <3>2. CASE d # c
      BY <1>1, <2>1, <3>2, FramesAsTheyWere
    <3> QED
      BY <3>1, <3>2
  <2> QED
    BY <1>3, <1>4, <2>8, <2>9, <2>10, <2>12 DEF Served
<1> QED
  BY <1>5, <1>6

\* On to the next client, or the dead are struck off and the round is over.
LEMMA GoOnKeeps ==
    ASSUME Core, bpc = "send", NEW failed, Served(failed), GoOn(failed),
           UNCHANGED <<settings, taken, cpc, gone, greet>>
    PROVE  Core' /\ NobodyLeftOut
<1>0. /\ Typed /\ RosterInv /\ RoundInv /\ QueueInv /\ FrameInv /\ ShownInv
      /\ pos \in 1 .. Len(round) /\ Len(round) \in Nat /\ DOMAIN round = 1 .. Len(round)
      /\ cur \in Nat \ {0}
  BY SendFacts DEF Core
<1>1. \A k \in 1 .. pos : round[k] \in failed \cup gone \/ cur \in Range(got'[round[k]])
  <2> SUFFICES ASSUME NEW k \in 1 .. pos
               PROVE  round[k] \in failed \cup gone \/ cur \in Range(got'[round[k]])
    OBVIOUS
  <2>1. CASE k = pos
    BY <2>1 DEF Served
  <2>2. CASE k # pos
    <3>1. k \in 1 .. pos - 1 /\ k \in 1 .. Len(round)
      BY <1>0, <2>2
    <3>2. round[k] \in Clients
      BY <1>0, <3>1, ElementOfSeq DEF Typed
    <3>3. round[k] \in dead \cup gone \/ cur \in Range(got[round[k]])
      BY <1>0, <3>1 DEF RoundInv
    <3> QED
      BY <3>2, <3>3 DEF Served
  <2> QED
    BY <2>1, <2>2
<1>2. CASE /\ pos < Len(round)
           /\ pos' = pos + 1 /\ dead' = failed /\ HandTo(round[pos + 1])
           /\ UNCHANGED <<bpc, cur, chan, round, roster>>
  <2>1. pos' \in 1 .. Len(round') /\ pos' \in Nat /\ pos' - 1 = pos
    BY <1>0, <1>2
  <2>2. shown' = [shown EXCEPT ![round[pos + 1]] = settings]
    BY <1>2 DEF HandTo, SettingsOf
  <2>3. shown' \in [Clients -> Nat] /\ ShownInv'
    <3>1. settings \in Nat /\ settings' = settings /\ shown \in [Clients -> Nat]
      BY <1>0 DEF Typed
    <3>2. shown' \in [Clients -> Nat]
      BY <2>2, <3>1
    <3>3. \A c \in Clients : shown'[c] = settings \/ shown'[c] = shown[c]
      BY <2>2, <3>1
    <3> QED
      BY <1>0, <3>1, <3>2, <3>3 DEF ShownInv
  <2>4. Typed'
    BY <1>0, <1>2, <2>1, <2>3 DEF Typed, Served
  <2>5. RosterInv'
    BY <1>0, <1>2 DEF RosterInv, RosterIsRight, Present, Served
  <2>6. RoundInv'
    BY <1>1, <1>2, <2>1 DEF RoundInv
  <2>7. QueueInv'
    BY <1>0, <1>2 DEF QueueInv
  <2>8. ASSUME NEW c \in Clients PROVE FrameClient(c)'
    <3>1. /\ Rising(got'[c]) /\ 0 \notin Range(got'[c])
          /\ \A j \in DOMAIN got'[c] : got'[c][j] <= cur
          /\ Range(got'[c]) \subseteq Range(got[c]) \cup {cur}
          /\ cur \in Range(got'[c]) => \E k \in 1 .. pos : round[k] = c
          /\ cpc[c] = "new" => got'[c] = <<>>
      BY DEF Served
    <3>2. FrameClient(c)
      BY <1>0 DEF FrameInv
    <3>3. Cardinality(Older(c)') <= ChanSize + 1
      <4>1. \A n \in Range(got'[c]) \cup Range(chan') \cup {cur'} :
               n \in Range(got[c]) \cup Range(chan) \cup {cur, 0}
        BY <1>2, <3>1
      <4> QED
        BY <1>0, <3>2, <4>1, OlderShrinks DEF FrameClient
    <3>4. \A j \in DOMAIN got'[c] : got'[c][j] <= Len(taken)
      <4>1. cur <= Len(taken) /\ Len(taken) \in Nat /\ got'[c] \in Seq(Nat)
        BY <1>0, NumberFacts DEF QueueInv, Served
      <4>2. \A j \in DOMAIN got'[c] : got'[c][j] \in Nat
        BY <4>1, ElementOfSeq, LenProperties
      <4> QED
        BY <1>0, <3>1, <4>1, <4>2
    <3> QED
      BY <1>2, <2>1, <3>1, <3>2, <3>3, <3>4 DEF FrameClient
  <2>9. NobodyLeftOut
    BY <1>2 DEF NobodyLeftOut, RoundEnds
  <2> QED
    BY <2>3, <2>4, <2>5, <2>6, <2>7, <2>8, <2>9 DEF Core, FrameInv
<1>3. CASE /\ pos >= Len(round)
           /\ roster' = Without(roster, failed)
           /\ Receive /\ UNCHANGED shown
  <2>1. roster \in Seq(Clients)
    BY <1>0 DEF Typed
  <2>2. /\ roster' \in Seq(Clients)
        /\ Range(roster') = Range(roster) \ failed
        /\ IsInjective(roster) => IsInjective(roster')
    BY <1>3, <2>1, WithoutFacts
  <2>3. RosterIsRight'
    <3>1. Present' = Present
      BY DEF Present
    <3>2. \A c \in Present \ gone : c \notin failed
      BY DEF Served, Present
    <3> QED
      BY <1>0, <2>2, <3>1, <3>2 DEF RosterInv, RosterIsRight
  <2>4. Core'
    BY <1>3, <2>2, <2>3, ReceiveKeeps DEF Served
  <2>5. NobodyLeftOut
    <3> SUFFICES ASSUME NEW c \in Range(round), c \in Range(roster')
                 PROVE  c \in gone \/ cur \in Range(got'[c])
      BY DEF NobodyLeftOut, RoundEnds
    <3>1. PICK k \in 1 .. Len(round) : round[k] = c
      BY <1>0 DEF Range
    <3>2. k \in 1 .. pos
      <4> DEFINE n == Len(round)
      <4>1. n \in Nat /\ pos \in 1 .. n /\ pos >= n /\ k \in 1 .. n
        BY <1>0, <1>3, <3>1
      <4> HIDE DEF n
      <4> QED
        BY <4>1
    <3> QED
      BY <1>1, <2>2, <3>1, <3>2
  <2> QED
    BY <2>4, <2>5
<1> QED
  BY <1>2, <1>3 DEF GoOn

LEMMA SendKeeps == Core /\ (Sent \/ SendFails) => Core' /\ NobodyLeftOut
<1>1. ASSUME Core, Sent PROVE Core' /\ NobodyLeftOut
  <2>1. bpc = "send" /\ GoOn(dead) /\ UNCHANGED <<settings, taken, cpc, gone, greet>>
    BY <1>1 DEF Sent
  <2> QED
    BY <1>1, <2>1, SentServes, GoOnKeeps
<1>2. ASSUME Core, SendFails PROVE Core' /\ NobodyLeftOut
  <2>1. /\ bpc = "send" /\ GoOn(dead \cup {round[pos]})
        /\ UNCHANGED <<settings, taken, cpc, gone, greet>>
    BY <1>2 DEF SendFails
  <2> QED
    BY <1>2, <2>1, SendFailsServes, GoOnKeeps
<1> QED
  BY <1>1, <1>2
-----------------------------------------------------------------------------
(* A client's connection *)

\* Only who has not been on the roster joins it, and the backlog of that moment
\* is all that can reach the client late.
LEMMA JoinKeeps ==
    ASSUME Core, NEW c \in Clients, Join(c)
    PROVE  Core'
<1>0. /\ Typed /\ RosterInv /\ RoundInv /\ QueueInv /\ FrameInv /\ ShownInv
      /\ cpc[c] = "new" /\ cpc' = [cpc EXCEPT ![c] = "greeting"]
      /\ roster' = Append(roster, c) /\ roster \in Seq(Clients)
      /\ Take("greet") /\ greet' = [greet EXCEPT ![c] = Fresh]
      /\ shown' = [shown EXCEPT ![c] = settings]
      /\ UNCHANGED <<settings, chan, bpc, cur, round, pos, dead, gone, got>>
  BY DEF Core, Join, casterVars, Typed
<1>1. /\ taken' \in Seq([kind : {"tick", "emit", "greet"}, settings : Nat])
      /\ Len(taken') = Fresh /\ Fresh = Len(taken) + 1 /\ Fresh \in Nat /\ Len(taken) \in Nat
  BY <1>0, TakeFacts, NumberFacts
<1>2. /\ roster' \in Seq(Clients) /\ Range(roster') = Range(roster) \cup {c}
      /\ Len(roster) \in Nat
      /\ DOMAIN roster = 1 .. Len(roster) /\ DOMAIN roster' = 1 .. Len(roster) + 1
      /\ \A i \in 1 .. Len(roster) : roster'[i] = roster[i]
      /\ roster'[Len(roster) + 1] = c
  BY <1>0, AppendFacts
<1>3. cpc' \in [Clients -> {"new", "greeting", "open", "closed"}]
  BY <1>0 DEF Typed
<1>4. Typed'
  BY <1>0, <1>1, <1>2, <1>3 DEF Typed
<1>5. Present' = Present \cup {c} /\ c \notin Present
  BY <1>0 DEF Present, Typed
<1>6. IsInjective(roster')
  <2>1. \A i \in 1 .. Len(roster) : roster'[i] # c
    BY <1>0, <1>2, <1>5 DEF RosterInv, RosterIsRight, Range
  <2> DEFINE n == Len(roster)
  <2>2. 1 .. n + 1 = (1 .. n) \cup {n + 1}
    BY <1>2
  <2>3. IsInjective(roster) /\ DOMAIN roster = 1 .. n
    BY <1>0, <1>2 DEF RosterInv, RosterIsRight
  <2>4. \A i, j \in 1 .. n : roster'[i] = roster'[j] => i = j
    BY <1>2, <2>3 DEF IsInjective
  <2>5. roster'[n + 1] = c /\ DOMAIN roster' = 1 .. n + 1
    BY <1>2
  <2> HIDE DEF n
  <2> QED
    BY <2>1, <2>2, <2>4, <2>5 DEF IsInjective, n
<1>7. RosterIsRight'
  BY <1>0, <1>2, <1>5, <1>6 DEF RosterInv, RosterIsRight
<1>8. RosterInv'
  BY <1>0, <1>3, <1>7 DEF RosterInv, Typed
<1>9. ShownInv' /\ RoundInv'
  BY <1>0 DEF ShownInv, RoundInv, Typed
<1>10. QueueInv'
  <2>1. /\ cur \in Nat /\ cur <= Len(taken)
        /\ \A k \in DOMAIN chan : chan[k] \in Nat /\ chan[k] <= Len(taken)
    BY <1>0, NumberFacts DEF QueueInv, Typed
  <2>2. cur <= Len(taken') /\ \A k \in DOMAIN chan : chan[k] <= Len(taken')
    BY <1>1, <2>1
  <2> QED
    BY <1>0, <2>2 DEF QueueInv
<1>11. ASSUME NEW d \in Clients PROVE FrameClient(d)'
  <2>1. FrameClient(d) /\ greet[d] \in Nat /\ \A i \in DOMAIN got[d] : got[d][i] \in Nat
    BY <1>0, NumberFacts DEF FrameInv, Typed
  <2>2. \A i \in DOMAIN got'[d] : got'[d][i] <= Len(taken')
    <3>1. \A i \in DOMAIN got[d] : got[d][i] <= Len(taken)
      BY <2>1 DEF FrameClient
    <3> QED
      BY <1>0, <1>1, <2>1, <3>1
  <2>3. CASE d = c
    <3>1. got[c] = <<>> /\ greet'[c] = Fresh /\ cpc'[c] = "greeting"
      BY <1>0, <2>1, <2>3 DEF FrameClient, Typed
    <3>2. Range(got[c]) = {}
      BY <3>1, EmptySeq DEF Range
    <3>3. Older(c)' \subseteq Range(chan) \cup {cur}
      BY <1>0, <3>2 DEF Older
    <3>4. IsFiniteSet(Range(chan)) /\ Cardinality(Range(chan)) <= ChanSize
      <4>1. chan \in Seq(Nat) /\ Len(chan) <= ChanSize /\ Len(chan) \in Nat /\ ChanSize \in Nat
            /\ DOMAIN chan = 1 .. Len(chan)
        BY <1>0, TelemetryAssumption, NumberFacts DEF Typed
      <4>2. IsFiniteSet(1 .. Len(chan)) /\ Cardinality(1 .. Len(chan)) = Len(chan)
        <5> DEFINE n == Len(chan)
        <5>1. n \in Nat
          BY <4>1
        <5> HIDE DEF n
        <5>2. IsFiniteSet(1 .. n) /\ Cardinality(1 .. n) = n
          BY <5>1, FS_Interval
        <5> QED
          BY <5>2 DEF n
      <4>3. \A x \in Range(chan) : \E k \in 1 .. Len(chan) : chan[k] = x
        BY <4>1 DEF Range
      <4> DEFINE f == [k \in 1 .. Len(chan) |-> chan[k]]
      <4>4. f \in Surjection(1 .. Len(chan), Range(chan))
        BY <4>1, <4>3 DEF Surjection, Range
      <4> HIDE DEF f
      <4>5. /\ IsFiniteSet(Range(chan))
            /\ Cardinality(Range(chan)) <= Cardinality(1 .. Len(chan))
        BY <4>2, <4>4, FS_Surjection
      <4> QED
        BY <4>1, <4>2, <4>5, FS_CardinalityType
    <3>5. /\ IsFiniteSet(Range(chan) \cup {cur})
          /\ Cardinality(Range(chan) \cup {cur}) <= ChanSize + 1
      <4>1. /\ IsFiniteSet(Range(chan) \cup {cur})
            /\ \/ Cardinality(Range(chan) \cup {cur}) = Cardinality(Range(chan)) + 1
               \/ Cardinality(Range(chan) \cup {cur}) = Cardinality(Range(chan))
        BY <3>4, FS_AddElement
      <4>2. Cardinality(Range(chan)) \in Nat /\ ChanSize \in Nat
        BY <3>4, FS_CardinalityType, TelemetryAssumption
      <4> QED
        BY <3>4, <4>1, <4>2
    <3>6. Cardinality(Older(c)') <= ChanSize + 1
      <4>1. /\ Cardinality(Older(c)') <= Cardinality(Range(chan) \cup {cur})
            /\ Cardinality(Older(c)') \in Nat /\ Cardinality(Range(chan) \cup {cur}) \in Nat
        BY <3>3, <3>5, FS_Subset, FS_CardinalityType
      <4> QED
        BY <3>5, <4>1, TelemetryAssumption
    <3> QED
      BY <1>0, <1>1, <2>1, <2>2, <2>3, <3>1, <3>6 DEF FrameClient
  <2>4. CASE d # c
    <3>1. greet'[d] = greet[d] /\ cpc'[d] = cpc[d] /\ got'[d] = got[d]
      BY <1>0, <2>4 DEF Typed
    <3>2. greet'[d] <= Len(taken')
      BY <1>1, <2>1, <3>1 DEF FrameClient
    <3>3. Cardinality(Older(d)') <= ChanSize + 1
      BY <1>0, <2>1, <3>1, OlderShrinks DEF FrameClient
    <3> QED
      BY <1>0, <2>1, <2>2, <3>1, <3>2, <3>3 DEF FrameClient
  <2> QED
    BY <2>3, <2>4
<1> QED
  BY <1>4, <1>8, <1>9, <1>10, <1>11 DEF Core, FrameInv

LEMMA GreetedKeeps ==
    ASSUME Core, NEW c \in Clients, Greeted(c)
    PROVE  Core'
<1>0. /\ Typed /\ RosterInv /\ RoundInv /\ QueueInv /\ FrameInv /\ ShownInv
      /\ cpc[c] = "greeting" /\ cpc' = [cpc EXCEPT ![c] = "open"]
      /\ UNCHANGED <<settings, taken, chan, bpc, cur, round, pos, dead, roster, gone,
                     greet, got, shown>>
  BY DEF Core, Greeted, casterVars
<1>1. /\ cpc' \in [Clients -> {"new", "greeting", "open", "closed"}]
      /\ \A d \in Clients : /\ cpc'[d] = "new" <=> cpc[d] = "new"
                            /\ cpc'[d] = "closed" <=> cpc[d] = "closed"
  BY <1>0 DEF Typed
<1>2. Typed'
  BY <1>0, <1>1 DEF Typed
<1>3. Present' = Present
  BY <1>0 DEF Present, Typed
<1>4. Range(round) \cup gone \cup dead \subseteq Clients
  BY <1>0, ElementOfSeq, LenProperties DEF Typed, Range
<1>5. RosterInv'
  BY <1>0, <1>1, <1>3, <1>4 DEF RosterInv, RosterIsRight
<1>6. RoundInv' /\ QueueInv' /\ ShownInv'
  BY <1>0 DEF RoundInv, QueueInv, ShownInv
<1>7. FrameInv'
  BY <1>0, <1>1 DEF FrameInv, FrameClient, Older
<1> QED
  BY <1>2, <1>5, <1>6, <1>7 DEF Core

LEMMA DisconnectKeeps ==
    ASSUME Core, NEW c \in Clients, Disconnect(c)
    PROVE  Core'
<1>0. /\ Typed /\ RosterInv /\ RoundInv /\ QueueInv /\ FrameInv /\ ShownInv
      /\ c \in Present /\ gone' = gone \cup {c}
      /\ UNCHANGED <<settings, taken, chan, bpc, cur, round, pos, dead, roster, cpc,
                     greet, got, shown>>
  BY DEF Core, Disconnect, casterVars
<1>1. Typed' /\ Present' = Present
  BY <1>0 DEF Typed, Present
<1>2. RosterInv'
  BY <1>0, <1>1 DEF RosterInv, RosterIsRight, Present
<1>3. RoundInv' /\ QueueInv' /\ ShownInv'
  BY <1>0 DEF RoundInv, QueueInv, ShownInv
<1>4. FrameInv'
  BY <1>0 DEF FrameInv, FrameClient, Older
<1> QED
  BY <1>1, <1>2, <1>3, <1>4 DEF Core

\* An endpoint strikes off its own client and no other.
LEMMA LeaveKeeps ==
    ASSUME Core, NEW c \in Clients, Leave(c)
    PROVE  Core'
<1>0. /\ Typed /\ RosterInv /\ RoundInv /\ QueueInv /\ FrameInv /\ ShownInv
      /\ cpc[c] \in {"open", "greeting"} /\ cpc' = [cpc EXCEPT ![c] = "closed"]
      /\ roster' = Without(roster, {c}) /\ roster \in Seq(Clients)
      /\ UNCHANGED <<settings, taken, chan, bpc, cur, round, pos, dead, gone,
                     greet, got, shown>>
  BY DEF Core, Leave, casterVars, Typed
<1>1. /\ cpc' \in [Clients -> {"new", "greeting", "open", "closed"}]
      /\ \A d \in Clients : /\ cpc'[d] = "new" <=> cpc[d] = "new"
                            /\ cpc[d] = "closed" => cpc'[d] = "closed"
  BY <1>0 DEF Typed
<1>2. /\ roster' \in Seq(Clients)
      /\ Range(roster') = Range(roster) \ {c}
      /\ IsInjective(roster) => IsInjective(roster')
  BY <1>0, WithoutFacts
<1>3. Typed'
  BY <1>0, <1>1, <1>2 DEF Typed
<1>4. Present' = Present \ {c}
  BY <1>0 DEF Present, Typed
<1>5. Range(round) \cup gone \cup dead \subseteq Clients
  BY <1>0, ElementOfSeq, LenProperties DEF Typed, Range
<1>6. RosterInv'
  BY <1>0, <1>1, <1>2, <1>4, <1>5 DEF RosterInv, RosterIsRight
<1>7. RoundInv' /\ QueueInv' /\ ShownInv'
  BY <1>0 DEF RoundInv, QueueInv, ShownInv
<1>8. FrameInv'
  BY <1>0, <1>1 DEF FrameInv, FrameClient, Older
<1> QED
  BY <1>3, <1>6, <1>7, <1>8 DEF Core

\* The settings only ever move on.
LEMMA ControlKeeps == Core /\ ControlLoadgen => Core'
<1> SUFFICES ASSUME Core, ControlLoadgen PROVE Core'
  OBVIOUS
<1>0. /\ Typed /\ RosterInv /\ RoundInv /\ QueueInv /\ FrameInv /\ ShownInv
      /\ settings' = settings + 1
      /\ UNCHANGED <<taken, chan, bpc, cur, round, pos, dead, roster, cpc, gone,
                     greet, got, shown>>
  BY DEF Core, ControlLoadgen, casterVars, clientVars
<1>1. Typed'
  BY <1>0 DEF Typed
<1>2. ShownInv'
  BY <1>0 DEF Typed, ShownInv
<1>3. RosterInv' /\ RoundInv' /\ QueueInv' /\ FrameInv'
  BY <1>0 DEF RosterInv, RosterIsRight, Present, RoundInv, QueueInv, FrameInv, FrameClient, Older
<1> QED
  BY <1>0, <1>1, <1>2, <1>3 DEF Core

LEMMA RestKeeps == Core /\ UNCHANGED vars => Core'
<1> SUFFICES ASSUME Core, UNCHANGED vars PROVE Core'
  OBVIOUS
<1>0. /\ Typed /\ RosterInv /\ RoundInv /\ QueueInv /\ FrameInv /\ ShownInv
      /\ UNCHANGED <<settings, taken, chan, bpc, cur, round, pos, dead, roster, cpc, gone,
                     greet, got, shown>>
  BY DEF Core, vars, casterVars, clientVars
<1>1. Typed' /\ ShownInv'
  BY <1>0 DEF Typed, ShownInv
<1>2. RosterInv' /\ RoundInv' /\ QueueInv' /\ FrameInv'
  BY <1>0 DEF RosterInv, RosterIsRight, Present, RoundInv, QueueInv, FrameInv, FrameClient, Older
<1> QED
  BY <1>0, <1>1, <1>2 DEF Core

LEMMA InitCore == Init => Core
<1> SUFFICES ASSUME Init PROVE Core
  OBVIOUS
<1> USE DEF Init
<1>1. /\ <<>> \in Seq(Nat) /\ <<>> \in Seq(Clients) /\ DOMAIN <<>> = {} /\ Len(<<>>) = 0
      /\ <<>> \in Seq([kind : {"tick", "emit", "greet"}, settings : Nat])
  BY EmptySeq
<1>2. Typed
  BY <1>1, TelemetryAssumption DEF Typed
<1>3. RosterInv /\ RoundInv /\ QueueInv /\ ShownInv
  BY <1>1 DEF RosterInv, RosterIsRight, Present, IsInjective, Range, RoundInv, QueueInv,
              Rising, ShownInv
<1>4. ASSUME NEW c \in Clients PROVE FrameClient(c)
  <2>1. Range(got[c]) = {} /\ Range(chan) = {} /\ cur = 0
    BY <1>1 DEF Range
  <2>2. Older(c) = {}
    BY <2>1 DEF Older
  <2>3. Cardinality(Older(c)) <= ChanSize + 1
    BY <2>2, FS_EmptySet, TelemetryAssumption
  <2> QED
    BY <1>1, <2>1, <2>3 DEF FrameClient, Rising
<1> QED
  BY <1>2, <1>3, <1>4 DEF Core, FrameInv
-----------------------------------------------------------------------------
(* Every step *)

LEMMA StepKeepsCore == Core /\ [Next]_vars => Core'
<1> SUFFICES ASSUME Core, [Next]_vars PROVE Core'
  OBVIOUS
<1>1. CASE Tick
  BY <1>1, OfferKeeps DEF Tick
<1>2. CASE Emit
  BY <1>2, OfferKeeps DEF Emit
<1>3. CASE ControlLoadgen
  BY <1>3, ControlKeeps
<1>4. CASE StartRound
  BY <1>4, StartRoundKeeps
<1>5. CASE Sent \/ SendFails
  BY <1>5, SendKeeps
<1>6. ASSUME NEW c \in Clients, Join(c) \/ Greeted(c) \/ Disconnect(c) \/ Leave(c) PROVE Core'
  BY <1>6, JoinKeeps, GreetedKeeps, DisconnectKeeps, LeaveKeeps
<1>7. CASE UNCHANGED vars
  BY <1>7, RestKeeps
<1> QED
  BY <1>1, <1>2, <1>3, <1>4, <1>5, <1>6, <1>7 DEF Next, Rest

\* Every step leaves the snapshots and the history alone, or takes a snapshot; of
\* these only a tick is stored, or fails to be.
LEMMA StepTakes ==
    ASSUME [Next]_vars
    PROVE  \/ UNCHANGED <<taken, stored, unstored>>
           \/ \E kind \in {"emit", "greet"} : Take(kind) /\ UNCHANGED <<stored, unstored>>
           \/ Take("tick") /\ Remember(Fresh)
BY DEF Next, Tick, Emit, ControlLoadgen, StartRound, Sent, SendFails, Join, Greeted,
       Disconnect, Leave, Rest, vars

LEMMA StepKeepsHistory == Typed /\ HistoryMissesNoTick /\ [Next]_vars => HistoryMissesNoTick'
<1> SUFFICES ASSUME Typed, HistoryMissesNoTick, [Next]_vars PROVE HistoryMissesNoTick'
  OBVIOUS
<1> DEFINE Ticks == {i \in DOMAIN taken : taken[i].kind = "tick"}
<1>1. ASSUME NEW kind \in {"tick", "emit", "greet"}, Take(kind)
      PROVE  Ticks' = IF kind = "tick" THEN Ticks \cup {Fresh} ELSE Ticks
  <2>1. /\ Fresh = Len(taken) + 1 /\ Len(taken) \in Nat
        /\ DOMAIN taken = 1 .. Len(taken) /\ DOMAIN taken' = 1 .. Fresh
        /\ \A i \in DOMAIN taken : taken'[i] = taken[i]
        /\ taken'[Fresh].kind = kind
    BY <1>1, TakeFacts, NumberFacts
  <2>2. DOMAIN taken' = DOMAIN taken \cup {Fresh}
    BY <2>1
  <2> QED
    BY <2>1, <2>2
<1>2. CASE UNCHANGED <<taken, stored, unstored>>
  BY <1>2 DEF HistoryMissesNoTick
<1>3. CASE \E kind \in {"emit", "greet"} : Take(kind) /\ UNCHANGED <<stored, unstored>>
  BY <1>1, <1>3 DEF HistoryMissesNoTick
<1>4. CASE Take("tick") /\ Remember(Fresh)
  BY <1>1, <1>4 DEF HistoryMissesNoTick, Remember
<1> QED
  BY <1>2, <1>3, <1>4, StepTakes

LEMMA StepKeepsBounds == Typed /\ Bounded /\ [Next]_vars => Bounded'
<1> SUFFICES ASSUME Typed, Bounded, [Next]_vars PROVE Bounded'
  OBVIOUS
<1>1. settings' <= MaxPosts
  <2>1. \/ settings' = settings
        \/ settings < MaxPosts /\ settings' = settings + 1
    BY DEF Next, Tick, Emit, ControlLoadgen, StartRound, Sent, SendFails, Join, Greeted,
           Disconnect, Leave, Rest, vars
  <2> QED
    BY <2>1, TelemetryAssumption DEF Bounded, Typed
<1>2. bpc' # "send" => pos' = 0
  BY DEF Bounded, Next, Tick, Emit, Offer, ControlLoadgen, StartRound, Sent, SendFails,
         GoOn, Receive, Join, Greeted, Disconnect, Leave, Rest, vars, casterVars
<1>3. Len(taken') <= MaxSnapshots /\ \A i \in DOMAIN taken' : taken'[i].settings <= MaxPosts
  <2>1. ASSUME NEW kind \in {"tick", "emit", "greet"}, Take(kind)
        PROVE  Len(taken') <= MaxSnapshots /\ \A i \in DOMAIN taken' : taken'[i].settings <= MaxPosts
    <3>1. /\ Len(taken') = Fresh /\ Fresh = Len(taken) + 1 /\ Len(taken) \in Nat
          /\ DOMAIN taken = 1 .. Len(taken) /\ DOMAIN taken' = 1 .. Fresh
          /\ \A i \in DOMAIN taken : taken'[i] = taken[i]
      BY <2>1, TakeFacts, NumberFacts
    <3>2. taken'[Fresh] = [kind |-> kind, settings |-> settings]
      <4> DEFINE R == [kind : {"tick", "emit", "greet"}, settings : Nat]
                 e == [kind |-> kind, settings |-> settings]
      <4>1. taken \in Seq(R) /\ e \in R /\ taken' = Append(taken, e)
        BY <2>1 DEF Typed, Take
      <4> HIDE DEF R, e
      <4>2. taken'[Len(taken) + 1] = e
        BY <4>1, AppendFacts
      <4> QED
        BY <3>1, <4>2 DEF e
    <3>3. Len(taken) < MaxSnapshots
      BY <2>1 DEF Take
    <3>4. DOMAIN taken' = DOMAIN taken \cup {Fresh}
      BY <3>1
    <3>5. Len(taken') <= MaxSnapshots
      BY <3>1, <3>3, TelemetryAssumption
    <3> QED
      BY <3>1, <3>2, <3>4, <3>5 DEF Bounded
  <2> QED
    BY <2>1, StepTakes DEF Bounded
<1> QED
  BY <1>1, <1>2, <1>3 DEF Bounded

LEMMA TelemetryInvStep == TelemetryInv /\ [Next]_vars => TelemetryInv'
BY StepKeepsCore, StepKeepsHistory, StepKeepsBounds DEF TelemetryInv, Core

LEMMA TelemetryInvInit == Init => TelemetryInv
<1>1. ASSUME Init PROVE HistoryMissesNoTick /\ Bounded
  <2>1. DOMAIN taken = {} /\ Len(taken) = 0
    BY <1>1, EmptySeq DEF Init
  <2> QED
    BY <1>1, <2>1, TelemetryAssumption DEF Init, HistoryMissesNoTick, Bounded
<1> QED
  BY <1>1, InitCore DEF TelemetryInv

LEMMA TelemetryInvHolds == Spec => []TelemetryInv
BY TelemetryInvInit, TelemetryInvStep, PTL DEF Spec
-----------------------------------------------------------------------------
(* What holds of every behaviour *)

\* The roster is right at all times: nobody is on it twice, whoever left is not,
\* whoever is present and connected is, whichever of its two editors runs when.
THEOREM RosterAlwaysRight == Spec => []RosterIsRight
BY TelemetryInvHolds, PTL DEF TelemetryInv, Core, RosterInv

\* The types of all the variables, within the bounds of the model.
THEOREM TelemetryTyped == Spec => []TelemetryTypeOK
<1>1. ASSUME TelemetryInv PROVE TelemetryTypeOK
  <2>0. /\ Typed /\ QueueInv /\ FrameInv /\ ShownInv /\ Bounded /\ HistoryMissesNoTick
        /\ MaxPosts \in Nat /\ MaxSnapshots \in Nat /\ Len(taken) \in Nat
    BY <1>1, TelemetryAssumption, NumberFacts DEF TelemetryInv, Core
  <2>1. settings \in 0 .. MaxPosts /\ shown \in [Clients -> 0 .. MaxPosts]
    <3>1. settings \in 0 .. MaxPosts /\ \A c \in Clients : shown[c] \in 0 .. MaxPosts
      BY <2>0 DEF Typed, ShownInv, Bounded
    <3> QED
      BY <2>0, <3>1 DEF Typed
  <2>2. taken \in Seq([kind : {"tick", "emit", "greet"}, settings : 0 .. MaxPosts])
    <3> DEFINE R == [kind : {"tick", "emit", "greet"}, settings : Nat]
               B == [kind : {"tick", "emit", "greet"}, settings : 0 .. MaxPosts]
               n == Len(taken)
    <3>1. \A r \in R : r.settings <= MaxPosts => r \in B
      BY <2>0
    <3>2. taken \in Seq(R) /\ \A i \in DOMAIN taken : taken[i].settings <= MaxPosts
      BY <2>0 DEF Typed, Bounded
    <3> HIDE DEF R, B
    <3>3. n \in Nat /\ DOMAIN taken = 1 .. n /\ taken \in [1 .. n -> R]
      BY <3>2, LenProperties
    <3>4. taken \in [1 .. n -> B]
      BY <3>1, <3>2, <3>3
    <3>5. taken \in Seq(B)
      BY <3>3, <3>4, SeqDef
    <3> QED
      BY <3>5 DEF B
  <2>3. chan \in Seq(Numbers \ {0}) /\ cur \in Numbers
    <3> DEFINE n == Len(chan)
    <3>1. /\ n \in Nat /\ DOMAIN chan = 1 .. n /\ chan \in [1 .. n -> Nat]
          /\ cur \in Nat /\ cur <= Len(taken) /\ Len(taken) <= MaxSnapshots
          /\ \A k \in 1 .. n : cur < chan[k] /\ chan[k] <= Len(taken)
      BY <2>0, LenProperties DEF Typed, QueueInv, Bounded
    <3> HIDE DEF n
    <3>2. \A k \in 1 .. n : chan[k] \in Nat /\ chan[k] \in Numbers \ {0}
      <4> SUFFICES ASSUME NEW k \in 1 .. n PROVE chan[k] \in Nat /\ chan[k] \in Numbers \ {0}
        OBVIOUS
      <4>1. chan[k] \in Nat /\ cur < chan[k] /\ chan[k] <= Len(taken)
        BY <3>1
      <4> QED
        BY <2>0, <3>1, <4>1 DEF Numbers
    <3>3. chan \in [1 .. n -> Numbers \ {0}]
      BY <3>1, <3>2
    <3> QED
      BY <2>0, <3>1, <3>3, SeqDef DEF Numbers
  <2>4. greet \in [Clients -> Numbers] /\ got \in [Clients -> Seq(Numbers)]
    <3>1. ASSUME NEW c \in Clients PROVE greet[c] \in Numbers /\ got[c] \in Seq(Numbers)
      <4> DEFINE s == got[c]
                 n == Len(got[c])
      <4>1. /\ greet[c] \in Nat /\ greet[c] <= Len(taken) /\ Len(taken) <= MaxSnapshots
            /\ n \in Nat /\ DOMAIN s = 1 .. n /\ s \in [1 .. n -> Nat]
            /\ \A i \in 1 .. n : s[i] \in Nat /\ s[i] <= Len(taken)
        <5>1. s \in Seq(Nat) /\ FrameClient(c)
          BY <2>0 DEF Typed, FrameInv
        <5> QED
          BY <2>0, <5>1, LenProperties DEF FrameClient, Typed, Bounded
      <4> HIDE DEF s, n
      <4>2. greet[c] \in Numbers /\ \A i \in 1 .. n : s[i] \in Numbers
        BY <2>0, <4>1 DEF Numbers
      <4>3. s \in [1 .. n -> Numbers]
        BY <4>1, <4>2
      <4>4. s \in Seq(Numbers)
        BY <4>1, <4>3, SeqDef
      <4> QED
        BY <4>2, <4>4 DEF s
    <3> QED
      BY <2>0, <3>1 DEF Typed
  <2>5. pos \in 0 .. Len(round)
    <3>1. Len(round) \in Nat
      BY <2>0, LenProperties DEF Typed
    <3> QED
      BY <2>0, <3>1 DEF Typed, Bounded
  <2>6. stored \in SUBSET Numbers /\ unstored \in SUBSET Numbers
    <3>1. DOMAIN taken = 1 .. Len(taken)
      BY <2>0, LenProperties DEF Typed
    <3>2. DOMAIN taken \subseteq Numbers
      BY <2>0, <3>1 DEF Numbers, Bounded
    <3> QED
      BY <2>0, <3>2 DEF HistoryMissesNoTick
  <2>7. Len(taken) \in Numbers
    BY <2>0 DEF Numbers, Bounded
  <2> QED
    BY <2>0, <2>1, <2>2, <2>3, <2>4, <2>5, <2>6, <2>7 DEF TelemetryTypeOK, Typed
<1> QED
  BY <1>1, TelemetryInvHolds, PTL

\* No client gets broadcasts out of order or twice, and what reaches it from before
\* its greeting fits in the channel and the broadcaster's hand.
THEOREM FramesAlwaysInOrder == Spec => []FramesInOrder
<1>1. ASSUME TelemetryInv PROVE FramesInOrder
  <2> SUFFICES ASSUME NEW c \in Clients
               PROVE  /\ Rising(got[c])
                      /\ Cardinality({i \in DOMAIN got[c] : got[c][i] < greet[c]}) <= ChanSize + 1
    BY DEF FramesInOrder, Rising
  <2> DEFINE Late == {i \in DOMAIN got[c] : got[c][i] < greet[c]}
  <2>0. /\ Typed /\ Rising(got[c]) /\ 0 \notin Range(got[c])
        /\ Cardinality(Older(c)) <= ChanSize + 1
    BY <1>1 DEF TelemetryInv, Core, FrameInv, FrameClient
  <2>1. /\ greet[c] \in Nat /\ cur \in Nat
        /\ Range(got[c]) \cup Range(chan) \cup {cur} \subseteq Nat
        /\ DOMAIN got[c] \subseteq Nat /\ \A i \in DOMAIN got[c] : got[c][i] \in Nat
    BY <2>0, NumberFacts DEF Typed
  <2>2. IsFiniteSet(Older(c))
    <3>1. IsFiniteSet(0 .. greet[c])
      BY <2>1, FS_Interval
    <3>2. Older(c) \subseteq 0 .. greet[c]
      BY <2>1 DEF Older
    <3> QED
      BY <3>1, <3>2, FS_Subset
  <2>3. \A i \in Late : got[c][i] \in Older(c)
    BY <2>0 DEF Older, Range
  <2>4. \A i, j \in Late : got[c][i] = got[c][j] => i = j
    <3> SUFFICES ASSUME NEW i \in Late, NEW j \in Late, got[c][i] = got[c][j] PROVE i = j
      OBVIOUS
    <3>1. i \in Nat /\ j \in Nat /\ got[c][i] \in Nat
      BY <2>1
    <3>2. (i < j => got[c][i] < got[c][j]) /\ (j < i => got[c][j] < got[c][i])
      BY <2>0 DEF Rising
    <3> QED
      BY <3>1, <3>2
  <2> DEFINE f == [i \in Late |-> got[c][i]]
  <2> HIDE DEF Late
  <2>5. f \in Injection(Late, Older(c))
    BY <2>3, <2>4 DEF Injection, IsInjective
  <2> HIDE DEF f
  <2>6. IsFiniteSet(Late) /\ Cardinality(Late) <= Cardinality(Older(c))
    BY <2>2, <2>5, FS_Injection
  <2>7. Cardinality(Late) <= ChanSize + 1
    BY <2>0, <2>2, <2>6, FS_CardinalityType, TelemetryAssumption
  <2> QED
    BY <2>0, <2>7 DEF Late
<1> QED
  BY <1>1, TelemetryInvHolds, PTL

\* Every tick is in the history, unless the history itself failed, whether or not
\* the channel had room for it.
THEOREM HistoryComplete == Spec => []HistoryMissesNoTick
BY TelemetryInvHolds, PTL DEF TelemetryInv

\* A round ends with everyone served who is still on the roster and connected.
THEOREM NobodyEverSkipped == Spec => NobodySkipped
<1>1. Core /\ [Next]_vars => [NobodyLeftOut]_vars
  <2> SUFFICES ASSUME Core, Next PROVE NobodyLeftOut
    BY DEF vars
  <2>1. CASE Sent \/ SendFails
    BY <2>1, SendKeeps
  <2>2. CASE ~(Sent \/ SendFails)
    BY <2>2 DEF NobodyLeftOut, RoundEnds, Next, Tick, Emit, Offer, ControlLoadgen, StartRound,
                Join, Greeted, Disconnect, Leave, Rest, vars, casterVars
  <2> QED
    BY <2>1, <2>2
<1> QED
  BY <1>1, TelemetryInvHolds, PTL DEF TelemetryInv, Spec, NobodySkipped

\* No frame shows a client older settings than the frame before it.
THEOREM SettingsOnlyMoveOn == Spec => SettingsNeverGoBack
<1>1. Core /\ [Next]_vars => [ShownGrows]_vars
  <2> SUFFICES ASSUME Core, Next PROVE ShownGrows
    BY DEF vars
  <2>1. \A c \in Clients : shown'[c] = shown[c] \/ shown'[c] = settings
    <3>1. \/ shown' = shown
          \/ \E d : shown' = [shown EXCEPT ![d] = settings]
      BY DEF Next, Tick, Emit, ControlLoadgen, StartRound, HandTo, SettingsOf, Sent, SendFails,
             GoOn, Join, Greeted, Disconnect, Leave, Rest, vars
    <3> QED
      BY <3>1 DEF Core, Typed
  <2>2. \A c \in Clients : shown[c] \in Nat /\ settings \in Nat /\ shown[c] <= settings
    BY DEF Core, Typed, ShownInv
  <2> QED
    BY <2>1, <2>2 DEF ShownGrows
<1> QED
  BY <1>1, TelemetryInvHolds, PTL DEF TelemetryInv, Spec, SettingsNeverGoBack
=============================================================================
