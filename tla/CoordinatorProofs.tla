-------------------------- MODULE CoordinatorProofs --------------------------
(* Safety of the coordinator for any set of queries, any caps, and any number  *)
(* of reloads and cancellations.  The invariants speak of the two limiters and *)
(* of the point of each task together, so one inductive invariant carries them *)
(* all.  The lemmas that come first are about CapacityLimiter alone: what each *)
(* of its operations does, for any set of tasks and any number of tokens.      *)
EXTENDS Coordinator, FiniteSetTheorems, SequenceTheorems, TLAPS

\* A limiter as the code may leave it between two steps of the event loop.
Consistent(l, T) ==
    /\ l \in [total : Nat, borrowers : SUBSET T, lot : Seq(T)]
    /\ LotIsSane(l)
    /\ WorkConserving(l)

\* The first k tasks of a lot without duplicates are k tasks.
LEMMA HeadOfLot ==
    ASSUME NEW T, NEW s \in Seq(T), IsInjective(s), NEW k \in 0 .. Len(s)
    PROVE  /\ IsFiniteSet({s[i] : i \in 1 .. k})
           /\ Cardinality({s[i] : i \in 1 .. k}) = k
<1> DEFINE H == {s[i] : i \in 1 .. k}
           f == [i \in 1 .. k |-> s[i]]
<1>1. k \in Nat /\ 1 .. k \subseteq DOMAIN s
  BY LenProperties
<1>2. f \in Bijection(1 .. k, H)
  BY <1>1 DEF Bijection, Injection, Surjection, IsInjective
<1>3. ExistsBijection(1 .. k, H)
  BY <1>2 DEF ExistsBijection
<1>4. IsFiniteSet(1 .. k) /\ Cardinality(1 .. k) = k
  BY <1>1, FS_Interval
<1> QED
  BY <1>3, <1>4, FS_Bijection

\* Waking moves a prefix of the lot to the borrowers: nobody is lost, the tokens
\* handed out fit the cap, and the limiter is consistent afterwards.
LEMMA WakeLemma ==
    ASSUME NEW T, IsFiniteSet(T), NEW l,
           l \in [total : Nat, borrowers : SUBSET T, lot : Seq(T)],
           LotIsSane(l)
    PROVE  /\ Consistent(WakeWaiters(l), T)
           /\ WakeWaiters(l).total = l.total
           /\ l.borrowers \subseteq WakeWaiters(l).borrowers
           /\ WakeWaiters(l).borrowers \subseteq l.borrowers \cup Waiting(l)
           /\ Waiting(WakeWaiters(l)) = Waiting(l) \ WakeWaiters(l).borrowers
           /\ WakeWaiters(l).borrowers # l.borrowers
                => Cardinality(WakeWaiters(l).borrowers) <= l.total
<1> DEFINE k == Wakeable(l)
           H == {l.lot[i] : i \in 1 .. k}
           n == Len(l.lot)
           w == WakeWaiters(l)
<1>1. /\ IsFiniteSet(l.borrowers)
      /\ Cardinality(l.borrowers) \in Nat
  BY FS_Subset, FS_CardinalityType
<1>2. /\ n \in Nat /\ DOMAIN l.lot = 1 .. n
      /\ \A i \in 1 .. n : l.lot[i] \in T
  BY LenProperties
<1>3. /\ k \in 0 .. n
      /\ Cardinality(l.borrowers) + k <= l.total \/ k = 0
      /\ k < n => Cardinality(l.borrowers) + k >= l.total
  BY <1>1, <1>2 DEF Wakeable
<1>4. /\ w.total = l.total
      /\ w.borrowers = l.borrowers \cup H
      /\ w.lot = SubSeq(l.lot, k + 1, n)
      /\ DOMAIN w = {"total", "borrowers", "lot"}
      /\ w = [total |-> w.total, borrowers |-> w.borrowers, lot |-> w.lot]
  <2>1. w = [l EXCEPT !.borrowers = l.borrowers \cup H,
                      !.lot = SubSeq(l.lot, k + 1, n)]
    BY Zenon DEF WakeWaiters
  <2> HIDE DEF w, H, k, n
  <2> QED
    BY <2>1
<1>5. /\ IsFiniteSet(H) /\ Cardinality(H) = k
  BY <1>3, HeadOfLot DEF LotIsSane
<1>inj. \A i, j \in 1 .. n : l.lot[i] = l.lot[j] => i = j
  BY <1>2 DEF LotIsSane, IsInjective
<1> HIDE DEF k, w
<1>6. H \subseteq Waiting(l) /\ H \subseteq T
  BY <1>2, <1>3 DEF Waiting, Range
<1>7. Cardinality(l.borrowers \cup H) = Cardinality(l.borrowers) + k
  <2>1. l.borrowers \cap H = {}
    BY <1>6 DEF LotIsSane
  <2> QED
    <3>1. Cardinality(l.borrowers \cup H) =
            Cardinality(l.borrowers) + Cardinality(H) - Cardinality(l.borrowers \cap H)
      BY <1>1, <1>5, FS_Union
    <3>2. Cardinality(l.borrowers \cap H) = 0
      BY <2>1, FS_EmptySet
    <3> HIDE DEF H
    <3> QED
      BY <1>1, <1>3, <1>5, <3>1, <3>2
<1>8. /\ w.lot \in Seq(T)
      /\ Len(w.lot) = n - k
      /\ \A i \in 1 .. n - k : w.lot[i] = l.lot[k + i]
      /\ DOMAIN w.lot = 1 .. n - k
  <2>1. \A i \in k + 1 .. n : l.lot[i] \in T
    BY <1>2, <1>3
  <2>2. /\ SubSeq(l.lot, k + 1, n) \in Seq(T)
        /\ Len(SubSeq(l.lot, k + 1, n)) = IF k + 1 <= n THEN n - (k + 1) + 1 ELSE 0
        /\ \A i \in 1 .. n - (k + 1) + 1 :
              SubSeq(l.lot, k + 1, n)[i] = l.lot[k + 1 + i - 1]
    BY <1>2, <1>3, <2>1, SubSeqProperties
  <2>3. Len(w.lot) = n - k /\ w.lot \in Seq(T)
    BY <1>2, <1>3, <1>4, <2>2
  <2>4. \A i \in 1 .. n - k : w.lot[i] = l.lot[k + i]
    BY <1>2, <1>3, <1>4, <2>2
  <2> QED
    BY <2>3, <2>4, LenProperties
<1>9. IsInjective(w.lot)
  <2>1. ASSUME NEW i \in 1 .. n - k, NEW j \in 1 .. n - k, w.lot[i] = w.lot[j]
        PROVE  i = j
    <3>0. k + i \in 1 .. n /\ k + j \in 1 .. n
      <4>1. k \in Nat /\ n \in Nat /\ k <= n
        BY <1>2, <1>3
      <4> HIDE DEF k, n
      <4> QED
        BY <4>1
    <3>1. k + i \in 1 .. n /\ k + j \in 1 .. n /\ l.lot[k + i] = l.lot[k + j]
      BY <1>8, <2>1, <3>0
    <3>2. k + i = k + j
      BY <1>inj, <3>1
    <3> QED
      BY <1>2, <1>3, <3>2
  <2> QED
    BY <1>8, <2>1 DEF IsInjective
<1>10. Waiting(w) = Waiting(l) \ w.borrowers
  <2>1. ASSUME NEW t \in Waiting(w) PROVE t \in Waiting(l) \ w.borrowers
    <3>1. PICK i \in 1 .. n - k : t = l.lot[k + i]
      BY <1>8 DEF Waiting, Range
    <3>2. k + i \in 1 .. n /\ t \in Waiting(l)
      BY <1>2, <1>3, <3>1 DEF Waiting, Range
    <3>3. t \notin H
      <4>1. ASSUME NEW j \in 1 .. k PROVE t # l.lot[j]
        BY <1>2, <1>3, <1>inj, <3>1, <3>2
      <4> QED
        BY <4>1
    <3> QED
      BY <1>4, <3>2, <3>3 DEF LotIsSane
  <2>2. ASSUME NEW t \in Waiting(l) \ w.borrowers PROVE t \in Waiting(w)
    <3>1. PICK i \in 1 .. n : t = l.lot[i]
      BY <1>2 DEF Waiting, Range
    <3>2. i > k
      BY <1>3, <1>4, <3>1
    <3>3. i - k \in 1 .. n - k /\ w.lot[i - k] = t
      BY <1>2, <1>3, <1>8, <3>1, <3>2
    <3> QED
      BY <1>8, <3>3 DEF Waiting, Range
  <2> QED
    BY <2>1, <2>2
<1>11. LotIsSane(w)
  BY <1>9, <1>10 DEF LotIsSane
<1>12. WorkConserving(w)
  <2>1. w.lot # <<>> => k < n
    BY <1>2, <1>3, <1>8, EmptySeq
  <2> QED
    BY <1>3, <1>4, <1>7, <2>1 DEF WorkConserving
<1>13. w.borrowers # l.borrowers => Cardinality(w.borrowers) <= l.total
  <2>1. k = 0 => H = {}
    BY <1>5, FS_EmptySet
  <2> QED
    BY <1>3, <1>4, <1>7, <2>1
<1>14. w \in [total : Nat, borrowers : SUBSET T, lot : Seq(T)]
  BY <1>4, <1>6, <1>8
<1> HIDE DEF H
<1> USE DEF w
<1> QED
  BY <1>4, <1>6, <1>10, <1>11, <1>12, <1>13, <1>14 DEF Consistent

\* A released token goes back or straight to the head of the lot.
LEMMA ReleaseLemma ==
    ASSUME NEW T, IsFiniteSet(T), NEW l, Consistent(l, T), NEW t \in l.borrowers
    PROVE  /\ Consistent(Release(l, t), T)
           /\ Release(l, t).total = l.total
           /\ l.borrowers \ {t} \subseteq Release(l, t).borrowers
           /\ Release(l, t).borrowers \subseteq (l.borrowers \ {t}) \cup Waiting(l)
           /\ Waiting(Release(l, t)) = Waiting(l) \ Release(l, t).borrowers
           /\ Release(l, t).borrowers # l.borrowers \ {t}
                => Cardinality(Release(l, t).borrowers) <= l.total
<1> DEFINE m == [l EXCEPT !.borrowers = @ \ {t}]
<1>1. /\ m \in [total : Nat, borrowers : SUBSET T, lot : Seq(T)]
      /\ m.total = l.total /\ m.borrowers = l.borrowers \ {t} /\ m.lot = l.lot
  BY DEF Consistent
<1>2. Waiting(m) = Waiting(l)
  BY <1>1 DEF Waiting
<1>3. LotIsSane(m)
  BY <1>1, <1>2 DEF Consistent, LotIsSane
<1>4. Release(l, t) = WakeWaiters(m)
  BY DEF Release
<1> HIDE DEF m
<1> QED
  BY <1>1, <1>2, <1>3, <1>4, WakeLemma

\* A change of the cap hands out the tokens that it adds and takes none back.
LEMMA SetTotalLemma ==
    ASSUME NEW T, IsFiniteSet(T), NEW l, Consistent(l, T), NEW n \in Nat
    PROVE  /\ Consistent(SetTotal(l, n), T)
           /\ SetTotal(l, n).total = n
           /\ l.borrowers \subseteq SetTotal(l, n).borrowers
           /\ SetTotal(l, n).borrowers \subseteq l.borrowers \cup Waiting(l)
           /\ Waiting(SetTotal(l, n)) = Waiting(l) \ SetTotal(l, n).borrowers
           /\ SetTotal(l, n).borrowers # l.borrowers
                => Cardinality(SetTotal(l, n).borrowers) <= n
<1> DEFINE m == [l EXCEPT !.total = n]
<1>1. /\ m \in [total : Nat, borrowers : SUBSET T, lot : Seq(T)]
      /\ m.total = n /\ m.borrowers = l.borrowers /\ m.lot = l.lot
  BY DEF Consistent
<1>2. Waiting(m) = Waiting(l)
  BY <1>1 DEF Waiting
<1>3. LotIsSane(m)
  BY <1>1, <1>2 DEF Consistent, LotIsSane
<1>4. SetTotal(l, n) = WakeWaiters(m)
  BY DEF SetTotal
<1> HIDE DEF m
<1> QED
  BY <1>1, <1>2, <1>3, <1>4, WakeLemma
-----------------------------------------------------------------------------
\* A task that asks for a token gets a free one or waits at the end of the lot.
LEMMA AcquireLemma ==
    ASSUME NEW T, IsFiniteSet(T), NEW l, Consistent(l, T),
           NEW t \in T, t \notin l.borrowers, t \notin Waiting(l)
    PROVE  /\ Consistent(Acquire(l, t), T)
           /\ Acquire(l, t).total = l.total
           /\ \/ /\ Acquire(l, t).borrowers = l.borrowers \cup {t}
                 /\ Waiting(Acquire(l, t)) = Waiting(l)
                 /\ Cardinality(l.borrowers \cup {t}) <= l.total
              \/ /\ Acquire(l, t).borrowers = l.borrowers
                 /\ Waiting(Acquire(l, t)) = Waiting(l) \cup {t}
<1> DEFINE a == Acquire(l, t)
<1>1. /\ IsFiniteSet(l.borrowers) /\ Cardinality(l.borrowers) \in Nat
      /\ Cardinality(l.borrowers \cup {t}) = Cardinality(l.borrowers) + 1
  BY FS_Subset, FS_CardinalityType, FS_AddElement DEF Consistent
<1>2. CASE HasFreeToken(l)
  <2>1. /\ a \in [total : Nat, borrowers : SUBSET T, lot : Seq(T)]
        /\ a.total = l.total /\ a.borrowers = l.borrowers \cup {t} /\ a.lot = l.lot
    BY <1>2 DEF Acquire, Consistent
  <2>2. Waiting(a) = Waiting(l)
    BY <2>1 DEF Waiting
  <2>3. Cardinality(l.borrowers \cup {t}) <= l.total
    BY <1>1, <1>2 DEF HasFreeToken, Consistent
  <2>4. Consistent(a, T)
    BY <1>2, <2>1, <2>2 DEF Consistent, LotIsSane, WorkConserving, HasFreeToken
  <2> HIDE DEF a
  <2> QED
    BY <2>1, <2>2, <2>3, <2>4 DEF a
<1>3. CASE ~HasFreeToken(l)
  <2> DEFINE n == Len(l.lot)
  <2>1. /\ l.lot \in Seq(T) /\ n \in Nat /\ DOMAIN l.lot = 1 .. n
    BY LenProperties DEF Consistent
  <2>2. /\ a.lot = Append(l.lot, t) /\ a.borrowers = l.borrowers /\ a.total = l.total
        /\ a \in [total : Nat, borrowers : SUBSET T, lot : Seq(T)]
    BY <1>3, <2>1, AppendProperties DEF Acquire, Consistent
  <2>3. /\ DOMAIN a.lot = 1 .. n + 1 /\ a.lot[n + 1] = t
        /\ \A i \in 1 .. n : a.lot[i] = l.lot[i]
    <3>1. /\ Append(l.lot, t) \in Seq(T) /\ Len(Append(l.lot, t)) = n + 1
          /\ \A i \in 1 .. n : Append(l.lot, t)[i] = l.lot[i]
          /\ Append(l.lot, t)[n + 1] = t
      BY <2>1, AppendProperties
    <3> QED
      BY <2>2, <3>1, LenProperties
  <2>4. Waiting(a) = Waiting(l) \cup {t}
    <3> HIDE DEF a, n
    <3>1. /\ Waiting(a) = {a.lot[i] : i \in 1 .. n + 1}
          /\ Waiting(l) = {l.lot[i] : i \in 1 .. n}
      BY <2>1, <2>3 DEF Waiting, Range
    <3>2. 1 .. n + 1 = (1 .. n) \cup {n + 1}
      BY <2>1
    <3>3. \A i \in 1 .. n + 1 : a.lot[i] \in Waiting(l) \cup {t}
      BY <2>3, <3>1, <3>2
    <3>4. \A i \in 1 .. n : l.lot[i] \in Waiting(a)
      BY <2>3, <3>1, <3>2
    <3>5. t \in Waiting(a)
      BY <2>3, <3>1, <3>2
    <3> QED
      BY <3>1, <3>3, <3>4, <3>5
  <2>5. LotIsSane(a)
    <3>1. \A i \in 1 .. n : l.lot[i] # t
      BY <2>1 DEF Waiting, Range
    <3>2. IsInjective(a.lot)
      BY <2>1, <2>3, <3>1 DEF IsInjective, Consistent, LotIsSane
    <3> QED
      BY <2>2, <2>4, <3>2 DEF LotIsSane, Consistent
  <2>6. WorkConserving(a)
    BY <1>1, <1>3, <2>2 DEF WorkConserving, HasFreeToken, Consistent
  <2> HIDE DEF a
  <2> QED
    BY <2>2, <2>4, <2>5, <2>6 DEF Consistent, a
<1> QED
  BY <1>2, <1>3

\* A task that leaves the lot changes nothing else.
LEMMA LeaveLotLemma ==
    ASSUME NEW T, NEW l, Consistent(l, T), NEW t
    PROVE  /\ Consistent(LeaveLot(l, t), T)
           /\ LeaveLot(l, t).total = l.total
           /\ LeaveLot(l, t).borrowers = l.borrowers
           /\ Waiting(LeaveLot(l, t)) = Waiting(l) \ {t}
<1>1. CASE t \notin Waiting(l)
  BY <1>1 DEF LeaveLot
<1>2. CASE t \in Waiting(l)
  <2> DEFINE s == l.lot
             n == Len(s)
             p == CHOOSE i \in DOMAIN s : s[i] = t
             r == RemoveAt(s, p)
             m == LeaveLot(l, t)
  <2>1. s \in Seq(T) /\ n \in Nat /\ DOMAIN s = 1 .. n /\ IsInjective(s)
    BY LenProperties DEF Consistent, LotIsSane
  <2>2. p \in 1 .. n /\ s[p] = t
    BY <1>2, <2>1 DEF Waiting, Range
  <2>3. \A i \in 1 .. n : s[i] \in T
    BY <2>1, ElementOfSeq
  <2> HIDE DEF p
  <2>4. /\ r \in Seq(T) /\ Len(r) = n - 1
        /\ \A i \in 1 .. n - 1 : r[i] = IF i < p THEN s[i] ELSE s[i + 1]
    <3> DEFINE a == SubSeq(s, 1, p - 1)
               b == SubSeq(s, p + 1, n)
    <3>1. /\ a \in Seq(T) /\ Len(a) = p - 1
          /\ \A i \in 1 .. p - 1 : a[i] = s[i]
      <4>1. /\ a \in Seq(T)
            /\ Len(a) = IF 1 <= p - 1 THEN (p - 1) - 1 + 1 ELSE 0
            /\ \A i \in 1 .. (p - 1) - 1 + 1 : a[i] = s[1 + i - 1]
        <5>1. \A i \in 1 .. p - 1 : s[i] \in T
          BY <2>1, <2>2, <2>3
        <5> QED
          BY <2>1, <2>2, <5>1, SubSeqProperties
      <4> HIDE DEF a
      <4> QED
        BY <2>1, <2>2, <4>1
    <3>2. /\ b \in Seq(T) /\ Len(b) = n - p
          /\ \A i \in 1 .. n - p : b[i] = s[p + i]
      <4>1. /\ b \in Seq(T)
            /\ Len(b) = IF p + 1 <= n THEN n - (p + 1) + 1 ELSE 0
            /\ \A i \in 1 .. n - (p + 1) + 1 : b[i] = s[p + 1 + i - 1]
        <5>1. \A i \in p + 1 .. n : s[i] \in T
          BY <2>1, <2>2, <2>3
        <5> QED
          BY <2>1, <2>2, <5>1, SubSeqProperties
      <4> HIDE DEF b
      <4> QED
        BY <2>1, <2>2, <4>1
    <3>3. r = a \o b
      BY DEF RemoveAt
    <3> HIDE DEF a, b, r
    <3>4. /\ r \in Seq(T) /\ Len(r) = (p - 1) + (n - p)
          /\ \A i \in 1 .. (p - 1) + (n - p) :
                r[i] = IF i <= p - 1 THEN a[i] ELSE b[i - (p - 1)]
      <4>1. /\ a \o b \in Seq(T) /\ Len(a \o b) = Len(a) + Len(b)
            /\ \A i \in 1 .. Len(a) + Len(b) :
                  (a \o b)[i] = IF i <= Len(a) THEN a[i] ELSE b[i - Len(a)]
        BY <3>1, <3>2, ConcatProperties
      <4> QED
        BY <3>1, <3>2, <3>3, <4>1
    <3>5. ASSUME NEW i \in 1 .. n - 1
          PROVE  r[i] = IF i < p THEN s[i] ELSE s[i + 1]
      <4>1. CASE i < p
        BY <2>1, <2>2, <3>1, <3>4, <4>1
      <4>2. CASE i >= p
        <5>1. i - (p - 1) \in 1 .. n - p /\ p + (i - (p - 1)) = i + 1
          BY <2>1, <2>2, <4>2
        <5> QED
          BY <2>1, <2>2, <3>2, <3>4, <4>2, <5>1
      <4> QED
        BY <2>1, <2>2, <4>1, <4>2
    <3> QED
      BY <2>1, <2>2, <3>4, <3>5
  <2>5. DOMAIN r = 1 .. n - 1
    BY <2>1, <2>4, LenProperties
  <2>6. /\ m.lot = r /\ m.borrowers = l.borrowers /\ m.total = l.total
        /\ m \in [total : Nat, borrowers : SUBSET T, lot : Seq(T)]
    BY <1>2, <2>4 DEF LeaveLot, Consistent, p
  <2> HIDE DEF r, m
  <2>7. IsInjective(r)
    <3>1. \A i, j \in 1 .. n : s[i] = s[j] => i = j
      BY <2>1 DEF IsInjective
    <3>2. ASSUME NEW i \in 1 .. n - 1, NEW j \in 1 .. n - 1, r[i] = r[j]
          PROVE  i = j
      <4> DEFINE e(x) == IF x < p THEN x ELSE x + 1
      <4>1. e(i) \in 1 .. n /\ e(j) \in 1 .. n /\ s[e(i)] = s[e(j)]
        <5>1. e(i) \in 1 .. n /\ e(j) \in 1 .. n
          BY <2>1, <2>2
        <5>2. \A x \in 1 .. n - 1 : r[x] = s[e(x)]
          BY <2>4
        <5>3. r[i] = s[e(i)] /\ r[j] = s[e(j)]
          BY <5>2
        <5> QED
          BY <3>2, <5>1, <5>3
      <4>2. e(i) = e(j)
        BY <3>1, <4>1
      <4> QED
        BY <2>1, <2>2, <4>2
    <3> QED
      BY <2>5, <3>2 DEF IsInjective
  <2>8. Waiting(m) = Waiting(l) \ {t}
    <3>1. ASSUME NEW x \in Waiting(m) PROVE x \in Waiting(l) \ {t}
      <4>1. PICK i \in 1 .. n - 1 : x = r[i]
        BY <2>5, <2>6 DEF Waiting, Range
      <4>2. \E j \in 1 .. n : j # p /\ x = s[j]
        BY <2>1, <2>2, <2>4, <4>1
      <4> QED
        BY <2>1, <2>2, <4>2 DEF Waiting, Range, IsInjective
    <3>2. ASSUME NEW x \in Waiting(l) \ {t} PROVE x \in Waiting(m)
      <4>1. PICK j \in 1 .. n : x = s[j]
        BY <2>1 DEF Waiting, Range
      <4>2. j # p
        BY <2>2, <4>1
      <4>3. CASE j < p
        <5>1. j \in 1 .. n - 1 /\ r[j] = x
          BY <2>1, <2>2, <2>4, <4>1, <4>3
        <5> QED
          BY <2>5, <2>6, <5>1 DEF Waiting, Range
      <4>4. CASE j > p
        <5>1. j - 1 \in 1 .. n - 1 /\ ~(j - 1 < p) /\ (j - 1) + 1 = j
          BY <2>1, <2>2, <4>4
        <5>2. r[j - 1] = x
          BY <2>4, <4>1, <5>1
        <5> QED
          BY <2>5, <2>6, <5>1, <5>2 DEF Waiting, Range
      <4> QED
        BY <2>1, <2>2, <4>2, <4>3, <4>4
    <3> QED
      BY <3>1, <3>2
  <2>9. LotIsSane(m)
    BY <2>6, <2>7, <2>8 DEF LotIsSane, Consistent
  <2>10. WorkConserving(m)
    <3>1. s # <<>>
      BY <2>1, <2>2, EmptySeq
    <3> QED
      BY <2>6, <3>1 DEF WorkConserving, Consistent
  <2> QED
    BY <2>6, <2>8, <2>9, <2>10 DEF Consistent, m
<1> QED
  BY <1>1, <1>2
-----------------------------------------------------------------------------
(* The order of service *)

\* Waking serves the lot from its head: who stays behind stood behind.
LEMMA WakeInOrder ==
    ASSUME NEW T, NEW l, l \in [total : Nat, borrowers : SUBSET T, lot : Seq(T)],
           IsFiniteSet(l.borrowers),
           NEW q \in WakeWaiters(l).borrowers \ l.borrowers, NEW p \in Waiting(l)
    PROVE  \/ p \in WakeWaiters(l).borrowers
           \/ \E i, j \in DOMAIN l.lot : i < j /\ l.lot[i] = q /\ l.lot[j] = p
<1> DEFINE k == Wakeable(l)
           H == {l.lot[i] : i \in 1 .. k}
           w == WakeWaiters(l)
           n == Len(l.lot)
<1>1. w.borrowers = l.borrowers \cup H
  <2>1. w = [l EXCEPT !.borrowers = l.borrowers \cup H,
                      !.lot = SubSeq(l.lot, k + 1, n)]
    BY Zenon DEF WakeWaiters
  <2> HIDE DEF w, H, k, n
  <2> QED
    BY <2>1
<1>2. n \in Nat /\ DOMAIN l.lot = 1 .. n
  BY LenProperties
<1>3. k \in 0 .. n
  BY <1>2, FS_CardinalityType DEF Wakeable
<1> HIDE DEF k, w, n
<1>4. PICK i \in 1 .. k : l.lot[i] = q
  BY <1>1 DEF w
<1>5. PICK j \in DOMAIN l.lot : l.lot[j] = p
  BY DEF Waiting, Range
<1>6. CASE j <= k
  <2>1. p \in w.borrowers
    BY <1>1, <1>2, <1>3, <1>5, <1>6
  <2> QED
    BY <2>1 DEF w
<1>7. CASE ~(j <= k)
  BY <1>2, <1>3, <1>4, <1>5, <1>7
<1> QED
  BY <1>6, <1>7

LEMMA ReleaseInOrder ==
    ASSUME NEW T, IsFiniteSet(T), NEW l, Consistent(l, T), NEW t,
           NEW q \in Release(l, t).borrowers \ l.borrowers, NEW p \in Waiting(l)
    PROVE  \/ p \in Release(l, t).borrowers
           \/ \E i, j \in DOMAIN l.lot : i < j /\ l.lot[i] = q /\ l.lot[j] = p
<1> DEFINE m == [l EXCEPT !.borrowers = @ \ {t}]
<1>1. /\ m \in [total : Nat, borrowers : SUBSET T, lot : Seq(T)]
      /\ m.borrowers \subseteq l.borrowers /\ m.lot = l.lot
  BY DEF Consistent
<1>2. Waiting(m) = Waiting(l) /\ Release(l, t) = WakeWaiters(m)
  BY <1>1 DEF Waiting, Release
<1>3. IsFiniteSet(m.borrowers)
  BY <1>1, FS_Subset
<1> HIDE DEF m
<1>4. q \in WakeWaiters(m).borrowers \ m.borrowers /\ p \in Waiting(m)
  BY <1>1, <1>2
<1> QED
  BY <1>1, <1>2, <1>3, <1>4, WakeInOrder

LEMMA SetTotalInOrder ==
    ASSUME NEW T, IsFiniteSet(T), NEW l, Consistent(l, T), NEW n \in Nat,
           NEW q \in SetTotal(l, n).borrowers \ l.borrowers, NEW p \in Waiting(l)
    PROVE  \/ p \in SetTotal(l, n).borrowers
           \/ \E i, j \in DOMAIN l.lot : i < j /\ l.lot[i] = q /\ l.lot[j] = p
<1> DEFINE m == [l EXCEPT !.total = n]
<1>1. /\ m \in [total : Nat, borrowers : SUBSET T, lot : Seq(T)]
      /\ m.borrowers = l.borrowers /\ m.lot = l.lot
  BY DEF Consistent
<1>2. Waiting(m) = Waiting(l) /\ SetTotal(l, n) = WakeWaiters(m)
  BY <1>1 DEF Waiting, SetTotal
<1>3. IsFiniteSet(m.borrowers)
  BY <1>1, FS_Subset
<1> HIDE DEF m
<1>4. q \in WakeWaiters(m).borrowers \ m.borrowers /\ p \in Waiting(m)
  BY <1>1, <1>2
<1> QED
  BY <1>1, <1>2, <1>3, <1>4, WakeInOrder

\* A newcomer takes a token only when nobody is parked.
LEMMA AcquireInOrder ==
    ASSUME NEW T, NEW l, Consistent(l, T), NEW t
    PROVE  /\ Acquire(l, t).borrowers \in {l.borrowers, l.borrowers \cup {t}}
           /\ Acquire(l, t).borrowers # l.borrowers => Waiting(l) = {}
<1>1. CASE HasFreeToken(l)
  <2>1. l.lot = << >> /\ Waiting(l) = {}
    BY <1>1, EmptySeq DEF HasFreeToken, Waiting, Range
  <2> QED
    BY <1>1, <2>1 DEF Acquire, Consistent
<1>2. CASE ~HasFreeToken(l)
  BY <1>2 DEF Acquire, Consistent
<1> QED
  BY <1>1, <1>2
-----------------------------------------------------------------------------
\* The type invariant without the limiters.
CallTypes ==
    /\ maxQueries \in AllCaps /\ maxWalks \in AllCaps
    /\ booted \in BOOLEAN
    /\ pc \in [Queries -> Points]
    /\ live \in [Queries -> {"absent", "acquiring", "running"}]
    /\ count \in [Terminal \cup {"total"} -> Nat]
    /\ peak \in Nat
    /\ history \in Seq([query : Queries, status : Terminal])
    /\ cancelled \in SUBSET Queries /\ expired \in SUBSET Queries
    /\ reloads \in Nat /\ cancels \in Nat

\* The limiters carry the present caps once they exist, and are unused before.
Pools ==
    /\ Consistent(ql, Queries) /\ Consistent(rwl, Walks)
    /\ booted => ql.total = maxQueries /\ rwl.total = maxWalks
    /\ ~booted =>
          /\ ql = NewLimiter(0) /\ rwl = NewLimiter(0)
          /\ \A q \in Queries : pc[q] \in {"idle", "done"}

\* Only a walk waits for a token of Layer B.
WalkPoint == \A q \in Queries : pc[q] = "walk" => q \in Walks

IInv == CallTypes /\ Pools /\ WalkPoint /\ SlotsMatchTasks

LEMMA ConstantFacts ==
    /\ AllCaps \subseteq Nat \ {0}
    /\ IsFiniteSet(Queries) /\ IsFiniteSet(Walks) /\ IsFiniteSet(UserQueries)
    /\ Walks \subseteq Queries /\ UserQueries \subseteq Queries
    /\ Queries = UserQueries \cup Walks
    /\ MaxHistory \in Nat \ {0}
BY QueriesAssumption, CapsAssumption, BoundsAssumption, FS_Union DEF AllCaps, Queries

\* An unused limiter is consistent.
LEMMA NewLimiterLemma ==
    ASSUME NEW T, NEW n \in Nat
    PROVE  /\ Consistent(NewLimiter(n), T)
           /\ NewLimiter(n).total = n
           /\ NewLimiter(n).borrowers = {}
           /\ NewLimiter(n).lot = <<>>
           /\ Waiting(NewLimiter(n)) = {}
<1>1. << >> \in Seq(T) /\ DOMAIN << >> = {}
  BY EmptySeq
<1> QED
  BY <1>1 DEF Consistent, NewLimiter, LotIsSane, WorkConserving, Waiting, Range,
              IsInjective

\* _bootstrap changes no borrower and no waiter.
LEMMA BootstrapLemma ==
    ASSUME IInv
    PROVE  /\ Consistent(QueryPool, Queries) /\ Consistent(WalkPool, Walks)
           /\ QueryPool.total = maxQueries /\ WalkPool.total = maxWalks
           /\ QueryPool.borrowers = ql.borrowers /\ WalkPool.borrowers = rwl.borrowers
           /\ Waiting(QueryPool) = Waiting(ql) /\ Waiting(WalkPool) = Waiting(rwl)
<1>1. maxQueries \in Nat /\ maxWalks \in Nat /\ 0 \in Nat /\ booted \in BOOLEAN
  BY ConstantFacts DEF IInv, CallTypes
<1>2. CASE booted
  BY <1>2 DEF QueryPool, WalkPool, IInv, Pools
<1>3. CASE ~booted
  BY <1>1, <1>3, NewLimiterLemma DEF QueryPool, WalkPool, IInv, Pools
<1> QED
  BY <1>1, <1>2, <1>3

\* The history stays a sequence of results.
LEMMA RecordLemma ==
    ASSUME NEW S, NEW h \in Seq([query : S, status : Terminal]),
           NEW q \in S, NEW s \in Terminal, MaxHistory \in Nat
    PROVE  Record(h, q, s) \in Seq([query : S, status : Terminal])
<1> DEFINE R == [query : S, status : Terminal]
           h1 == Append(h, [query |-> q, status |-> s])
<1>1. h1 \in Seq(R) /\ Len(h1) \in Nat
  BY AppendProperties, LenProperties
<1>0. Record(h, q, s) = IF Len(h1) > MaxHistory
                        THEN SubSeq(h1, Len(h1) - MaxHistory + 1, Len(h1)) ELSE h1
  BY DEF Record
<1> HIDE DEF h1, R
<1>2. CASE Len(h1) > MaxHistory
  <2>1. \A i \in Len(h1) - MaxHistory + 1 .. Len(h1) : h1[i] \in R
    BY <1>1, <1>2, ElementOfSeq
  <2>2. SubSeq(h1, Len(h1) - MaxHistory + 1, Len(h1)) \in Seq(R)
    BY <1>1, <2>1, SubSeqProperties
  <2> QED
    BY <1>0, <1>2, <2>2 DEF R
<1>3. CASE ~(Len(h1) > MaxHistory)
  BY <1>0, <1>1, <1>3 DEF R
<1> QED
  BY <1>2, <1>3
-----------------------------------------------------------------------------
\* Every action keeps the types.
LEMMA TypesStep ==
    ASSUME IInv, [Next]_vars
    PROVE  CallTypes'
<1> USE ConstantFacts DEF IInv, CallTypes
<1>fin. ASSUME NEW q \in Queries, NEW s \in Terminal, Finish(q, s)
        PROVE  CallTypes'
  <2>1. history' \in Seq([query : Queries, status : Terminal])
    BY <1>fin, RecordLemma DEF Finish
  <2> QED
    BY <1>fin, <2>1 DEF Finish, Counted, confVars, Points, Terminal
<1>1. ASSUME NEW q \in Queries, FindPeer(q) PROVE CallTypes'
  BY <1>1 DEF FindPeer, confVars, Points
<1>2. ASSUME NEW q \in Queries, WalkAdmitted(q) PROVE CallTypes'
  BY <1>2 DEF WalkAdmitted, confVars, Points
<1>3. ASSUME NEW q \in Queries, Execute(q) PROVE CallTypes'
  <2>1. Cardinality(Running \cup {q}) \in Nat
    <3>1. Running \cup {q} \subseteq Queries
      BY DEF Running
    <3> QED
      BY <3>1, FS_Subset, FS_CardinalityType
  <2> QED
    BY <1>3, <2>1 DEF Execute, confVars, poolVars, Points
<1>4. ASSUME NEW q \in Queries, QueryReturns(q) \/ QueryRaises(q) \/ Unwind(q)
      PROVE  CallTypes'
  BY <1>4, <1>fin DEF QueryReturns, QueryRaises, Unwind, Terminal
<1>5. ASSUME NEW q \in Queries, Deadline(q) PROVE CallTypes'
  BY <1>5 DEF Deadline, confVars, poolVars
<1>6. ASSUME NEW q \in Queries, Cancel(q) PROVE CallTypes'
  BY <1>6 DEF Cancel, confVars, Points
<1>7. ASSUME NEW nq \in AllCaps, NEW nw \in AllCaps, UpdateConfig(nq, nw)
      PROVE  CallTypes'
  BY <1>7 DEF UpdateConfig, Reconfigure, callVars
<1>8. CASE UNCHANGED vars
  BY <1>8 DEF vars, callVars, confVars, poolVars
<1> QED
  BY <1>1, <1>2, <1>3, <1>4, <1>5, <1>6, <1>7, <1>8 DEF Next, QueryStep, Rest

\* What every action but Finish's callers does to the pools.
PoolStep == Pools' /\ WalkPoint' /\ SlotsMatchTasks' /\ AdmissionFits

LEMMA FindPeerPools ==
    ASSUME IInv, NEW q \in Queries, FindPeer(q) PROVE PoolStep
<1>1. /\ pc[q] = "idle" /\ pc \in [Queries -> Points]
      /\ q \notin ql.borrowers /\ q \notin Waiting(ql)
      /\ q \notin rwl.borrowers /\ q \notin Waiting(rwl)
  BY DEF FindPeer, IInv, CallTypes, SlotsMatchTasks
<1>2. /\ booted' /\ maxQueries' = maxQueries /\ maxWalks' = maxWalks
  BY DEF FindPeer, confVars
<1> DEFINE Q == QueryPool  W == WalkPool
<1>3. /\ Consistent(Q, Queries) /\ Consistent(W, Walks)
      /\ Q.total = maxQueries /\ W.total = maxWalks
      /\ Q.borrowers = ql.borrowers /\ W.borrowers = rwl.borrowers
      /\ Waiting(Q) = Waiting(ql) /\ Waiting(W) = Waiting(rwl)
  BY BootstrapLemma
<1> HIDE DEF Q, W
<1>4. CASE q \in cancelled /\ pc' = [pc EXCEPT ![q] = "abort"] /\ ql' = Q /\ rwl' = W
  BY <1>1, <1>2, <1>3, <1>4, ConstantFacts
     DEF PoolStep, Pools, WalkPoint, SlotsMatchTasks, AdmissionFits, Admits, IInv
<1>5. CASE /\ q \in Walks /\ pc' = [pc EXCEPT ![q] = "walk"]
           /\ rwl' = Acquire(W, q) /\ ql' = Q
  <2>1. /\ Consistent(rwl', Walks) /\ rwl'.total = maxWalks
        /\ \/ /\ rwl'.borrowers = rwl.borrowers \cup {q}
              /\ Waiting(rwl') = Waiting(rwl)
              /\ Cardinality(rwl'.borrowers) <= maxWalks
           \/ /\ rwl'.borrowers = rwl.borrowers
              /\ Waiting(rwl') = Waiting(rwl) \cup {q}
    <3>1. /\ Consistent(Acquire(W, q), Walks) /\ Acquire(W, q).total = W.total
          /\ \/ /\ Acquire(W, q).borrowers = W.borrowers \cup {q}
                /\ Waiting(Acquire(W, q)) = Waiting(W)
                /\ Cardinality(W.borrowers \cup {q}) <= W.total
             \/ /\ Acquire(W, q).borrowers = W.borrowers
                /\ Waiting(Acquire(W, q)) = Waiting(W) \cup {q}
      <4>1. q \in Walks /\ q \notin W.borrowers /\ q \notin Waiting(W)
        BY <1>1, <1>3, <1>5
      <4>2. Consistent(W, Walks) /\ IsFiniteSet(Walks)
        BY <1>3, ConstantFacts
      <4> QED
        BY <4>1, <4>2, AcquireLemma
    <3>2. rwl' = Acquire(W, q)
      BY <1>5
    <3> QED
      BY <1>3, <3>1, <3>2
  <2> QED
    BY <1>1, <1>2, <1>3, <1>5, <2>1, ConstantFacts
       DEF PoolStep, Pools, WalkPoint, SlotsMatchTasks, AdmissionFits, Admits, IInv
<1>6. CASE /\ q \in UserQueries /\ pc' = [pc EXCEPT ![q] = "query"]
           /\ ql' = Acquire(Q, q) /\ rwl' = W
  <2>1. /\ Consistent(ql', Queries) /\ ql'.total = maxQueries
        /\ \/ /\ ql'.borrowers = ql.borrowers \cup {q}
              /\ Waiting(ql') = Waiting(ql)
              /\ Cardinality(ql'.borrowers) <= maxQueries
           \/ /\ ql'.borrowers = ql.borrowers
              /\ Waiting(ql') = Waiting(ql) \cup {q}
    <3>1. /\ Consistent(Acquire(Q, q), Queries) /\ Acquire(Q, q).total = Q.total
          /\ \/ /\ Acquire(Q, q).borrowers = Q.borrowers \cup {q}
                /\ Waiting(Acquire(Q, q)) = Waiting(Q)
                /\ Cardinality(Q.borrowers \cup {q}) <= Q.total
             \/ /\ Acquire(Q, q).borrowers = Q.borrowers
                /\ Waiting(Acquire(Q, q)) = Waiting(Q) \cup {q}
      <4>1. q \in Queries /\ q \notin Q.borrowers /\ q \notin Waiting(Q)
        BY <1>1, <1>3, <1>6
      <4>2. Consistent(Q, Queries) /\ IsFiniteSet(Queries)
        BY <1>3, ConstantFacts
      <4> QED
        BY <4>1, <4>2, AcquireLemma
    <3>2. ql' = Acquire(Q, q)
      BY <1>6
    <3> QED
      BY <1>3, <3>1, <3>2
  <2>2. q \notin Walks
    BY <1>6, QueriesAssumption
  <2> QED
    BY <1>1, <1>2, <1>3, <1>6, <2>1, <2>2, ConstantFacts
       DEF PoolStep, Pools, WalkPoint, SlotsMatchTasks, AdmissionFits, Admits, IInv
<1> QED
  BY <1>4, <1>5, <1>6, ConstantFacts DEF FindPeer, IsBackground, Q, W

LEMMA WalkAdmittedPools ==
    ASSUME IInv, NEW q \in Queries, WalkAdmitted(q) PROVE PoolStep
<1>1. /\ pc[q] = "walk" /\ q \in rwl.borrowers /\ q \in Walks
      /\ pc \in [Queries -> Points]
      /\ q \notin ql.borrowers /\ q \notin Waiting(ql) /\ booted
  BY DEF WalkAdmitted, IInv, CallTypes, SlotsMatchTasks, Pools, WalkPoint
<1>2. /\ booted' = booted /\ maxQueries' = maxQueries /\ maxWalks' = maxWalks
      /\ rwl' = rwl
  BY DEF WalkAdmitted, confVars
<1>3. /\ Consistent(ql, Queries) /\ ql.total = maxQueries
      /\ Waiting(rwl) \cap rwl.borrowers = {}
  BY <1>1 DEF IInv, Pools, Consistent, LotIsSane
<1>4. CASE pc' = [pc EXCEPT ![q] = "abort"] /\ ql' = ql
  BY <1>1, <1>2, <1>3, <1>4
     DEF PoolStep, Pools, WalkPoint, SlotsMatchTasks, AdmissionFits, Admits, IInv
<1>5. CASE pc' = [pc EXCEPT ![q] = "query"] /\ ql' = Acquire(ql, q)
  <2>1. /\ Consistent(ql', Queries) /\ ql'.total = maxQueries
        /\ \/ /\ ql'.borrowers = ql.borrowers \cup {q}
              /\ Waiting(ql') = Waiting(ql)
              /\ Cardinality(ql'.borrowers) <= maxQueries
           \/ /\ ql'.borrowers = ql.borrowers
              /\ Waiting(ql') = Waiting(ql) \cup {q}
    <3>1. /\ Consistent(Acquire(ql, q), Queries) /\ Acquire(ql, q).total = ql.total
          /\ \/ /\ Acquire(ql, q).borrowers = ql.borrowers \cup {q}
                /\ Waiting(Acquire(ql, q)) = Waiting(ql)
                /\ Cardinality(ql.borrowers \cup {q}) <= ql.total
             \/ /\ Acquire(ql, q).borrowers = ql.borrowers
                /\ Waiting(Acquire(ql, q)) = Waiting(ql) \cup {q}
      <4>1. q \in Queries /\ q \notin ql.borrowers /\ q \notin Waiting(ql)
        BY <1>1, <1>3, <1>5
      <4>2. Consistent(ql, Queries) /\ IsFiniteSet(Queries)
        BY <1>3, ConstantFacts
      <4> QED
        BY <4>1, <4>2, AcquireLemma
    <3>2. ql' = Acquire(ql, q)
      BY <1>5
    <3> QED
      BY <1>3, <3>1, <3>2
  <2> QED
    BY <1>1, <1>2, <1>3, <1>5, <2>1
       DEF PoolStep, Pools, WalkPoint, SlotsMatchTasks, AdmissionFits, Admits, IInv
<1> QED
  BY <1>4, <1>5 DEF WalkAdmitted

LEMMA ExecutePools ==
    ASSUME IInv, NEW q \in Queries, Execute(q) PROVE PoolStep
<1>1. /\ pc[q] = "query" /\ q \in ql.borrowers /\ pc \in [Queries -> Points]
      /\ pc' = [pc EXCEPT ![q] = "run"] /\ booted
      /\ Waiting(ql) \cap ql.borrowers = {}
  BY DEF Execute, IInv, CallTypes, Pools, Consistent, LotIsSane
<1>2. /\ booted' = booted /\ maxQueries' = maxQueries /\ maxWalks' = maxWalks
      /\ rwl' = rwl /\ ql' = ql
  BY DEF Execute, confVars, poolVars
<1> QED
  BY <1>1, <1>2
     DEF PoolStep, Pools, WalkPoint, SlotsMatchTasks, AdmissionFits, Admits, IInv

LEMMA FinishPools ==
    ASSUME IInv, NEW q \in Queries, NEW s, pc[q] \in {"run", "abort"}, Finish(q, s)
    PROVE  PoolStep
<1>1. /\ pc \in [Queries -> Points] /\ pc' = [pc EXCEPT ![q] = "done"] /\ booted
      /\ booted' = booted /\ maxQueries' = maxQueries /\ maxWalks' = maxWalks
  BY DEF Finish, confVars, IInv, CallTypes, Pools
<1>2. /\ Consistent(ql, Queries) /\ Consistent(rwl, Walks)
      /\ ql.total = maxQueries /\ rwl.total = maxWalks
  BY <1>1 DEF IInv, Pools
<1>3. q \notin Waiting(ql) /\ q \notin Waiting(rwl)
  BY DEF IInv, SlotsMatchTasks
<1>4. /\ Consistent(ql', Queries) /\ ql'.total = maxQueries
      /\ ql.borrowers \ {q} \subseteq ql'.borrowers
      /\ ql'.borrowers \subseteq (ql.borrowers \ {q}) \cup Waiting(ql)
      /\ Waiting(ql') = Waiting(ql) \ ql'.borrowers
      /\ ql'.borrowers # ql.borrowers \ {q} => Cardinality(ql'.borrowers) <= maxQueries
  <2>1. CASE q \in ql.borrowers
    BY <1>2, <2>1, ReleaseLemma, ConstantFacts DEF Finish, GiveBack
  <2>2. CASE q \notin ql.borrowers
    BY <1>2, <2>2 DEF Finish, GiveBack, Consistent, LotIsSane
  <2> QED
    BY <2>1, <2>2
<1>5. /\ Consistent(rwl', Walks) /\ rwl'.total = maxWalks
      /\ rwl.borrowers \ {q} \subseteq rwl'.borrowers
      /\ rwl'.borrowers \subseteq (rwl.borrowers \ {q}) \cup Waiting(rwl)
      /\ Waiting(rwl') = Waiting(rwl) \ rwl'.borrowers
      /\ rwl'.borrowers # rwl.borrowers \ {q} => Cardinality(rwl'.borrowers) <= maxWalks
  <2>1. CASE q \in rwl.borrowers
    BY <1>2, <2>1, ReleaseLemma, ConstantFacts DEF Finish, GiveBack
  <2>2. CASE q \notin rwl.borrowers
    BY <1>2, <2>2 DEF Finish, GiveBack, Consistent, LotIsSane
  <2> QED
    BY <2>1, <2>2
<1>6. Pools' /\ WalkPoint'
  BY <1>1, <1>2, <1>4, <1>5 DEF Pools, WalkPoint, IInv
<1>7. AdmissionFits
  BY <1>1, <1>4, <1>5 DEF AdmissionFits, Admits
<1>8. SlotsMatchTasks'
  BY <1>1, <1>3, <1>4, <1>5 DEF SlotsMatchTasks, IInv
<1> QED
  BY <1>6, <1>7, <1>8 DEF PoolStep

LEMMA CancelPools ==
    ASSUME IInv, NEW q \in Queries, Cancel(q) PROVE PoolStep
<1>1. /\ pc \in [Queries -> Points]
      /\ pc' = IF q \in Waiting(ql) \cup Waiting(rwl)
               THEN [pc EXCEPT ![q] = "abort"] ELSE pc
      /\ booted' = booted /\ maxQueries' = maxQueries /\ maxWalks' = maxWalks
  BY DEF Cancel, confVars, IInv, CallTypes
<1>2. /\ Consistent(ql, Queries) /\ Consistent(rwl, Walks)
      /\ Waiting(ql) \cap ql.borrowers = {} /\ Waiting(rwl) \cap rwl.borrowers = {}
  BY DEF IInv, Pools, Consistent, LotIsSane
<1>3. /\ Consistent(ql', Queries) /\ ql'.total = ql.total
      /\ ql'.borrowers = ql.borrowers /\ Waiting(ql') = Waiting(ql) \ {q}
      /\ Consistent(rwl', Walks) /\ rwl'.total = rwl.total
      /\ rwl'.borrowers = rwl.borrowers /\ Waiting(rwl') = Waiting(rwl) \ {q}
  BY <1>2, LeaveLotLemma DEF Cancel
<1>4. Pools'
  <2>1. CASE booted
    BY <1>1, <1>3, <2>1 DEF Pools, IInv
  <2>2. CASE ~booted
    <3>1. /\ ql = NewLimiter(0) /\ rwl = NewLimiter(0)
          /\ Waiting(ql) = {} /\ Waiting(rwl) = {}
      BY <2>2, NewLimiterLemma DEF Pools, IInv
    <3>2. ql' = ql /\ rwl' = rwl /\ pc' = pc
      BY <1>1, <3>1 DEF Cancel, LeaveLot
    <3> QED
      BY <1>1, <1>3, <2>2, <3>1, <3>2 DEF Pools, IInv
  <2> QED
    BY <2>1, <2>2
<1>5. WalkPoint' /\ AdmissionFits
  BY <1>1, <1>3 DEF WalkPoint, AdmissionFits, Admits, IInv
<1>6. SlotsMatchTasks'
  BY <1>1, <1>2, <1>3 DEF SlotsMatchTasks, IInv
<1> QED
  BY <1>4, <1>5, <1>6 DEF PoolStep

LEMMA UpdateConfigPools ==
    ASSUME IInv, NEW nq \in AllCaps, NEW nw \in AllCaps, UpdateConfig(nq, nw)
    PROVE  PoolStep
<1>1. /\ pc' = pc /\ booted' = booted /\ maxQueries' = nq /\ maxWalks' = nw
      /\ nq \in Nat /\ nw \in Nat
      /\ ql' = IF booted THEN SetTotal(ql, nq) ELSE ql
      /\ rwl' = IF booted THEN SetTotal(rwl, nw) ELSE rwl
      /\ Consistent(ql, Queries) /\ Consistent(rwl, Walks)
  BY ConstantFacts DEF UpdateConfig, Reconfigure, Reloaded, callVars, IInv, Pools
<1>2. CASE ~booted
  BY <1>1, <1>2 DEF PoolStep, Pools, WalkPoint, SlotsMatchTasks, AdmissionFits,
                    Admits, IInv
<1>3. CASE booted
  <2>1. /\ Consistent(ql', Queries) /\ ql'.total = nq
        /\ ql.borrowers \subseteq ql'.borrowers
        /\ ql'.borrowers \subseteq ql.borrowers \cup Waiting(ql)
        /\ Waiting(ql') = Waiting(ql) \ ql'.borrowers
        /\ ql'.borrowers # ql.borrowers => Cardinality(ql'.borrowers) <= nq
    BY <1>1, <1>3, SetTotalLemma, ConstantFacts
  <2>2. /\ Consistent(rwl', Walks) /\ rwl'.total = nw
        /\ rwl.borrowers \subseteq rwl'.borrowers
        /\ rwl'.borrowers \subseteq rwl.borrowers \cup Waiting(rwl)
        /\ Waiting(rwl') = Waiting(rwl) \ rwl'.borrowers
        /\ rwl'.borrowers # rwl.borrowers => Cardinality(rwl'.borrowers) <= nw
    BY <1>1, <1>3, SetTotalLemma, ConstantFacts
  <2>3. Pools' /\ WalkPoint' /\ AdmissionFits
    BY <1>1, <1>3, <2>1, <2>2 DEF Pools, WalkPoint, AdmissionFits, Admits, IInv
  <2>4. SlotsMatchTasks'
    BY <1>1, <2>1, <2>2 DEF SlotsMatchTasks, IInv
  <2> QED
    BY <2>3, <2>4 DEF PoolStep
<1> QED
  BY <1>2, <1>3

LEMMA StutterPools ==
    ASSUME IInv, UNCHANGED <<ql, rwl, pc, booted, maxQueries, maxWalks>>
    PROVE  PoolStep
BY DEF PoolStep, Pools, WalkPoint, SlotsMatchTasks, AdmissionFits, Admits, IInv
-----------------------------------------------------------------------------
LEMMA InitInv == Init => IInv
<1> SUFFICES ASSUME Init PROVE IInv
  OBVIOUS
<1>1. /\ ql = NewLimiter(0) /\ rwl = NewLimiter(0) /\ booted = FALSE
      /\ pc = [q \in Queries |-> "idle"]
  BY DEF Init
<1>2. Pools
  BY <1>1, NewLimiterLemma DEF Pools
<1>3. WalkPoint /\ SlotsMatchTasks
  BY <1>1, NewLimiterLemma DEF WalkPoint, SlotsMatchTasks
<1>4. CallTypes
  <2>1. << >> \in Seq([query : Queries, status : Terminal])
    BY EmptySeq
  <2> QED
    BY <2>1 DEF Init, CallTypes, AllCaps, Points
<1> QED
  BY <1>2, <1>3, <1>4 DEF IInv

\* One step of the event loop, whichever it is, keeps the inductive invariant
\* and gives out no token beyond a cap.
LEMMA NextInv ==
    ASSUME IInv, [Next]_vars
    PROVE  IInv' /\ AdmissionFits
<1>1. ASSUME NEW q \in Queries, QueryStep(q) PROVE PoolStep
  <2>1. CASE FindPeer(q)
    BY <2>1, FindPeerPools
  <2>2. CASE WalkAdmitted(q)
    BY <2>2, WalkAdmittedPools
  <2>3. CASE Execute(q)
    BY <2>3, ExecutePools
  <2>4. CASE QueryReturns(q) \/ QueryRaises(q) \/ Unwind(q)
    BY <2>4, FinishPools DEF QueryReturns, QueryRaises, Unwind
  <2>5. CASE Deadline(q)
    BY <2>5, StutterPools DEF Deadline, confVars, poolVars
  <2>6. CASE Cancel(q)
    BY <2>6, CancelPools
  <2> QED
    BY <1>1, <2>1, <2>2, <2>3, <2>4, <2>5, <2>6 DEF QueryStep
<1>2. ASSUME NEW nq \in AllCaps, NEW nw \in AllCaps, UpdateConfig(nq, nw)
      PROVE  PoolStep
  BY <1>2, UpdateConfigPools
<1>3. ASSUME UNCHANGED vars PROVE PoolStep
  BY <1>3, StutterPools DEF vars, callVars, confVars, poolVars
<1>4. PoolStep
  BY <1>1, <1>2, <1>3 DEF Next, Rest
<1> QED
  BY <1>4, TypesStep DEF PoolStep, IInv

LEMMA SpecInv == Spec => []IInv
<1>1. IInv /\ [Next]_vars => IInv'
  BY NextInv
<1> QED
  BY <1>1, InitInv, PTL DEF Spec

\* Type correctness.
THEOREM TypeCorrect == Spec => []TypeOK
<1>1. IInv => TypeOK
  <2> SUFFICES ASSUME IInv PROVE TypeOK
    OBVIOUS
  <2>1. /\ ql \in [total : Nat, borrowers : SUBSET Queries, lot : Seq(Queries)]
        /\ rwl \in [total : Nat, borrowers : SUBSET Walks, lot : Seq(Walks)]
    BY DEF IInv, Pools, Consistent
  <2>2. ql.total \in AllCaps \cup {0} /\ rwl.total \in AllCaps \cup {0}
    BY NewLimiterLemma DEF IInv, Pools, CallTypes
  <2> QED
    BY <2>1, <2>2 DEF IInv, CallTypes, TypeOK, LimiterType
<1> QED
  BY <1>1, SpecInv, PTL

\* No token is leaked by any way out of find_peer, and whatever runs holds its
\* tokens: _run_with_capacity's nested `async with` under every outcome.
THEOREM SlotSafety == Spec => []SlotsMatchTasks
<1>1. IInv => SlotsMatchTasks
  BY DEF IInv
<1> QED
  BY <1>1, SpecInv, PTL

\* A query waits only while every token of the pool is out, whatever reloads and
\* cancellations happen meanwhile.
THEOREM NoLostWakeUp == Spec => []NoIdleCapacity
<1>1. IInv => NoIdleCapacity
  BY DEF IInv, Pools, Consistent, NoIdleCapacity
<1> QED
  BY <1>1, SpecInv, PTL

\* The class docstring's claim: walks leave maxQueries - maxWalks slots to users.
THEOREM UsersKeepTheirShare == Spec => []WalksCannotStarveUsers
<1>1. IInv => WalksCannotStarveUsers
  <2> SUFFICES ASSUME IInv, Waiting(ql) \cap UserQueries # {},
                      Cardinality(rwl.borrowers) <= maxWalks
               PROVE  Cardinality(ql.borrowers \cap UserQueries)
                        >= maxQueries - maxWalks
    BY DEF WalksCannotStarveUsers
  <2> DEFINE U == ql.borrowers \cap UserQueries
             W == ql.borrowers \cap Walks
  <2>1. /\ ql.borrowers \subseteq Queries /\ rwl.borrowers \subseteq Walks
        /\ maxQueries \in Nat /\ maxWalks \in Nat
    BY ConstantFacts DEF IInv, CallTypes, Pools, Consistent
  <2>2. Cardinality(ql.borrowers) >= maxQueries
    <3>1. ql.lot # <<>>
      BY DEF Waiting, Range
    <3>2. booted
      BY <3>1, NewLimiterLemma DEF IInv, Pools
    <3> QED
      BY <3>1, <3>2 DEF IInv, Pools, Consistent, WorkConserving
  <2>3. W \subseteq rwl.borrowers
    BY <2>1, ConstantFacts DEF IInv, SlotsMatchTasks
  <2>4. ql.borrowers = U \cup W /\ U \cap W = {}
    BY <2>1, ConstantFacts, QueriesAssumption
  <2>5. /\ IsFiniteSet(U) /\ IsFiniteSet(W) /\ IsFiniteSet(rwl.borrowers)
    BY <2>1, ConstantFacts, FS_Subset
  <2>6. /\ Cardinality(U) \in Nat /\ Cardinality(W) \in Nat
        /\ Cardinality(rwl.borrowers) \in Nat
        /\ Cardinality(W) <= Cardinality(rwl.borrowers)
    BY <2>3, <2>5, FS_CardinalityType, FS_Subset
  <2>7. Cardinality(ql.borrowers) = Cardinality(U) + Cardinality(W)
    <3>1. Cardinality(U \cup W) =
            Cardinality(U) + Cardinality(W) - Cardinality(U \cap W)
      BY <2>5, FS_Union
    <3>2. Cardinality(U \cap W) = 0
      BY <2>4, FS_EmptySet
    <3> HIDE DEF U, W
    <3> QED
      BY <2>4, <2>6, <3>1, <3>2
  <2> HIDE DEF U, W
  <2>8. Cardinality(U) >= maxQueries - maxWalks
    BY <2>1, <2>2, <2>6, <2>7
  <2> QED
    BY <2>8 DEF U
<1> QED
  BY <1>1, SpecInv, PTL

\* No step hands out a token beyond the cap in force, also while the caps change.
THEOREM CapsRespected == Spec => AdmissionRespectsCaps
<1>1. IInv /\ [Next]_vars => [AdmissionFits]_vars
  BY NextInv
<1> QED
  BY <1>1, SpecInv, PTL DEF Spec, AdmissionRespectsCaps
-----------------------------------------------------------------------------
LEMMA OrderStep ==
    ASSUME IInv, [Next]_vars
    PROVE  ServedInOrder
<1>0. /\ Consistent(ql, Queries) /\ IsFiniteSet(Queries)
      /\ maxQueries \in Nat /\ AllCaps \subseteq Nat
  BY ConstantFacts DEF IInv, Pools, CallTypes
<1>1. ASSUME NEW q \in Queries, FindPeer(q) \/ WalkAdmitted(q)
      PROVE  ServedInOrder
  <2>1. ql' \in {QueryPool, Acquire(QueryPool, q), ql, Acquire(ql, q)}
    BY <1>1 DEF FindPeer, WalkAdmitted
  <2>2. /\ QueryPool.borrowers = ql.borrowers /\ Waiting(QueryPool) = Waiting(ql)
        /\ Consistent(QueryPool, Queries)
    BY BootstrapLemma
  <2>3. /\ Acquire(QueryPool, q).borrowers # ql.borrowers => Waiting(ql) = {}
        /\ Acquire(ql, q).borrowers # ql.borrowers => Waiting(ql) = {}
    BY <1>0, <2>2, AcquireInOrder
  <2> QED
    BY <2>1, <2>2, <2>3 DEF ServedInOrder
<1>2. ASSUME NEW q \in Queries, NEW s, Finish(q, s) PROVE ServedInOrder
  <2>1. ql' = Release(ql, q) \/ ql' = ql
    BY <1>2 DEF Finish, GiveBack
  <2> QED
    BY <1>0, <2>1, ReleaseInOrder DEF ServedInOrder
<1>3. ASSUME NEW q \in Queries, Cancel(q) PROVE ServedInOrder
  <2>1. ql'.borrowers = ql.borrowers
    BY <1>0, <1>3, LeaveLotLemma DEF Cancel
  <2> QED
    BY <2>1 DEF ServedInOrder
<1>4. ASSUME NEW nq \in AllCaps, NEW nw \in AllCaps, UpdateConfig(nq, nw)
      PROVE  ServedInOrder
  <2>1. nq \in Nat /\ (ql' = SetTotal(ql, nq) \/ ql' = ql)
    BY <1>0, <1>4 DEF UpdateConfig, Reconfigure, Reloaded
  <2> QED
    BY <1>0, <2>1, SetTotalInOrder DEF ServedInOrder
<1>5. ASSUME ql' = ql PROVE ServedInOrder
  BY <1>5 DEF ServedInOrder
<1>6. ASSUME NEW q \in Queries, QueryStep(q) PROVE ServedInOrder
  BY <1>1, <1>2, <1>3, <1>5, <1>6
     DEF QueryStep, Execute, Deadline, poolVars, QueryReturns, QueryRaises, Unwind
<1> QED
  BY <1>4, <1>5, <1>6 DEF Next, Rest, vars, poolVars

\* No query overtakes another that waits for Layer A: trio's parking lot under
\* everything the coordinator does to it, reloads and cancellations included.
THEOREM NobodyOvertakes == Spec => FirstComeFirstServed
<1>1. IInv /\ [Next]_vars => [ServedInOrder]_vars
  BY OrderStep
<1> QED
  BY <1>1, SpecInv, PTL DEF Spec, FirstComeFirstServed
-----------------------------------------------------------------------------
\* What the accounts rest on: a query is in _live from find_peer's first step to
\* its last, and the history, cut or not, names finished queries, each once.
Finished == count["success"] + count["failed"] + count["timeout"] + count["cancelled"]
Shorter(a, b) == IF a < b THEN a ELSE b

Books ==
    /\ \A q \in Queries : live[q] = "absent" <=> pc[q] \in {"idle", "done"}
    /\ count["total"] = Cardinality(Serving) + Finished
    /\ Len(history) = Shorter(Finished, MaxHistory)
    /\ \A i, j \in DOMAIN history : history[i].query = history[j].query => i = j
    /\ \A i \in DOMAIN history : pc[history[i].query] = "done"

\* A result is put at the end, and the oldest may go.
LEMMA RecordEntries ==
    ASSUME NEW h \in Seq([query : Queries, status : Terminal]),
           NEW q \in Queries, NEW s \in Terminal, Len(h) <= MaxHistory
    PROVE  LET r == Record(h, q, s)
               gone == IF Len(h) < MaxHistory THEN 0 ELSE 1
           IN  /\ Len(r) = Shorter(Len(h) + 1, MaxHistory)
               /\ DOMAIN r = 1 .. Len(r)
               /\ Len(r) + gone = Len(h) + 1
               /\ \A i \in 1 .. Len(r) :
                     r[i] = IF i = Len(r) THEN [query |-> q, status |-> s] ELSE h[i + gone]
<1> DEFINE R == [query : Queries, status : Terminal]
           e == [query |-> q, status |-> s]
           n == Len(h)
           h1 == Append(h, e)
           r == Record(h, q, s)
           gone == IF Len(h) < MaxHistory THEN 0 ELSE 1
<1>1. e \in R
  OBVIOUS
<1>0. r = IF Len(h1) > MaxHistory
          THEN SubSeq(h1, Len(h1) - MaxHistory + 1, Len(h1)) ELSE h1
  BY DEF Record
<1> HIDE DEF e
<1>2. /\ n \in Nat /\ h1 \in Seq(R) /\ Len(h1) = n + 1
      /\ \A i \in 1 .. n + 1 : h1[i] = IF i = n + 1 THEN e ELSE h[i]
      /\ MaxHistory \in Nat \ {0} /\ DOMAIN h = 1 .. n
  BY <1>1, AppendProperties, LenProperties, ConstantFacts
<1> HIDE DEF h1, R, r
<1>3. CASE n < MaxHistory
  <2>1. r = h1 /\ gone = 0
    BY <1>0, <1>2, <1>3
  <2>2. DOMAIN r = 1 .. Len(r)
    BY <1>2, <2>1, LenProperties
  <2> HIDE DEF gone
  <2>3. /\ Len(r) = n + 1 /\ Len(r) = Shorter(n + 1, MaxHistory)
        /\ Len(r) + gone = n + 1
    BY <1>2, <1>3, <2>1 DEF Shorter
  <2>4. \A i \in 1 .. Len(r) : r[i] = IF i = Len(r) THEN e ELSE h[i + gone]
    BY <1>2, <2>1, <2>3
  <2> QED
    BY <2>2, <2>3, <2>4 DEF r, e, gone
<1>4. CASE ~(n < MaxHistory)
  <2>0. n = MaxHistory /\ gone = 1
    <3>1. n \in Nat /\ MaxHistory \in Nat /\ n <= MaxHistory /\ ~(n < MaxHistory)
      BY <1>2, <1>4
    <3> HIDE DEF n, gone
    <3>2. n = MaxHistory
      BY <3>1
    <3> QED
      BY <1>4, <3>2 DEF gone, n
  <2>1. n = MaxHistory /\ gone = 1 /\ r = SubSeq(h1, 2, n + 1)
    <3>1. Len(h1) > MaxHistory /\ Len(h1) - MaxHistory + 1 = 2 /\ Len(h1) = n + 1
      BY <1>2, <2>0
    <3>2. r = SubSeq(h1, Len(h1) - MaxHistory + 1, Len(h1))
      BY <1>0, <3>1
    <3> QED
      BY <2>0, <3>1, <3>2
  <2>2. \A i \in 2 .. n + 1 : h1[i] \in R
    BY <1>2, ElementOfSeq
  <2>3. /\ r \in Seq(R) /\ Len(r) = n
        /\ \A i \in 1 .. n : r[i] = h1[2 + i - 1]
    BY <1>2, <2>1, <2>2, SubSeqProperties
  <2>4. DOMAIN r = 1 .. Len(r)
    BY <2>3, LenProperties
  <2> HIDE DEF gone
  <2>5. Len(r) = Shorter(n + 1, MaxHistory) /\ Len(r) + gone = n + 1
    BY <1>2, <2>1, <2>3 DEF Shorter
  <2>6. \A i \in 1 .. Len(r) : r[i] = IF i = Len(r) THEN e ELSE h[i + gone]
    BY <1>2, <2>1, <2>3
  <2> QED
    BY <2>4, <2>5, <2>6 DEF r, e, gone
<1> QED
  BY <1>2, <1>3, <1>4

LEMMA HistoryEntries ==
    ASSUME NEW h \in Seq([query : Queries, status : Terminal])
    PROVE  /\ Len(h) \in Nat /\ DOMAIN h = 1 .. Len(h)
           /\ \A i \in DOMAIN h : h[i].query \in Queries
<1> DEFINE R == [query : Queries, status : Terminal]
<1>1. \A e \in R : e.query \in Queries
  OBVIOUS
<1> HIDE DEF R
<1>2. h \in Seq(R)
  BY DEF R
<1>3. Len(h) \in Nat /\ DOMAIN h = 1 .. Len(h)
  BY <1>2, LenProperties
<1>4. \A i \in 1 .. Len(h) : h[i] \in R
  BY <1>2, ElementOfSeq
<1> QED
  BY <1>1, <1>3, <1>4

\* The counters add up to a number of finished calls.
LEMMA CountFacts ==
    ASSUME CallTypes
    PROVE  Finished \in Nat /\ count["total"] \in Nat
BY DEF CallTypes, Terminal, Finished

LEMMA ServingFacts ==
    /\ IsFiniteSet(Serving) /\ Cardinality(Serving) \in Nat
<1>1. Serving \subseteq Queries
  BY DEF Serving
<1> QED
  BY <1>1, ConstantFacts, FS_Subset, FS_CardinalityType

\* A call begins: it is served, and was neither that nor finished before.
LEMMA FindPeerBooks ==
    ASSUME IInv, Books, NEW q \in Queries, FindPeer(q) PROVE Books'
<1>1. /\ pc[q] = "idle" /\ live[q] = "absent" /\ history' = history
      /\ live' = [live EXCEPT ![q] = "acquiring"]
      /\ count' = [count EXCEPT !["total"] = @ + 1]
      /\ pc \in [Queries -> Points] /\ live \in [Queries -> {"absent", "acquiring", "running"}]
      /\ count \in [Terminal \cup {"total"} -> Nat]
  BY DEF FindPeer, IInv, CallTypes, Books
<1>2. \E p \in {"abort", "walk", "query"} : pc' = [pc EXCEPT ![q] = p]
  BY DEF FindPeer
<1>3. Serving' = Serving \cup {q} /\ q \notin Serving
  BY <1>1 DEF Serving
<1>4. Cardinality(Serving') = Cardinality(Serving) + 1
  BY <1>3, ServingFacts, FS_AddElement
<1>5. Finished' = Finished /\ count'["total"] = count["total"] + 1
  BY <1>1 DEF Finished, Terminal
<1>6. count'["total"] = Cardinality(Serving') + Finished'
  BY <1>4, <1>5, ServingFacts, CountFacts DEF Books, IInv
<1>7. \A p \in Queries : live'[p] = "absent" <=> pc'[p] \in {"idle", "done"}
  BY <1>1, <1>2 DEF Books
<1>8. \A i \in DOMAIN history : history[i].query \in Queries
  BY HistoryEntries DEF IInv, CallTypes
<1>9. \A i \in DOMAIN history' : pc'[history'[i].query] = "done"
  BY <1>1, <1>2, <1>8 DEF Books
<1> QED
  BY <1>1, <1>5, <1>6, <1>7, <1>9 DEF Books

\* A call ends: one terminal counter and one entry of the history are its own.
LEMMA FinishBooks ==
    ASSUME IInv, Books, NEW q \in Queries, NEW s \in Terminal,
           pc[q] \in {"run", "abort"}, Finish(q, s)
    PROVE  Books'
<1>1. /\ pc' = [pc EXCEPT ![q] = "done"] /\ live[q] # "absent"
      /\ live' = [live EXCEPT ![q] = "absent"]
      /\ count' = [count EXCEPT ![s] = @ + 1]
      /\ history' = Record(history, q, s)
      /\ pc \in [Queries -> Points] /\ live \in [Queries -> {"absent", "acquiring", "running"}]
      /\ count \in [Terminal \cup {"total"} -> Nat]
      /\ history \in Seq([query : Queries, status : Terminal])
  BY DEF Finish, Counted, IInv, CallTypes, Books
<1>2. Serving = Serving' \cup {q} /\ q \notin Serving'
  BY <1>1 DEF Serving
<1>3. IsFiniteSet(Serving') /\ Cardinality(Serving') \in Nat
  BY <1>2, ServingFacts, FS_Subset, FS_CardinalityType
<1>4. Cardinality(Serving) = Cardinality(Serving') + 1
  BY <1>2, <1>3, FS_AddElement
<1>5. Finished' = Finished + 1 /\ count'["total"] = count["total"]
  BY <1>1 DEF Finished, Terminal
<1>6. count'["total"] = Cardinality(Serving') + Finished'
  BY <1>3, <1>4, <1>5, CountFacts DEF Books, IInv
<1>7. \A p \in Queries : live'[p] = "absent" <=> pc'[p] \in {"idle", "done"}
  BY <1>1 DEF Books
<1> DEFINE h == history
           r == Record(h, q, s)
           gone == IF Len(h) < MaxHistory THEN 0 ELSE 1
<1>8. /\ Len(h) \in Nat /\ DOMAIN h = 1 .. Len(h)
      /\ \A i \in 1 .. Len(h) : h[i].query \in Queries
  BY <1>1, HistoryEntries
<1>9. Finished \in Nat /\ MaxHistory \in Nat \ {0} /\ Len(h) = Shorter(Finished, MaxHistory)
  BY CountFacts, ConstantFacts DEF Books, IInv
<1>10. Len(h) <= MaxHistory
  BY <1>9 DEF Shorter
<1>11. /\ Len(r) = Shorter(Len(h) + 1, MaxHistory)
       /\ DOMAIN r = 1 .. Len(r) /\ Len(r) + gone = Len(h) + 1
       /\ \A i \in 1 .. Len(r) :
             r[i] = IF i = Len(r) THEN [query |-> q, status |-> s] ELSE h[i + gone]
  <2>1. h \in Seq([query : Queries, status : Terminal])
    BY <1>1
  <2> HIDE DEF h
  <2> QED
    BY <1>10, <2>1, RecordEntries
<1>12. gone \in {0, 1}
  OBVIOUS
<1> HIDE DEF r, gone
<1>13. Len(r) = Shorter(Finished + 1, MaxHistory)
  BY <1>9, <1>11 DEF Shorter
<1>14. Len(r) \in Nat
  BY <1>9, <1>13 DEF Shorter
<1>15. \A i \in 1 .. Len(r) :
          /\ i = Len(r) => r[i].query = q
          /\ i # Len(r) => i + gone \in 1 .. Len(h) /\ r[i].query = h[i + gone].query
  BY <1>8, <1>11, <1>12, <1>14
<1>16. \A i \in 1 .. Len(h) : h[i].query # q /\ pc[h[i].query] = "done"
  BY <1>8 DEF Books
<1>17. \A i, j \in 1 .. Len(r) : r[i].query = r[j].query => i = j
  <2> SUFFICES ASSUME NEW i \in 1 .. Len(r), NEW j \in 1 .. Len(r), r[i].query = r[j].query
               PROVE  i = j
    OBVIOUS
  <2>1. CASE i = Len(r) \/ j = Len(r)
    BY <1>15, <1>16, <2>1
  <2>2. CASE i # Len(r) /\ j # Len(r)
    <3>1. i + gone = j + gone
      BY <1>8, <1>15, <2>2 DEF Books
    <3> QED
      BY <1>12, <3>1
  <2> QED
    BY <2>1, <2>2
<1>18. \A i \in 1 .. Len(r) : pc'[r[i].query] = "done"
  BY <1>1, <1>8, <1>15, <1>16
<1>19. history' = r
  BY <1>1 DEF r
<1> QED
  BY <1>5, <1>6, <1>7, <1>11, <1>13, <1>17, <1>18, <1>19 DEF Books

\* In between, a call stays where it is served.
LEMMA MoveBooks ==
    ASSUME Books, CallTypes, UNCHANGED <<count, history>>,
           \A q \in Queries : /\ live'[q] = "absent" <=> live[q] = "absent"
                              /\ pc'[q] \in {"idle", "done"} <=> pc[q] \in {"idle", "done"}
                              /\ pc[q] = "done" => pc'[q] = "done"
    PROVE  Books'
<1>1. Serving' = Serving
  BY DEF Serving
<1>2. \A i \in DOMAIN history : history[i].query \in Queries
  BY HistoryEntries DEF CallTypes
<1> QED
  BY <1>1, <1>2 DEF Books, Finished

LEMMA BooksStep ==
    ASSUME IInv, Books, [Next]_vars PROVE Books'
<1> USE DEF IInv
<1>0. pc \in [Queries -> Points] /\ live \in [Queries -> {"absent", "acquiring", "running"}]
  BY DEF CallTypes
<1>1. ASSUME NEW q \in Queries, WalkAdmitted(q) PROVE Books'
  BY <1>0, <1>1, MoveBooks DEF WalkAdmitted
<1>2. ASSUME NEW q \in Queries, Execute(q) PROVE Books'
  BY <1>0, <1>2, MoveBooks DEF Execute, Books
<1>3. ASSUME NEW q \in Queries, Deadline(q) PROVE Books'
  BY <1>3, MoveBooks DEF Deadline
<1>4. ASSUME NEW q \in Queries, Cancel(q) PROVE Books'
  BY <1>0, <1>4, MoveBooks DEF Cancel, SlotsMatchTasks
<1>5. ASSUME NEW nq \in AllCaps, NEW nw \in AllCaps, UpdateConfig(nq, nw) PROVE Books'
  BY <1>5, MoveBooks DEF UpdateConfig, callVars
<1>6. ASSUME NEW q \in Queries, QueryReturns(q) \/ QueryRaises(q) \/ Unwind(q)
      PROVE  Books'
  BY <1>6, FinishBooks DEF QueryReturns, QueryRaises, Unwind, Terminal
<1>7. CASE UNCHANGED vars
  BY <1>7, MoveBooks DEF vars, callVars
<1> QED
  BY <1>1, <1>2, <1>3, <1>4, <1>5, <1>6, <1>7, FindPeerBooks DEF Next, QueryStep, Rest

LEMMA InitBooks == Init => Books
<1> SUFFICES ASSUME Init PROVE Books
  OBVIOUS
<1>1. Serving = {} /\ Cardinality(Serving) = 0
  BY FS_EmptySet DEF Init, Serving
<1>2. Finished = 0 /\ count["total"] = 0
  BY DEF Init, Finished, Terminal
<1>3. DOMAIN history = {} /\ Len(history) = 0
  BY EmptySeq DEF Init
<1>4. Shorter(0, MaxHistory) = 0
  BY ConstantFacts DEF Shorter
<1> QED
  BY <1>1, <1>2, <1>3, <1>4 DEF Books, Init

LEMMA SpecBooks == Spec => [](IInv /\ Books)
<1>1. IInv /\ Books /\ [Next]_vars => (IInv /\ Books)'
  BY NextInv, BooksStep
<1> QED
  BY <1>1, InitInv, InitBooks, PTL DEF Spec

\* Every call is counted once whatever ends it, and the history, however long the
\* process runs, holds the latest results.
THEOREM AccountsBalance == Spec => []EveryCallAccounted
<1>1. Books => EveryCallAccounted
  BY DEF Books, EveryCallAccounted, Finished, Shorter
<1> QED
  BY <1>1, SpecBooks, PTL
-----------------------------------------------------------------------------
\* The refinement mapping, and the operators of the abstract pool under it.
PhaseMap == [q \in Queries |-> Phase(q)]
Queued == {q \in Queries : Phase(q) = "queued"}

LEMMA PhaseFacts ==
    ASSUME NEW q
    PROVE  /\ pc[q] = "idle" => Phase(q) = "new"
           /\ pc[q] = "abort" => Phase(q) = "leaving"
           /\ pc[q] = "done" => Phase(q) = "finished"
           /\ pc[q] \in {"walk", "query", "run"} =>
                 Phase(q) = IF q \in ql.borrowers THEN "admitted" ELSE "queued"
BY DEF Phase

LEMMA SameAdmitted ==
    ASSUME IInv
    PROVE  /\ Admission!In("admitted") = ql.borrowers
           /\ Admission!In("queued") = Queued
           /\ \A q \in Queries : Phase(q) = "admitted" <=> q \in ql.borrowers
           /\ Waiting(ql) \subseteq Queued
<1>1. /\ pc \in [Queries -> Points] /\ ql.borrowers \subseteq Queries
      /\ Waiting(ql) \subseteq Queries /\ Waiting(ql) \cap ql.borrowers = {}
  BY DEF IInv, CallTypes, Pools, Consistent, LotIsSane, Waiting, Range
<1>2. \A q \in Queries : q \in ql.borrowers => pc[q] \in {"query", "run"}
  BY DEF IInv, SlotsMatchTasks
<1>3. \A q \in Queries : Phase(q) = "admitted" <=> q \in ql.borrowers
  BY <1>1, <1>2, PhaseFacts DEF Points
<1>4. Waiting(ql) \subseteq Queued
  BY <1>1, PhaseFacts DEF Queued, IInv, SlotsMatchTasks
<1>5. \A p : Admission!In(p) = {q \in Queries : Phase(q) = p}
  BY DEF Admission!In
<1> QED
  BY <1>1, <1>3, <1>4, <1>5 DEF Queued

LEMMA SamePoolCardinality ==
    ASSUME NEW S PROVE Admission!Cardinality(S) = Cardinality(S)
BY Zenon DEF Admission!Cardinality, Cardinality

LEMMA ArriveStep ==
    ASSUME IInv, NEW c \in Queries, Phase(c) = "new",
           NEW p \in {"queued", "leaving", "admitted"},
           p = "admitted" => Cardinality(ql.borrowers \cup {c}) <= maxQueries,
           \A q \in Queries : Phase(q)' = IF q = c THEN p ELSE Phase(q),
           maxQueries' = maxQueries
    PROVE  Admission!Arrive(c)
<1>1. PhaseMap' = [PhaseMap EXCEPT ![c] = p]
  BY DEF PhaseMap
<1>2. p = "admitted" => Admission!Fits({c}, maxQueries)
  BY SameAdmitted, SamePoolCardinality DEF Admission!Fits
<1>3. PhaseMap[c] = "new"
  BY DEF PhaseMap
<1> QED
  BY <1>1, <1>2, <1>3 DEF Admission!Arrive, PhaseMap

LEMMA AdmitStep ==
    ASSUME IInv, NEW c \in Queries, Phase(c) = "queued",
           Cardinality(ql.borrowers \cup {c}) <= maxQueries,
           \A q \in Queries : Phase(q)' = IF q = c THEN "admitted" ELSE Phase(q),
           maxQueries' = maxQueries
    PROVE  Admission!Admit(c)
<1>1. PhaseMap' = [q \in Queries |-> IF q \in {c} THEN "admitted" ELSE PhaseMap[q]]
  BY DEF PhaseMap
<1>2. Admission!Fits({c}, maxQueries)
  BY SameAdmitted, SamePoolCardinality DEF Admission!Fits
<1>3. PhaseMap[c] = "queued"
  BY DEF PhaseMap
<1> QED
  BY <1>1, <1>2, <1>3 DEF Admission!Admit, Admission!Admitting, PhaseMap

LEMMA GiveUpStep ==
    ASSUME NEW c \in Queries, Phase(c) = "queued",
           \A q \in Queries : Phase(q)' = IF q = c THEN "leaving" ELSE Phase(q),
           maxQueries' = maxQueries
    PROVE  Admission!GiveUp(c)
<1>1. PhaseMap' = [PhaseMap EXCEPT ![c] = "leaving"]
  BY DEF PhaseMap
<1>2. PhaseMap[c] = "queued"
  BY DEF PhaseMap
<1> QED
  BY <1>1, <1>2 DEF Admission!GiveUp, PhaseMap

LEMMA LeaveStep ==
    ASSUME IInv, NEW c \in Queries, Phase(c) \in {"admitted", "leaving"},
           NEW S \in SUBSET Queued,
           S = {} \/ Cardinality((ql.borrowers \ {c}) \cup S) <= maxQueries,
           \A q \in Queries : Phase(q)' = IF q = c THEN "finished"
                                          ELSE IF q \in S THEN "admitted" ELSE Phase(q),
           maxQueries' = maxQueries
    PROVE  Admission!Finish(c)
<1> DEFINE A == [q \in Queries |-> IF q \in S THEN "admitted" ELSE PhaseMap[q]]
<1>1. PhaseMap' = [A EXCEPT ![c] = "finished"]
  BY DEF PhaseMap
<1>2. S = {} \/ Admission!Cardinality((Admission!In("admitted") \ {c}) \cup S) <= maxQueries
  BY SameAdmitted, SamePoolCardinality
<1>3. PhaseMap[c] \in {"admitted", "leaving"}
  BY DEF PhaseMap
<1>4. S \in SUBSET Admission!In("queued")
  BY SameAdmitted
<1>5. A = Admission!Admitting(S)
  BY DEF Admission!Admitting, PhaseMap
<1> HIDE DEF A
<1> QED
  BY <1>1, <1>2, <1>3, <1>4, <1>5 DEF Admission!Finish, PhaseMap

LEMMA ResizeStep ==
    ASSUME IInv, NEW S \in SUBSET Queued,
           S = {} \/ Cardinality(ql.borrowers \cup S) <= maxQueries',
           \A q \in Queries : Phase(q)' = IF q \in S THEN "admitted" ELSE Phase(q)
    PROVE  Admission!Resize(maxQueries')
<1>1. PhaseMap' = [q \in Queries |-> IF q \in S THEN "admitted" ELSE PhaseMap[q]]
  BY DEF PhaseMap
<1>2. Admission!Fits(S, maxQueries')
  BY SameAdmitted, SamePoolCardinality DEF Admission!Fits
<1>3. S \in SUBSET Admission!In("queued")
  BY SameAdmitted
<1> QED
  BY <1>1, <1>2, <1>3 DEF Admission!Resize, Admission!Admitting, PhaseMap

LEMMA IdleStep ==
    ASSUME \A q \in Queries : Phase(q)' = Phase(q), maxQueries' = maxQueries
    PROVE  UNCHANGED Admission!vars
<1>1. PhaseMap' = PhaseMap
  BY DEF PhaseMap
<1> QED
  BY <1>1 DEF Admission!vars, PhaseMap

LEMMA NextPhase ==
    ASSUME NEW q
    PROVE  /\ pc'[q] = "idle" => Phase(q)' = "new"
           /\ pc'[q] = "abort" => Phase(q)' = "leaving"
           /\ pc'[q] = "done" => Phase(q)' = "finished"
           /\ pc'[q] \in {"walk", "query", "run"} =>
                 Phase(q)' = IF q \in ql'.borrowers THEN "admitted" ELSE "queued"
           /\ pc'[q] = pc[q] /\ (q \in ql'.borrowers <=> q \in ql.borrowers)
                 => Phase(q)' = Phase(q)
BY DEF Phase
-----------------------------------------------------------------------------
\* A step of find_peer that may take a token of Layer A takes it for itself, and
\* within the cap.
LEMMA TokenTaken ==
    ASSUME IInv, [Next]_vars, NEW q \in Queries, FindPeer(q) \/ WalkAdmitted(q)
    PROVE  /\ ql'.borrowers \in {ql.borrowers, ql.borrowers \cup {q}}
           /\ ql'.borrowers # ql.borrowers => Cardinality(ql'.borrowers) <= maxQueries
           /\ maxQueries' = maxQueries
           /\ \A p \in Queries : p # q => Phase(p)' = Phase(p)
<1>1. ql' \in {QueryPool, Acquire(QueryPool, q), ql, Acquire(ql, q)}
  BY DEF FindPeer, WalkAdmitted
<1>2. /\ QueryPool.borrowers = ql.borrowers
      /\ Consistent(QueryPool, Queries) /\ Consistent(ql, Queries)
  BY BootstrapLemma DEF IInv, Pools
<1>3. /\ Acquire(QueryPool, q).borrowers \in {ql.borrowers, ql.borrowers \cup {q}}
      /\ Acquire(ql, q).borrowers \in {ql.borrowers, ql.borrowers \cup {q}}
  BY <1>2, AcquireInOrder
<1>4. ql'.borrowers \in {ql.borrowers, ql.borrowers \cup {q}}
  BY <1>1, <1>2, <1>3
<1>5. maxQueries' = maxQueries /\ pc \in [Queries -> Points]
  BY DEF FindPeer, WalkAdmitted, confVars, IInv, CallTypes
<1>6. ql'.borrowers # ql.borrowers => Cardinality(ql'.borrowers) <= maxQueries
  BY <1>4, <1>5, NextInv DEF AdmissionFits, Admits
<1>7. \A p \in Queries : p # q => pc'[p] = pc[p]
  BY <1>5 DEF FindPeer, WalkAdmitted
<1>8. \A p \in Queries : p # q => Phase(p)' = Phase(p)
  BY <1>4, <1>7, NextPhase
<1> QED
  BY <1>4, <1>5, <1>6, <1>8

LEMMA FindPeerArrives ==
    ASSUME IInv, [Next]_vars, NEW q \in Queries, FindPeer(q)
    PROVE  Admission!Arrive(q)
<1>1. /\ ql'.borrowers \in {ql.borrowers, ql.borrowers \cup {q}}
      /\ ql'.borrowers # ql.borrowers => Cardinality(ql'.borrowers) <= maxQueries
      /\ maxQueries' = maxQueries
      /\ \A p \in Queries : p # q => Phase(p)' = Phase(p)
  BY TokenTaken
<1>2. pc[q] = "idle" /\ Phase(q) = "new" /\ q \notin ql.borrowers /\ pc \in [Queries -> Points]
  BY PhaseFacts DEF FindPeer, IInv, SlotsMatchTasks, CallTypes
<1>3. pc'[q] \in {"abort", "walk", "query"}
  BY <1>2 DEF FindPeer
<1>4. Phase(q)' \in {"leaving", "queued", "admitted"}
  BY <1>3, NextPhase
<1>5. Phase(q)' = "admitted" => Cardinality(ql.borrowers \cup {q}) <= maxQueries
  <2> SUFFICES ASSUME Phase(q)' = "admitted"
               PROVE  Cardinality(ql.borrowers \cup {q}) <= maxQueries
    OBVIOUS
  <2>1. q \in ql'.borrowers
    BY <1>3, NextPhase
  <2> QED
    BY <1>1, <1>2, <2>1
<1> QED
  BY <1>1, <1>2, <1>4, <1>5, ArriveStep

LEMMA WalkAdmittedMoves ==
    ASSUME IInv, [Next]_vars, NEW q \in Queries, WalkAdmitted(q)
    PROVE  Admission!GiveUp(q) \/ Admission!Admit(q) \/ UNCHANGED Admission!vars
<1>1. /\ ql'.borrowers \in {ql.borrowers, ql.borrowers \cup {q}}
      /\ ql'.borrowers # ql.borrowers => Cardinality(ql'.borrowers) <= maxQueries
      /\ maxQueries' = maxQueries
      /\ \A p \in Queries : p # q => Phase(p)' = Phase(p)
  BY TokenTaken
<1>2. pc[q] = "walk" /\ q \notin ql.borrowers /\ pc \in [Queries -> Points]
  BY DEF WalkAdmitted, IInv, SlotsMatchTasks, CallTypes
<1>3. Phase(q) = "queued"
  BY <1>2, PhaseFacts
<1>4. pc'[q] \in {"abort", "query"}
  BY <1>2 DEF WalkAdmitted
<1>5. CASE pc'[q] = "abort"
  BY <1>1, <1>3, <1>5, GiveUpStep, NextPhase
<1>6. CASE pc'[q] = "query" /\ q \notin ql'.borrowers
  <2>1. Phase(q)' = "queued"
    BY <1>6, NextPhase
  <2> QED
    BY <1>1, <1>3, <2>1, IdleStep
<1>7. CASE pc'[q] = "query" /\ q \in ql'.borrowers
  <2>1. Phase(q)' = "admitted"
    BY <1>7, NextPhase
  <2>2. Cardinality(ql.borrowers \cup {q}) <= maxQueries
    BY <1>1, <1>2, <1>7
  <2> QED
    BY <1>1, <1>3, <2>1, <2>2, AdmitStep
<1> QED
  BY <1>4, <1>5, <1>6, <1>7

LEMMA FinishLeaves ==
    ASSUME IInv, [Next]_vars, NEW q \in Queries, NEW s,
           pc[q] \in {"run", "abort"}, Finish(q, s)
    PROVE  Admission!Finish(q)
<1> DEFINE S == ql'.borrowers \ (ql.borrowers \ {q})
<1>1. /\ pc' = [pc EXCEPT ![q] = "done"] /\ pc \in [Queries -> Points]
      /\ maxQueries' = maxQueries
  BY DEF Finish, confVars, IInv, CallTypes
<1>2. /\ ql.borrowers \ {q} \subseteq ql'.borrowers
      /\ ql'.borrowers \subseteq (ql.borrowers \ {q}) \cup Waiting(ql)
      /\ ql'.borrowers # ql.borrowers \ {q} => Cardinality(ql'.borrowers) <= maxQueries
  <2>1. Consistent(ql, Queries) /\ ql.total = maxQueries
    BY DEF IInv, Pools
  <2>2. CASE q \in ql.borrowers
    BY <2>1, <2>2, ReleaseLemma, ConstantFacts DEF Finish, GiveBack
  <2>3. CASE q \notin ql.borrowers
    BY <2>3 DEF Finish, GiveBack
  <2> QED
    BY <2>2, <2>3
<1>3. q \notin Waiting(ql) /\ q \notin ql'.borrowers
  BY <1>2 DEF IInv, SlotsMatchTasks
<1>4. Phase(q) \in {"admitted", "leaving"}
  BY PhaseFacts DEF IInv, SlotsMatchTasks
<1>5. S \in SUBSET Queued
  BY <1>2, SameAdmitted
<1>6. S = {} \/ Cardinality((ql.borrowers \ {q}) \cup S) <= maxQueries
  BY <1>2
<1>7. ASSUME NEW p \in Queries
      PROVE  Phase(p)' = IF p = q THEN "finished"
                         ELSE IF p \in S THEN "admitted" ELSE Phase(p)
  <2>1. CASE p = q
    BY <1>1, <2>1, NextPhase
  <2>2. CASE p # q /\ p \in S
    <3>1. pc'[p] = pc[p] /\ pc[p] \in {"walk", "query", "run"}
      BY <1>1, <1>2, <2>2 DEF IInv, SlotsMatchTasks
    <3> QED
      BY <2>2, <3>1, NextPhase
  <2>3. CASE p # q /\ p \notin S
    BY <1>1, <1>2, <2>3, NextPhase
  <2> QED
    BY <2>1, <2>2, <2>3
<1> HIDE DEF S
<1> QED
  BY <1>1, <1>4, <1>5, <1>6, <1>7, LeaveStep

LEMMA CancelMoves ==
    ASSUME IInv, NEW q \in Queries, Cancel(q)
    PROVE  Admission!GiveUp(q) \/ UNCHANGED Admission!vars
<1>1. /\ pc' = IF q \in Waiting(ql) \cup Waiting(rwl)
               THEN [pc EXCEPT ![q] = "abort"] ELSE pc
      /\ pc \in [Queries -> Points] /\ maxQueries' = maxQueries
  BY DEF Cancel, confVars, IInv, CallTypes
<1>2. ql'.borrowers = ql.borrowers
  BY LeaveLotLemma DEF Cancel, IInv, Pools
<1>3. \A p \in Queries : p # q => Phase(p)' = Phase(p)
  BY <1>1, <1>2, NextPhase
<1>4. CASE q \in Waiting(ql) \cup Waiting(rwl)
  <2>1. pc[q] \in {"walk", "query"} /\ q \notin ql.borrowers
    BY <1>4 DEF IInv, SlotsMatchTasks, Pools, Consistent, LotIsSane
  <2>2. Phase(q) = "queued"
    BY <2>1, PhaseFacts
  <2>3. Phase(q)' = "leaving"
    BY <1>1, <1>4, NextPhase
  <2> QED
    BY <1>1, <1>3, <2>2, <2>3, GiveUpStep
<1>5. CASE q \notin Waiting(ql) \cup Waiting(rwl)
  BY <1>1, <1>2, <1>5, NextPhase, IdleStep
<1> QED
  BY <1>4, <1>5

LEMMA UpdateConfigResizes ==
    ASSUME IInv, [Next]_vars, NEW nq \in AllCaps, NEW nw \in AllCaps, UpdateConfig(nq, nw)
    PROVE  Admission!Resize(nq)
<1> DEFINE S == ql'.borrowers \ ql.borrowers
<1>1. /\ pc' = pc /\ maxQueries' = nq /\ nq \in Nat /\ Consistent(ql, Queries)
      /\ ql' = SetTotal(ql, nq) \/ ql' = ql
  BY ConstantFacts DEF UpdateConfig, Reconfigure, Reloaded, callVars, IInv, Pools
<1>2. /\ ql.borrowers \subseteq ql'.borrowers
      /\ ql'.borrowers \subseteq ql.borrowers \cup Waiting(ql)
  BY <1>1, SetTotalLemma, ConstantFacts
<1>3. S \in SUBSET Queued
  BY <1>2, SameAdmitted
<1>4. S = {} \/ Cardinality(ql.borrowers \cup S) <= maxQueries'
  <2>1. ql.borrowers \cup S = ql'.borrowers
    BY <1>2
  <2> QED
    BY <2>1, NextInv DEF AdmissionFits, Admits
<1>5. ASSUME NEW p \in Queries
      PROVE  Phase(p)' = IF p \in S THEN "admitted" ELSE Phase(p)
  <2>1. CASE p \in S
    <3>1. pc'[p] \in {"walk", "query", "run"}
      BY <1>1, <1>2, <2>1 DEF IInv, SlotsMatchTasks
    <3> QED
      BY <2>1, <3>1, NextPhase
  <2>2. CASE p \notin S
    BY <1>1, <1>2, <2>2, NextPhase
  <2> QED
    BY <2>1, <2>2
<1> HIDE DEF S
<1> QED
  BY <1>1, <1>3, <1>4, <1>5, ResizeStep

LEMMA NextMaps ==
    ASSUME IInv, [Next]_vars
    PROVE  [Admission!Next]_(Admission!vars)
<1>1. ASSUME NEW q \in Queries, FindPeer(q) PROVE Admission!Next
  BY <1>1, FindPeerArrives DEF Admission!Next
<1>2. ASSUME NEW q \in Queries, WalkAdmitted(q) PROVE [Admission!Next]_(Admission!vars)
  BY <1>2, WalkAdmittedMoves DEF Admission!Next
<1>3. ASSUME NEW q \in Queries, Execute(q) PROVE UNCHANGED Admission!vars
  <2>1. /\ pc[q] = "query" /\ pc' = [pc EXCEPT ![q] = "run"] /\ pc \in [Queries -> Points]
        /\ ql' = ql /\ maxQueries' = maxQueries
    BY <1>3 DEF Execute, confVars, poolVars, IInv, CallTypes
  <2>2. \A p \in Queries : Phase(p)' = Phase(p)
    BY <2>1, PhaseFacts, NextPhase
  <2> QED
    BY <2>1, <2>2, IdleStep
<1>4. ASSUME NEW q \in Queries, QueryReturns(q) \/ QueryRaises(q) \/ Unwind(q)
      PROVE  Admission!Next
  <2>1. Admission!Finish(q)
    BY <1>4, FinishLeaves DEF QueryReturns, QueryRaises, Unwind
  <2> QED
    BY <2>1 DEF Admission!Next
<1>5. ASSUME UNCHANGED <<pc, ql, maxQueries>> PROVE UNCHANGED Admission!vars
  <2>1. \A p \in Queries : Phase(p)' = Phase(p)
    BY <1>5, NextPhase
  <2> QED
    BY <1>5, <2>1, IdleStep
<1>6. ASSUME NEW q \in Queries, Deadline(q) PROVE UNCHANGED Admission!vars
  BY <1>5, <1>6 DEF Deadline, confVars, poolVars
<1>7. ASSUME NEW q \in Queries, Cancel(q) PROVE [Admission!Next]_(Admission!vars)
  BY <1>7, CancelMoves DEF Admission!Next
<1>8. ASSUME NEW nq \in AllCaps, NEW nw \in AllCaps, UpdateConfig(nq, nw)
      PROVE  Admission!Next
  BY <1>8, UpdateConfigResizes DEF Admission!Next
<1>9. CASE UNCHANGED vars
  BY <1>5, <1>9 DEF vars, callVars, confVars, poolVars
<1> QED
  BY <1>1, <1>2, <1>3, <1>4, <1>6, <1>7, <1>8, <1>9 DEF Next, QueryStep, Rest

\* Every step of the coordinator is a step of the resizable pool its callers rely
\* on, or none: queue, layers, timeouts and reloads promise nothing less.
THEOREM CoordinatorImplementsPool == Spec => ImplementsAdmission
<1>1. Init => Admission!Init
  <2> SUFFICES ASSUME Init PROVE Admission!Init
    OBVIOUS
  <2>1. \A q \in Queries : Phase(q) = "new"
    BY PhaseFacts DEF Init
  <2> QED
    BY <2>1 DEF Init, Admission!Init
<1>2. IInv /\ [Next]_vars => [Admission!Next]_(Admission!vars)
  BY NextMaps
<1> QED
  BY <1>1, <1>2, SpecInv, PTL DEF Spec, ImplementsAdmission, Admission!Spec
=============================================================================
