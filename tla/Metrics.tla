------------------------------- MODULE Metrics -------------------------------
(* The latency figures of snapshot() (src/src/coordinator.py): percentiles of  *)
(* the durations in the result history, interpolated between ranks.  Durations *)
(* are whole ticks; a figure is a hundred times the code's value, so that the  *)
(* interpolation at p50, p95 and p99 stays within the integers.                *)
EXTENDS Integers, Sequences, SequencesExt

\* How many of the durations d lie below v, and up to v.
Under(d, v) == Cardinality({i \in DOMAIN d : d[i] < v})
UpTo(d, v) == Cardinality({i \in DOMAIN d : d[i] <= v})

\* Mutant of Sorted: the list stays in the order of the results.
AsRecorded(durations) == durations

\* sorted(): at each place a duration with fewer than that many below it, and at
\* least that many up to it.
Sorted(durations) ==
    [k \in DOMAIN durations |->
        CHOOSE v \in Range(durations) : Under(durations, v) < k /\ k <= UpTo(durations, v)]

\* _percentile, on a sorted list; k is the rank, counted from 0, in hundredths.
Percentile(s, pct) ==
    LET n == Len(s)
        k == (n - 1) * pct
        f == k \div 100
        c == IF f + 1 < n THEN f + 1 ELSE n - 1
    IN  IF n = 0 THEN 0
        ELSE 100 * s[f + 1] + (s[c + 1] - s[f + 1]) * (k % 100)

P50(durations) == Percentile(Sorted(durations), 50)
P95(durations) == Percentile(Sorted(durations), 95)
P99(durations) == Percentile(Sorted(durations), 99)
=============================================================================
