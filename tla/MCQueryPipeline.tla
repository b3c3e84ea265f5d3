--------------------------- MODULE MCQueryPipeline ---------------------------
(* Instances of QueryPipeline for TLC.                                         *)
EXTENDS QueryPipeline

CONSTANTS u1, u2, w1, w2

Users1 == {u1}
Users2 == {u1, u2}
Walks1 == {w1}
Walks2 == {w1, w2}
Caps12 == 1 .. 2
Caps1 == {1}

\* The stream's time limit as main.py sets it, and one below the query's.
Longer == [query |-> 3, stream |-> 4]
Shorter == [query |-> 3, stream |-> 1]
OnlyShorter == {Shorter}

\* No limit of a stream is below any of a query.
NeverShorter == {Longer, [query |-> 2, stream |-> 4]}

\* Both limits are cut, and the stream's stays the longer one.
LongerStill == {Longer, [query |-> 1, stream |-> 2]}

\* The state without the record of past calls and the highest counts: no guard reads
\* them, so which steps are possible does not depend on them.
WithoutRecords ==
    <<maxQueries, maxWalks, booted, ql, rwl, pc, live, count, cancelled, expired,
      reloads, cancels, streamVars, limitVars>>

Symmetric == Permutations(UserQueries) \cup Permutations(Walks)
=============================================================================
