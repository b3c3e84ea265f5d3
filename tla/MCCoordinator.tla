---------------------------- MODULE MCCoordinator ----------------------------
(* Instances of Coordinator for TLC: user queries and walks as model values.   *)
EXTENDS Coordinator

CONSTANTS u1, u2, w1, w2

Users2 == {u1, u2}
Walks2 == {w1, w2}
Caps14 == 1 .. 4

Symmetric == Permutations(UserQueries) \cup Permutations(Walks)
=============================================================================
