----------------------------- MODULE MCDhtLookup -----------------------------
(* Instances of DhtLookup for TLC: ids of four bits.                          *)
EXTENDS DhtLookup, Bitwise

XorDistance(a, b) == a ^^ b

Net8 == {0, 1, 3, 4, 6, 9, 12, 14}
Net3 == {5, 7, 10}
Two == {2, 8}
Wanted == {1, 2, 7}
=============================================================================
