----------------------------- MODULE MCWorkload -----------------------------
(* A service with more load than slots.                                        *)
EXTENDS Workload

Loads == 1 .. 2
TwoWalks == 3 .. 4
Caps12 == 1 .. 2
Rates == {1, 2}
=============================================================================
