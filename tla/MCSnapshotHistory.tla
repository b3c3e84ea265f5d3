-------------------------- MODULE MCSnapshotHistory --------------------------
(* Instances of SnapshotHistory for TLC: a clock of a few ticks.               *)
EXTENDS SnapshotHistory
=============================================================================
