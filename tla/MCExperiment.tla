---------------------------- MODULE MCExperiment ----------------------------
(* An arm whose workload exceeds its slots.                                    *)
EXTENDS Experiment

Queries4 == 1 .. 4
Nobody == {}
Caps2 == {2}
=============================================================================
