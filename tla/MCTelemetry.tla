----------------------------- MODULE MCTelemetry -----------------------------
(* Instances of Telemetry for TLC.                                             *)
EXTENDS Telemetry

CONSTANTS c1, c2

Clients2 == {c1, c2}
=============================================================================
