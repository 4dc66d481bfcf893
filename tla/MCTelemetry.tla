---------------------------- MODULE MCTelemetry ----------------------------
(* An instance of Telemetry for TLC. *)
EXTENDS Telemetry, TLC

CONSTANTS q1, q2

(* A disk that is full, as drivers may send it, and an empty one.          *)
TwoDisks == <<101, 0>>
============================================================================
