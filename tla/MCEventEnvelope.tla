-------------------------- MODULE MCEventEnvelope --------------------------
(* An instance of EventEnvelope for TLC: two threads that call Submit.     *)
EXTENDS EventEnvelope

CONSTANTS p1, p2
=============================================================================
