-------------------------- MODULE MCCircuitBreaker --------------------------
(***************************************************************************)
(* Small instances of CircuitBreaker for TLC.                              *)
(***************************************************************************)
EXTENDS CircuitBreakerProps

FourCallers == {"c1", "c2", "c3", "c4"}
=============================================================================
