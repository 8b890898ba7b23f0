-------------------------- MODULE MCCircuitBreaker --------------------------
(* TLC instance of CircuitBreaker; without symmetry, which liveness forbids. *)
EXTENDS CircuitBreaker
=============================================================================
