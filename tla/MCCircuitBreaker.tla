-------------------------- MODULE MCCircuitBreaker --------------------------
(* Instances of CircuitBreaker and its refinement for TLC. *)
EXTENDS BreakerRefinement
=============================================================================
