-------------------------- MODULE MCBreakerHistory --------------------------
(* Instances of BreakerHistory for TLC. *)
EXTENDS BreakerHistory, TLC

Slots == Permutations(Goroutines)
=============================================================================
