-------------------------- MODULE MCCircuitBreaker --------------------------
(* Instances of CircuitBreaker for TLC. *)
EXTENDS CircuitBreaker, TLC

\* Callers run the same code and hold no identity: interchangeable (safety only).
Symmetry == Permutations(Callers)
=============================================================================
