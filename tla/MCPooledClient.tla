--------------------------- MODULE MCPooledClient ---------------------------
(* Instances of PooledClient for TLC. *)
EXTENDS PooledClient, TLC

CONSTANTS i1, i2

MCInstances == {i1, i2}
MCInitial == <<i1, i2>>

\* Callers are interchangeable (safety only).
Symmetry == Permutations(Callers)
=============================================================================
