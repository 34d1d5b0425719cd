--------------------------- MODULE MCLoadingCache ---------------------------
(* Instances of LoadingCache for TLC. *)
EXTENDS LoadingCache, TLC

MCResults == Values \cup {Failed}

\* Keys are interchangeable, and so are callers.
Symmetry == Permutations(Keys) \cup Permutations(Callers)
=============================================================================
