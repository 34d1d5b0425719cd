----------------------------- MODULE MCApiParser -----------------------------
(* Instances of ApiParser for TLC. *)
EXTENDS ApiParser

Files == INSTANCE ApiFiles

MCDocumented == Files!DocumentedSources

FairSpec == Spec /\ Fairness
=============================================================================
