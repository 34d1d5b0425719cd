------------------------------- MODULE Breaker -------------------------------
(***************************************************************************)
(* What a circuit breaker promises the goroutine that uses it alone: the   *)
(* three-state cycle of circuitbreaker.go's package comment, the sleep     *)
(* before any probe, and at most MaxConcurrent probes per half-open        *)
(* period.                                                                 *)
(***************************************************************************)
EXTENDS Naturals

CONSTANTS SleepWindow, MaxConcurrent

VARIABLES
  phase,   \* "Closed", "Open" or "HalfOpen"
  slept,   \* ticks since it opened, saturated one past SleepWindow
  probes   \* probes let through in this half-open period

vars == <<phase, slept, probes>>

Init ==
  /\ phase = "Closed"
  /\ slept = SleepWindow + 1
  /\ probes = 0

\* Only a failure seen in Closed or HalfOpen opens the breaker.
OpenUp ==
  /\ phase \in {"Closed", "HalfOpen"}
  /\ phase' = "Open"
  /\ slept' = 0
  /\ probes' = 0

WakeUp ==
  /\ phase = "Open"
  /\ slept > SleepWindow
  /\ phase' = "HalfOpen"
  /\ UNCHANGED <<slept, probes>>

Probe ==
  /\ phase = "HalfOpen"
  /\ probes < MaxConcurrent
  /\ probes' = probes + 1
  /\ UNCHANGED <<phase, slept>>

\* Enough good probes, or Reset.
CloseDown ==
  /\ phase' = "Closed"
  /\ probes' = 0
  /\ UNCHANGED slept

Tick ==
  /\ slept <= SleepWindow
  /\ slept' = slept + 1
  /\ UNCHANGED <<phase, probes>>

Next == OpenUp \/ WakeUp \/ Probe \/ CloseDown \/ Tick

Spec == Init /\ [][Next]_vars
=============================================================================
