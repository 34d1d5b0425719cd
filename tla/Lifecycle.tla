------------------------------ MODULE Lifecycle ------------------------------
(***************************************************************************)
(* The lifecycle manager of core/lifecycle/lifecycle.go: Run in the main   *)
(* goroutine, and another goroutine of the program that calls Stop, or     *)
(* Shutdown, whenever it likes.  Both goroutines can be inside Shutdown at *)
(* once; only state is atomic, and the hooks, fixed before Run, are read   *)
(* without a lock.                                                         *)
(***************************************************************************)
EXTENDS Naturals, Sequences, SequencesExt

CONSTANT Hooks   \* number of hooks

VARIABLES
  state,      \* Manager.state
  cancelled,  \* Manager.ctx is done
  signalled,  \* SIGINT or SIGTERM was delivered
  doing,      \* goroutine -> where it is in Run or Shutdown
  hook,       \* goroutine -> the hook its loop is at
  started,    \* ghost: hooks whose OnStart returned nil, in that order
  stopped     \* ghost: goroutine -> hooks it ran OnStop of, in that order,
              \* each with whether its context was still live

vars == <<state, cancelled, signalled, doing, hook, started, stopped>>

Goroutines == {"main", "other"}

Init ==
  /\ state = "Initialized"
  /\ cancelled = FALSE
  /\ signalled = FALSE
  /\ doing = [g \in Goroutines |-> "idle"]
  /\ hook = [g \in Goroutines |-> 0]
  /\ started = <<>>
  /\ stopped = [g \in Goroutines |-> <<>>]

Goto(g, place) == doing' = [doing EXCEPT ![g] = place]

Run ==
  /\ doing["main"] = "idle"
  /\ state' = "Starting"
  /\ Goto("main", "startFn")
  /\ UNCHANGED <<cancelled, signalled, hook, started, stopped>>

\* A startFn that fails leaves the context alone.
StartFn ==
  /\ doing["main"] = "startFn"
  /\ \/ state' = "Running" /\ Goto("main", "OnStart") /\ hook' = [hook EXCEPT !["main"] = 1]
     \/ state' = "Stopped" /\ Goto("main", "failed") /\ UNCHANGED hook
  /\ UNCHANGED <<cancelled, signalled, started, stopped>>

\* A hook that fails ends Run there and then, with the state still Running.
OnStart ==
  /\ doing["main"] = "OnStart"
  /\ hook["main"] <= Hooks
  /\ \/ started' = Append(started, hook["main"]) /\ hook' = [hook EXCEPT !["main"] = @ + 1] /\ UNCHANGED doing
     \/ Goto("main", "failed") /\ UNCHANGED <<hook, started>>
  /\ UNCHANGED <<state, cancelled, signalled, stopped>>

Notify ==
  /\ doing["main"] = "OnStart"
  /\ hook["main"] > Hooks
  /\ Goto("main", "select")
  /\ UNCHANGED <<state, cancelled, signalled, hook, started, stopped>>

\* Mutation: only a signal wakes Run.
Wake_SignalOnly ==
  /\ doing["main"] = "select"
  /\ signalled
  /\ Goto("main", "Shutdown")
  /\ UNCHANGED <<state, cancelled, signalled, hook, started, stopped>>

\* The select of lines 134-137 and the call of Shutdown after it.
Wake ==
  /\ doing["main"] = "select"
  /\ signalled \/ cancelled
  /\ Goto("main", "Shutdown")
  /\ UNCHANGED <<state, cancelled, signalled, hook, started, stopped>>

\* Mutation: the context is cancelled before the hooks run.
Shutdown_CancelsFirst(g) ==
  /\ doing[g] = "Shutdown"
  /\ state' = "Stopping"
  /\ cancelled' = TRUE
  /\ hook' = [hook EXCEPT ![g] = Hooks]
  /\ Goto(g, "OnStop")
  /\ UNCHANGED <<signalled, started, stopped>>

\* Shutdown, called by Run or by another goroutine.
Shutdown(g) ==
  /\ doing[g] = "Shutdown"
  /\ state' = "Stopping"
  /\ hook' = [hook EXCEPT ![g] = Hooks]
  /\ Goto(g, "OnStop")
  /\ UNCHANGED <<cancelled, signalled, started, stopped>>

\* A hook that fails ends Shutdown before the context is cancelled.
OnStop(g) ==
  /\ doing[g] = "OnStop"
  /\ hook[g] > 0
  /\ stopped' = [stopped EXCEPT ![g] = Append(@, [hook |-> hook[g], live |-> ~cancelled])]
  /\ \/ hook' = [hook EXCEPT ![g] = @ - 1] /\ UNCHANGED doing
     \/ Goto(g, "failed") /\ UNCHANGED hook
  /\ UNCHANGED <<state, cancelled, signalled, started>>

Cancel(g) ==
  /\ doing[g] = "OnStop"
  /\ hook[g] = 0
  /\ cancelled' = TRUE
  /\ Goto(g, "cancelled")
  /\ UNCHANGED <<state, signalled, hook, started, stopped>>

Return(g) ==
  /\ doing[g] = "cancelled"
  /\ state' = "Stopped"
  /\ Goto(g, "done")
  /\ UNCHANGED <<cancelled, signalled, hook, started, stopped>>

\* Before Notify a signal would have ended the process.
Signal ==
  /\ doing["main"] = "select"
  /\ ~signalled
  /\ signalled' = TRUE
  /\ UNCHANGED <<state, cancelled, doing, hook, started, stopped>>

\* Stop only cancels the context.
Stop ==
  /\ doing["other"] = "idle"
  /\ cancelled' = TRUE
  /\ Goto("other", "done")
  /\ UNCHANGED <<state, signalled, hook, started, stopped>>

CallShutdown ==
  /\ doing["other"] = "idle"
  /\ Goto("other", "Shutdown")
  /\ UNCHANGED <<state, cancelled, signalled, hook, started, stopped>>

InShutdown(g) == Shutdown(g) \/ OnStop(g) \/ Cancel(g) \/ Return(g)

Main == StartFn \/ OnStart \/ Notify \/ Wake \/ InShutdown("main")

Next == Run \/ Main \/ InShutdown("other") \/ Signal \/ Stop \/ CallShutdown

Spec == Init /\ [][Next]_vars

\* The main goroutine, once in Run, runs when it can, and its hooks return.
Fairness == WF_vars(Main)

-----------------------------------------------------------------------------

(***************************************************************************)
(* Once a signal arrived, or the context was cancelled by Stop or by a     *)
(* Shutdown elsewhere, Run returns (lifecycle.go:134, 183), provided its   *)
(* hooks do.                                                               *)
(***************************************************************************)
RunReturns ==
  (signalled \/ cancelled) /\ doing["main"] # "idle" ~> doing["main"] \in {"done", "failed"}

(***************************************************************************)
(* A Run that returns nil has cancelled the context after every hook's     *)
(* OnStop, run once each in the reverse order of the OnStarts, and while   *)
(* only signals and Run's own Shutdown are at work each of them still had  *)
(* a live context to deregister with (lifecycle.go:149, 159).  Stop, and   *)
(* a Shutdown elsewhere, cancel it under them.                             *)
(***************************************************************************)
NilMeansStopped ==
  doing["main"] = "done" =>
    /\ cancelled
    /\ [i \in 1..Len(stopped["main"]) |-> stopped["main"][i].hook] = Reverse(started)
    /\ Len(started) = Hooks
    /\ doing["other"] = "idle" => \A i \in 1..Hooks : stopped["main"][i].live
=============================================================================
