---------------------------- MODULE SingleFlight ----------------------------
(***************************************************************************)
(* cache/cache.go, SingleFlight.Do: concurrent calls for one key share one *)
(* run of the loader.                                                      *)
(*                                                                         *)
(* A call record is reachable from m[key] and from the callers that joined *)
(* it.  Its result is written once, before wg.Done, so the step that does  *)
(* wg.Done hands the result to the callers that wait.                      *)
(***************************************************************************)
EXTENDS FiniteSets

CONSTANTS
  Keys,
  NoKey,      \* the key of a caller outside Do
  Callers,    \* goroutines that call Do
  Results,    \* what a loader may return, its error included
  NoResult    \* no result yet

ASSUME FlightAssumption == NoResult \notin Results /\ NoKey \notin Keys

VARIABLES
  flight,     \* sf.m: the call records, a set of at most one per key
  pc,         \* where each caller is
  key,        \* its argument
  val         \* its result

flightVars == <<flight, pc, key, val>>

-----------------------------------------------------------------------------
\* The last field is a ghost: the loader of this call panicked.
Call == [key : Keys, leader : Callers, done : BOOLEAN, val : Results \cup {NoResult},
         panicked : BOOLEAN]

\* "do": about to lock sf.mu.  "run": in fn.  "settle": fn has returned.
\* "forget": wg.Done was called.  "loaded": Do has a result to return.
Leading == {"run", "settle", "forget"}
DoPoints == {"idle", "do", "wait", "loaded"} \cup Leading

FlightsOf(k) == {f \in flight : f.key = k}

FlightInit ==
  /\ flight = {}
  /\ pc = [c \in Callers |-> "idle"]
  /\ key = [c \in Callers |-> NoKey]
  /\ val = [c \in Callers |-> NoResult]

Goto(c, point) == pc' = [pc EXCEPT ![c] = point]

Enter(c, k) ==
  /\ pc[c] = "idle"
  /\ key' = [key EXCEPT ![c] = k]
  /\ Goto(c, "do")
  /\ UNCHANGED <<flight, val>>

\* Under mu: a call for the key is there, wait for it or take its result.
DoJoin(c) ==
  /\ pc[c] = "do"
  /\ \E f \in FlightsOf(key[c]) :
       /\ val' = [val EXCEPT ![c] = f.val]
       /\ Goto(c, IF f.done THEN "loaded" ELSE "wait")
  /\ UNCHANGED <<flight, key>>

\* Mutation: the call is not published in sf.m.
DoLead_Unpublished(c) ==
  /\ pc[c] = "do"
  /\ FlightsOf(key[c]) = {}
  /\ Goto(c, "run")
  /\ UNCHANGED <<flight, key, val>>

\* Under mu: none is there, publish one and run fn.
DoLead(c) ==
  /\ pc[c] = "do"
  /\ FlightsOf(key[c]) = {}
  /\ flight' = flight \cup {[key |-> key[c], leader |-> c, done |-> FALSE, val |-> NoResult,
                             panicked |-> FALSE]}
  /\ Goto(c, "run")
  /\ UNCHANGED <<key, val>>

Led(c) == {f \in flight : f.key = key[c] /\ f.leader = c}

\* fn returns r.
RunReturns(c, r) ==
  /\ pc[c] = "run"
  /\ val' = [val EXCEPT ![c] = r]
  /\ Goto(c, "settle")
  /\ UNCHANGED <<flight, key>>

\* The caller is outside of Do again.
Leave(c) ==
  /\ Goto(c, "idle")
  /\ key' = [key EXCEPT ![c] = NoKey]
  /\ val' = [val EXCEPT ![c] = NoResult]

\* fn panics: nothing in Do recovers, neither wg.Done nor the delete runs.
RunPanics(c) ==
  /\ pc[c] = "run"
  /\ flight' = (flight \ Led(c)) \cup {[f EXCEPT !.panicked = TRUE] : f \in Led(c)}
  /\ Leave(c)

\* Mutation: wg.Done is forgotten.
DoSettle_NoDone(c) ==
  /\ pc[c] = "settle"
  /\ Goto(c, "forget")
  /\ UNCHANGED <<flight, key, val>>

\* c.val, c.err = ...; wg.Done: every waiter has the result.
DoSettle(c) ==
  /\ pc[c] = "settle"
  /\ flight' = (flight \ Led(c))
                 \cup {[f EXCEPT !.done = TRUE, !.val = val[c]] : f \in Led(c)}
  /\ LET served == {d \in Callers : pc[d] = "wait" /\ key[d] = key[c]}
     IN /\ val' = [d \in Callers |-> IF d \in served THEN val[c] ELSE val[d]]
        /\ pc' = [d \in Callers |-> IF d = c THEN "forget"
                                    ELSE IF d \in served THEN "loaded" ELSE pc[d]]
  /\ UNCHANGED key

\* Under mu: delete(sf.m, key).
DoForget(c) ==
  /\ pc[c] = "forget"
  /\ flight' = flight \ FlightsOf(key[c])
  /\ Goto(c, "loaded")
  /\ UNCHANGED <<key, val>>

Return(c) ==
  /\ pc[c] = "loaded"
  /\ Leave(c)
  /\ UNCHANGED flight

Do(c) == DoJoin(c) \/ DoLead(c) \/ DoSettle(c) \/ DoForget(c)

FlightNext ==
  \E c \in Callers :
    \/ \E k \in Keys : Enter(c, k)
    \/ Do(c)
    \/ \E r \in Results : RunReturns(c, r)
    \/ RunPanics(c)
    \/ Return(c)

FlightSpec == FlightInit /\ [][FlightNext]_flightVars

-----------------------------------------------------------------------------
(* Properties *)

FlightTypeOK ==
  /\ flight \in SUBSET Call
  /\ pc \in [Callers -> DoPoints]
  /\ key \in [Callers -> Keys \cup {NoKey}]
  /\ val \in [Callers -> Results \cup {NoResult}]

\* Lines 272 and 284: for one key, one loader runs at a time.
OneLoader ==
  \A c, d \in Callers :
    pc[c] = "run" /\ pc[d] = "run" /\ key[c] = key[d] => c = d

\* The call a waiter waits for is led by a goroutine that is still to call
\* wg.Done, unless its loader panicked.
WaitersHaveLeader ==
  \A c \in Callers : pc[c] = "wait" =>
    \E f \in FlightsOf(key[c]) :
      f.panicked \/ (pc[f.leader] \in {"run", "settle"} /\ key[f.leader] = key[c])
=============================================================================
