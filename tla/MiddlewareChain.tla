--------------------------- MODULE MiddlewareChain ---------------------------
(***************************************************************************)
(* Requests going down and up a chain of the middleware of                 *)
(* core/middleware/middleware.go that change what becomes of a request:    *)
(* Recovery, Timeout and Metrics, in any order a program adds them.        *)
(* Timeout runs the rest of the chain in a goroutine of its own.  A panic  *)
(* travels up the frames of its goroutine: Recovery catches it, Metrics is *)
(* skipped by it, net/http catches it at the top of the request's          *)
(* goroutine, and at the top of Timeout's it ends the process.             *)
(***************************************************************************)
EXTENDS Integers, FiniteSets, Sequences, SequencesExt

CONSTANT Requests

VARIABLES
  chain,      \* MiddlewareChain.middlewares, outermost first
  serving,    \* Wrap was called
  frame,      \* goroutine -> index in chain of the frame it is in, 0 when it
              \* is not running, one past the chain in the handler
  way,        \* goroutine -> "down", "wait" (Timeout's select) or "up"
  result,     \* goroutine -> what it carries up
  done,       \* request -> the channel of its Timeout, which holds one result
  answered,   \* requests answered
  inFlight,   \* the gauge of Metrics
  crashed     \* the process ended in a panic

vars == <<chain, serving, frame, way, result, done, answered, inFlight, crashed>>

\* A request's own goroutine, and the one its Timeout starts.
Goroutines == Requests \X {"request", "worker"}
Own(r) == <<r, "request">>
Worker(r) == <<r, "worker">>

Init ==
  /\ chain = <<>>
  /\ serving = FALSE
  /\ frame = [g \in Goroutines |-> 0]
  /\ way = [g \in Goroutines |-> "down"]
  /\ result = [g \in Goroutines |-> "none"]
  /\ done = [r \in Requests |-> <<>>]
  /\ answered = {}
  /\ inFlight = 0
  /\ crashed = FALSE

Use(mw) ==
  /\ ~serving
  /\ mw \notin ToSet(chain)
  /\ chain' = Append(chain, mw)
  /\ UNCHANGED <<serving, frame, way, result, done, answered, inFlight, crashed>>

Wrap ==
  /\ ~serving
  /\ serving' = TRUE
  /\ UNCHANGED <<chain, frame, way, result, done, answered, inFlight, crashed>>

Arrive(r) ==
  /\ serving
  /\ r \notin answered
  /\ frame[Own(r)] = 0
  /\ frame' = [frame EXCEPT ![Own(r)] = 1]
  /\ UNCHANGED <<chain, serving, way, result, done, answered, inFlight, crashed>>

\* Goroutine g is about to enter, or to leave, the frame of middleware mw.
Entering(g, mw) == frame[g] \in DOMAIN chain /\ chain[frame[g]] = mw /\ way[g] = "down"
Leaving(g, mw) == frame[g] \in DOMAIN chain /\ chain[frame[g]] = mw /\ way[g] = "up"

Down(g) == frame' = [frame EXCEPT ![g] = @ + 1] /\ UNCHANGED <<way, result>>

Up(g, res) ==
  /\ frame' = [frame EXCEPT ![g] = @ - 1]
  /\ way' = [way EXCEPT ![g] = IF frame[g] = 1 THEN "down" ELSE "up"]
  /\ result' = [result EXCEPT ![g] = res]

\* The request's goroutine has left the outermost frame.
Answers(g) == answered' = IF frame[g] = 1 THEN answered \union {g[1]} ELSE answered

Handler(g) ==
  /\ frame[g] = Len(chain) + 1
  /\ \E res \in {"ok", "error", "panic"} : Up(g, res)
  /\ Answers(g)
  /\ UNCHANGED <<chain, serving, done, inFlight, crashed>>

RecoveryNext(g) ==
  /\ Entering(g, "Recovery")
  /\ Down(g)
  /\ UNCHANGED <<chain, serving, done, answered, inFlight, crashed>>

\* Mutation: recover outside a deferred call catches nothing.
Recovery_NotDeferred(g) ==
  /\ Leaving(g, "Recovery")
  /\ Up(g, result[g])
  /\ Answers(g)
  /\ UNCHANGED <<chain, serving, done, inFlight, crashed>>

Recovery(g) ==
  /\ Leaving(g, "Recovery")
  /\ Up(g, IF result[g] = "panic" THEN "error" ELSE result[g])
  /\ Answers(g)
  /\ UNCHANGED <<chain, serving, done, inFlight, crashed>>

MetricsNext(g) ==
  /\ Entering(g, "Metrics")
  /\ Down(g)
  /\ inFlight' = inFlight + 1
  /\ UNCHANGED <<chain, serving, done, answered, crashed>>

\* Mutation: no Dec for a request that failed.
Metrics_OkOnly(g) ==
  /\ Leaving(g, "Metrics")
  /\ Up(g, result[g])
  /\ inFlight' = IF result[g] = "ok" THEN inFlight - 1 ELSE inFlight
  /\ Answers(g)
  /\ UNCHANGED <<chain, serving, done, crashed>>

\* The Dec of line 252 is not deferred.
Metrics(g) ==
  /\ Leaving(g, "Metrics")
  /\ Up(g, result[g])
  /\ inFlight' = IF result[g] = "panic" THEN inFlight ELSE inFlight - 1
  /\ Answers(g)
  /\ UNCHANGED <<chain, serving, done, crashed>>

TimeoutGo(r) ==
  /\ Entering(Own(r), "Timeout")
  /\ way' = [way EXCEPT ![Own(r)] = "wait"]
  /\ frame' = [frame EXCEPT ![Worker(r)] = frame[Own(r)] + 1]
  /\ UNCHANGED <<chain, serving, result, done, answered, inFlight, crashed>>

\* Mutation: a channel without a buffer, so that the send needs a receiver.
TimeoutDone_Unbuffered(r) ==
  /\ Leaving(Worker(r), "Timeout")
  /\ IF result[Worker(r)] = "panic"
     THEN crashed' = TRUE /\ UNCHANGED <<frame, way, done>>
     ELSE /\ way[Own(r)] = "wait"
          /\ done' = [done EXCEPT ![r] = <<result[Worker(r)]>>]
          /\ frame' = [frame EXCEPT ![Worker(r)] = 0]
          /\ way' = [way EXCEPT ![Worker(r)] = "down"]
          /\ UNCHANGED crashed
  /\ UNCHANGED <<chain, serving, result, answered, inFlight>>

\* The worker's last frame: nobody need be waiting for its result.
TimeoutDone(r) ==
  /\ Leaving(Worker(r), "Timeout")
  /\ IF result[Worker(r)] = "panic"
     THEN crashed' = TRUE /\ UNCHANGED <<frame, way, done>>
     ELSE /\ done' = [done EXCEPT ![r] = <<result[Worker(r)]>>]
          /\ frame' = [frame EXCEPT ![Worker(r)] = 0]
          /\ way' = [way EXCEPT ![Worker(r)] = "down"]
          /\ UNCHANGED crashed
  /\ UNCHANGED <<chain, serving, result, answered, inFlight>>

\* The select of lines 231-236: the worker's result, or the deadline, which
\* may pass at any time.
TimeoutSelect(r) ==
  /\ way[Own(r)] = "wait"
  /\ \/ done[r] # <<>> /\ Up(Own(r), Head(done[r])) /\ done' = [done EXCEPT ![r] = <<>>]
     \/ Up(Own(r), "error") /\ UNCHANGED done
  /\ Answers(Own(r))
  /\ UNCHANGED <<chain, serving, inFlight, crashed>>

Step(g) == Handler(g) \/ RecoveryNext(g) \/ Recovery(g) \/ MetricsNext(g) \/ Metrics(g)

Request(r) == TimeoutGo(r) \/ TimeoutSelect(r) \/ Step(Own(r))

Works(r) == TimeoutDone(r) \/ Step(Worker(r))

Next ==
  /\ ~crashed
  /\ \/ \E mw \in {"Recovery", "Timeout", "Metrics"} : Use(mw)
     \/ Wrap
     \/ \E r \in Requests : Arrive(r) \/ Request(r) \/ Works(r)

Spec == Init /\ [][Next]_vars

\* Every goroutine that can run does, and handlers return; nothing is assumed
\* of the deadlines.
Fairness ==
  \A r \in Requests : WF_vars(~crashed /\ Request(r)) /\ WF_vars(~crashed /\ Works(r))

-----------------------------------------------------------------------------

Before(inner, outer) == \E i, j \in DOMAIN chain : i > j /\ chain[i] = inner /\ chain[j] = outer

(***************************************************************************)
(* A panicking handler ends the whole process only under a Timeout with no *)
(* Recovery inside it (middleware.go:114, 226).  FullChain, and the chain  *)
(* of the generated gateway, are such chains.                              *)
(***************************************************************************)
KillsOnlyPastTimeout == crashed => "Timeout" \in ToSet(chain) /\ ~Before("Recovery", "Timeout")

\* The goroutine has been through Metrics' Inc and not yet through its Dec.
InMetrics(g) ==
  \E m \in DOMAIN chain :
    /\ chain[m] = "Metrics"
    /\ frame[g] > m \/ (frame[g] = m /\ way[g] = "up")
    /\ g[2] = "worker" => Before("Metrics", "Timeout")

(***************************************************************************)
(* With a Recovery inside Metrics the gauge counts the handlers at work,   *)
(* those whose request has already been answered with a timeout included,  *)
(* and returns to zero with them (middleware.go:247-252).  Without one a   *)
(* panic leaves it too high for ever.                                      *)
(***************************************************************************)
GaugeCounts == Before("Recovery", "Metrics") => inFlight = Cardinality({g \in Goroutines : InMetrics(g)})

(***************************************************************************)
(* The goroutine Timeout started ends even when its request has timed out  *)
(* and no one receives its result any more (middleware.go:224-229).        *)
(***************************************************************************)
WorkersEnd == \A r \in Requests : frame[Worker(r)] # 0 ~> frame[Worker(r)] = 0 \/ crashed
=============================================================================
