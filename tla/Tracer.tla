------------------------------- MODULE Tracer -------------------------------
(***************************************************************************)
(* The spans of core/tracer/tracer.go, and the middlewares that start one  *)
(* for a request.  Ids are positions in spans, zero for none and -1 for a  *)
(* span of another process.  Attributes and events are left out.           *)
(***************************************************************************)
EXTENDS Integers, Sequences, SequencesExt

CONSTANTS
  Handlers,  \* goroutines that handle requests
  MaxSpans   \* bound on the spans of a behaviour

VARIABLES
  spans,    \* every span that was started
  active,   \* the goroutines that are in a handler
  base,     \* goroutine -> the SpanContext it was started with
  frames,   \* goroutine -> its open spans, with the SpanContext passed on below
  header    \* goroutine -> the traceparent of its response

vars == <<spans, active, base, frames, header>>

None == 0

\* The context that a request of another process carries.
Remote == -1

Init ==
  /\ spans = <<>>
  /\ active = {}
  /\ base = [g \in Handlers |-> None]
  /\ frames = [g \in Handlers |-> <<>>]
  /\ header = [g \in Handlers |-> None]

\* SpanContextFromContext, where the goroutine is.
SpanContext(g) == IF frames[g] = <<>> THEN base[g] ELSE Last(frames[g]).ctx

\* What a Sampler may say of a trace: AlwaysSample and RateSample say the same
\* of one trace each time, and a sampler of the program's own need not.
ShouldSample == BOOLEAN

\* Mutation: the context of a span that is not sampled is passed on too.
Passed_Always(parent, sampled) == Len(spans) + 1

\* The context that StartSpan returns: the new span's, if it is sampled.
Passed(parent, sampled) == IF sampled THEN Len(spans) + 1 ELSE parent

\* The trace of a context.
TraceOf(ctx) == IF ctx = Remote THEN Remote ELSE spans[ctx].trace

\* StartSpan under the context parent.
StartSpan(g, parent, sampled) ==
  /\ Len(spans) < MaxSpans
  /\ spans' = Append(spans,
       [trace |-> IF parent = None THEN Len(spans) + 1 ELSE TraceOf(parent),
        parent |-> IF sampled THEN parent ELSE None,
        sampled |-> sampled, finished |-> ~sampled])
  /\ frames' = [frames EXCEPT ![g] = Append(@, [span |-> Len(spans) + 1, ctx |-> Passed(parent, sampled)])]

\* The headers are keyed as net/http writes them, "Traceparent", and looked up
\* as "traceparent": no context is ever found.
Extract(headers) == IF "traceparent" \in DOMAIN headers THEN headers["traceparent"] ELSE None

\* Without a trace context, and with one of another process.
Incoming == {[name \in {} |-> None], [name \in {"Traceparent"} |-> Remote]}

\* HTTPTracing, on a request that may carry a trace context.
HTTPTracing(g) ==
  /\ g \notin active
  /\ active' = active \cup {g}
  /\ base' = [base EXCEPT ![g] = None]
  /\ \E sampled \in ShouldSample, headers \in Incoming :
       /\ StartSpan(g, Extract(headers), sampled)
       /\ header' = [header EXCEPT ![g] = Passed(Extract(headers), sampled)]

\* A span that the handler starts, or the middleware Tracing.
StartInside(g) ==
  /\ g \in active
  /\ \E sampled \in ShouldSample : StartSpan(g, SpanContext(g), sampled)
  /\ UNCHANGED <<active, base, header>>

\* A goroutine that takes over the context, as the one of the middleware
\* Timeout: it may outlive the request.
Spawn(g, worker) ==
  /\ g \in active
  /\ worker \notin active
  /\ active' = active \cup {worker}
  /\ base' = [base EXCEPT ![worker] = SpanContext(g)]
  /\ header' = [header EXCEPT ![worker] = None]
  /\ UNCHANGED <<spans, frames>>

\* The innermost open span ends, and is not handed to the processor.
End(g) ==
  /\ frames[g] # <<>>
  /\ spans' = [spans EXCEPT ![Last(frames[g]).span].finished = TRUE]
  /\ frames' = [frames EXCEPT ![g] = Front(@)]
  /\ UNCHANGED <<active, base, header>>

Return(g) ==
  /\ g \in active
  /\ frames[g] = <<>>
  /\ active' = active \ {g}
  /\ UNCHANGED <<spans, base, frames, header>>

Next ==
  \E g \in Handlers :
    \/ HTTPTracing(g)
    \/ StartInside(g)
    \/ \E worker \in Handlers : Spawn(g, worker)
    \/ End(g)
    \/ Return(g)

Spec == Init /\ [][Next]_vars

-----------------------------------------------------------------------------

Recorded == {i \in DOMAIN spans : spans[i].sampled}

\* The recorded spans of a trace are one tree: every parent is a recorded span of the same
\* trace or the span of another process that the request named, no trace has two roots, and
\* the traceparent of a response names a recorded span or that one, whatever the sampler
\* answers and whichever goroutine outlives which (tracer.go:209-249).  It leaves open
\* whether a request's traceparent is continued, as tracer.go:3 says, and as Extract never
\* does.
TracesWhole ==
  /\ \A i \in Recorded : spans[i].parent # None =>
       /\ spans[i].parent \in Recorded \cup {Remote}
       /\ spans[i].trace = TraceOf(spans[i].parent)
  /\ \A i, j \in Recorded :
       spans[i].trace = spans[j].trace /\ spans[i].parent = None /\ spans[j].parent = None => i = j
  /\ \A g \in Handlers : header[g] \in Recorded \cup {None, Remote}
=============================================================================
