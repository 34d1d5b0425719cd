------------------------------- MODULE MCLive -------------------------------
(***************************************************************************)
(* Components with a liveness property, model-checked side by side: a      *)
(* behaviour runs the one that part names, under its own fairness.         *)
(***************************************************************************)
EXTENDS Naturals, FiniteSets

CONSTANTS Hooks, Requests, BufferSize, MaxEvents, Askers, Samples, Callers, NoCaller

ASSUME HooksAssumption == Hooks \in Nat

ASSUME RequestsAssumption == IsFiniteSet(Requests)

VARIABLES
  part,
  state, cancelled, signalled, doing, hook, started, stopped,
  chain, serving, frame, way, result, done, answered, inFlight, crashed,
  kind, user, produced, ch, chClosed, loop, ctxDone, swClosed, written, left,
  cpuSamples, sampleIdx, due, moved, load, asking, allowed,
  brkState, mu, buckets, halfOpenCount, bucketIdx, openAge, clock, pc, age,
  granted, stale, lateUndos

LC == INSTANCE Lifecycle
MW == INSTANCE MiddlewareChain
SSE == INSTANCE SseChannel
SH == INSTANCE Shedder

\* No probe limit and MinRequests above 1, as the gateway configures it (20 there).
CB == INSTANCE CircuitBreaker WITH
  MaxConcurrent <- 0, MinRequests <- 2, ErrNum <- 1, ErrDen <- 2,
  BucketCount <- 2, BucketTicks <- 1, SleepWindow <- 1, MaxTotal <- 3,
  state <- brkState

lifeVars == <<state, cancelled, signalled, doing, hook, started, stopped>>
mwVars == <<chain, serving, frame, way, result, done, answered, inFlight, crashed>>
sseVars == <<kind, user, produced, ch, chClosed, loop, ctxDone, swClosed, written, left>>
shVars == <<cpuSamples, sampleIdx, due, moved, load, asking, allowed>>
cbVars == <<brkState, mu, buckets, halfOpenCount, bucketIdx, openAge, clock, pc, age,
            granted, stale, lateUndos>>

vars == <<part, lifeVars, mwVars, sseVars, shVars, cbVars>>

Init ==
  /\ part \in {"lifecycle", "middleware", "sse", "shedding", "breaker"}
  /\ LC!Init
  /\ MW!Init
  /\ SSE!Init
  /\ SH!Init
  /\ CB!Init
  /\ part = "breaker" \/ clock = 0

Next ==
  /\ UNCHANGED part
  /\ \/ part = "lifecycle" /\ LC!Next /\ UNCHANGED <<mwVars, sseVars, shVars, cbVars>>
     \/ part = "middleware" /\ MW!Next /\ UNCHANGED <<lifeVars, sseVars, shVars, cbVars>>
     \/ part = "sse" /\ SSE!Next /\ UNCHANGED <<lifeVars, mwVars, shVars, cbVars>>
     \/ part = "shedding" /\ SH!Next /\ UNCHANGED <<lifeVars, mwVars, sseVars, cbVars>>
     \/ part = "breaker" /\ CB!BusyNext
        /\ UNCHANGED <<lifeVars, mwVars, sseVars, shVars>>

\* Each component's Fairness, for the behaviours that run it.
LifecycleFair == WF_lifeVars(part = "lifecycle" /\ LC!Main)

MiddlewareFair ==
  \A r \in Requests :
    /\ WF_mwVars(part = "middleware" /\ ~crashed /\ MW!Request(r))
    /\ WF_mwVars(part = "middleware" /\ ~crashed /\ MW!Works(r))

StreamFair ==
  /\ WF_sseVars(part = "sse" /\ SSE!PutEvent)
  /\ SF_sseVars(part = "sse" /\ ctxDone /\ SSE!UserReturn)
  /\ WF_sseVars(part = "sse" /\ SSE!Loop)
  /\ SF_sseVars(part = "sse" /\ SSE!LoopGone)

SheddingFair ==
  /\ WF_shVars(part = "shedding" /\ SH!Pass)
  /\ \A a \in Askers : WF_shVars(part = "shedding" /\ SH!Ask(a))

\* The breaker's, under dense traffic that never stops.
BreakerFair ==
  /\ WF_cbVars(part = "breaker" /\ CB!BusyTick)
  /\ \A c \in Callers :
       /\ WF_cbVars(part = "breaker" /\ CB!Allow(c) /\ pc[c] # "idle")
       /\ WF_cbVars(part = "breaker" /\ CB!AllowLoadState(c))
       /\ SF_cbVars(part = "breaker" /\ CB!AllowReadOpenedAt(c))
       /\ SF_cbVars(part = "breaker" /\ (CB!OnSuccess(c) \/ CB!OnFailure(c) \/ CB!CallAbandoned(c)))
       /\ WF_cbVars(part = "breaker" /\ (CB!StoreState(c) \/ CB!Finish(c)))

Spec ==
  /\ Init /\ [][Next]_vars
  /\ LifecycleFair /\ MiddlewareFair /\ StreamFair /\ SheddingFair /\ BreakerFair

-----------------------------------------------------------------------------

\* Each of these is stated, and commented on, in its component's module.

\* Run returns once it is told to (lifecycle/lifecycle.go).
RunReturns == LC!RunReturns

\* A Run that returns nil has stopped everything (lifecycle/lifecycle.go).
NilMeansStopped == LC!NilMeansStopped

\* The in-flight gauge counts handlers (middleware/middleware.go).
GaugeCounts == MW!GaugeCounts

\* Only a Timeout lets a panic end the process (middleware/middleware.go).
KillsOnlyPastTimeout == MW!KillsOnlyPastTimeout

\* Timeout's goroutines end (middleware/middleware.go).
WorkersEnd == MW!WorkersEnd

\* A stream arrives in order and whole (sse/sse.go).
StreamIntact == SSE!StreamIntact

\* A stream ends when its client disconnects (sse/sse.go).
StreamEnds == SSE!StreamEnds

\* The shedder lets requests through again (shedding/shedding.go).
ShedderRecovers == SH!ShedderRecovers

\* Under dense traffic half-open is left again (circuitbreaker/circuitbreaker.go).
HalfOpenResolves == CB!HalfOpenResolves
=============================================================================
