------------------------------ MODULE MCLibrary ------------------------------
(***************************************************************************)
(* Components of the framework, its demo and the gateway it generates,     *)
(* which share nothing, side by side: a behaviour runs the one that part   *)
(* names, and the state spaces add up.  Theorems about them are in         *)
(* LibraryProofs; MCParts adds the nx tool and what it reads and writes,   *)
(* and is what TLC checks.                                                 *)
(***************************************************************************)
EXTENDS Naturals, FiniteSets

CONSTANTS
  Names, MaxCalls, Requests, Publishers, MaxSubs,
  MinRequests, BucketCount, GlobalBurst, ServiceBurst, Retries, MaxRpcs,
  NoObserver, MaxObservations, MaxSpans, Size, CounterMax, MaxPicks, Servers,
  FirstId, Preloaded

ASSUME DemoAssumption ==
  FirstId \in Nat /\ Preloaded \in Nat /\ Retries \in Nat /\ "preloaded" \notin Requests

ASSUME CallersAssumption == IsFiniteSet(Publishers) /\ Publishers # {}

ASSUME RequestsAssumption == IsFiniteSet(Requests)

ASSUME BusAssumption == MaxSubs \in Nat

ASSUME BreakerAssumption == BucketCount \in Nat \ {0} /\ NoObserver # "nobody"

ASSUME BalancerAssumption == Size \in Nat \ {0} /\ CounterMax \in Nat

ASSUME MetricsAssumption == NoObserver \notin Publishers

VARIABLES
  part,
  providers, dependsOn, order, mu, queue, inDegree, sorted, at, calls, live,
  made, array, len, readers, stage, size, handlers, running, present,
  step, global, services, breaker, slot, reached, straddled,
  cb, bucketNow, calling, attempt, rpcs, leaked,
  count, buckets, histMu, recording, bucket, line, shown, fatal,
  spans, active, base, frames, header,
  strategy, next, drawn, connections, picks, wraps,
  brkState, brkMu, brkBuckets, halfOpenCount, bucketIdx, openAge, clock, pc, age,
  granted, stale, lateUndos,
  server, store, gate, kind, wanted, context, main, worker, tries,
  reply, wire, answers

DI == INSTANCE Container
Bus == INSTANCE MemoryBus
GW == INSTANCE Gateway
RPC == INSTANCE RpcClient WITH Clients <- Publishers
MT == INSTANCE Histogram WITH Observers <- Publishers
TR == INSTANCE Tracer WITH Handlers <- Requests
LB == INSTANCE Balancer WITH Callers <- Publishers
Demo == INSTANCE EtcdDemo

\* One goroutine alone on a breaker that lets two probes through.
CB == INSTANCE CircuitBreaker WITH
  Callers <- {NoObserver}, NoCaller <- "nobody",
  MaxConcurrent <- 2, MinRequests <- 2, ErrNum <- 1, ErrDen <- 2,
  BucketTicks <- 1, SleepWindow <- 2, MaxTotal <- 3,
  state <- brkState, mu <- brkMu, buckets <- brkBuckets

diVars == <<providers, dependsOn, order, mu, queue, inDegree, sorted, at, calls, live>>
busVars == <<made, array, len, readers, stage, size, handlers, running, present>>
gwVars == <<step, global, services, breaker, slot, reached, straddled>>
rpcVars == <<cb, bucketNow, calling, attempt, rpcs, leaked>>
mtVars == <<count, buckets, histMu, recording, bucket, line, shown, fatal>>
trVars == <<spans, active, base, frames, header>>
lbVars == <<strategy, next, drawn, connections, picks, wraps>>
cbVars == <<brkState, brkMu, brkBuckets, halfOpenCount, bucketIdx, openAge, clock, pc, age,
            granted, stale, lateUndos>>
demoVars == <<server, store, gate, kind, wanted, context, main, worker, tries,
              reply, wire, answers>>

appVars == <<diVars, busVars, gwVars>>
netVars == <<rpcVars, mtVars, demoVars>>
baseVars == <<trVars, lbVars, cbVars>>

libVars == <<part, appVars, netVars, baseVars>>

LibInit ==
  /\ DI!Init
  /\ Bus!Init
  /\ GW!Init
  /\ RPC!Init
  /\ MT!Init
  /\ TR!Init
  /\ LB!Init
  /\ CB!Init
  /\ Demo!Init
  /\ part = "breaker" \/ clock = 0

AppNext ==
  \/ part = "di" /\ DI!Next /\ UNCHANGED <<busVars, gwVars>>
  \/ part = "event" /\ Bus!Next /\ UNCHANGED <<diVars, gwVars>>
  \/ part = "gateway" /\ GW!Next /\ UNCHANGED <<diVars, busVars>>

NetNext ==
  \/ part = "client" /\ RPC!Next /\ UNCHANGED <<mtVars, demoVars>>
  \/ part = "metrics" /\ MT!Next /\ UNCHANGED <<rpcVars, demoVars>>
  \/ part = "demo" /\ Demo!Next /\ UNCHANGED <<rpcVars, mtVars>>

BaseNext ==
  \/ part = "tracer" /\ TR!Next /\ UNCHANGED <<lbVars, cbVars>>
  \/ part = "balancer" /\ LB!Next /\ UNCHANGED <<trVars, cbVars>>
  \/ part = "breaker" /\ CB!Next /\ UNCHANGED <<trVars, lbVars>>

LibNext ==
  /\ UNCHANGED part
  /\ \/ AppNext /\ UNCHANGED <<netVars, baseVars>>
     \/ NetNext /\ UNCHANGED <<appVars, baseVars>>
     \/ BaseNext /\ UNCHANGED <<appVars, netVars>>

LibSpec == LibInit /\ [][LibNext]_libVars

-----------------------------------------------------------------------------

\* Each of these is stated, and commented on, in its component's module.

\* Providers are initialised after what they depend on (di/container.go).
DependenciesFirst == DI!DependenciesFirst

\* A cycle is reported exactly when there is one (di/container.go).
CyclesReported == DI!CyclesReported

\* No provider is shut down under one that stands on it (di/container.go).
DependentsClosedFirst == DI!DependentsClosedFirst

\* Publish reaches every subscriber once (event/event.go).
EveryoneOnce == Bus!EveryoneOnce

\* An upstream that never answers is cut off (generator/gateway_generator.go).
DeadUpstreamTrips == GW!DeadUpstreamTrips

\* An open breaker lets through the retries it admitted (client/client.go).
OpenLeakBounded == RPC!OpenLeakBounded

\* A scrape shows no more below a bound than in all (metrics/metrics.go).
ScrapeWithinCount == MT!ScrapeWithinCount

\* The recorded spans of a trace are one tree (tracer/tracer.go).
TracesWhole == TR!TracesWhole

\* No instance is called much more often than another (balancer/balancer.go).
EvenShares == LB!EvenShares

\* A receipt is good at the process that gave it (examples/etcd-demo, memory.go).
ReceiptsHold == Demo!ReceiptsHold

\* Somebody else's answer comes from a worker that outlived its request
\* (examples/etcd-demo, middleware.go).
OthersAnswersOnlyLate == Demo!OthersAnswersOnlyLate

\* A request creates one record per attempt at most (client/pooled_client.go).
ChargesBounded == Demo!ChargesBounded

\* One goroutine's breaker implements module Breaker (circuitbreaker/circuitbreaker.go).
KeepsPromises == CB!KeepsPromises
=============================================================================
