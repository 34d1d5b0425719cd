# Verification of nexus-micro

TLA+ models of the core of nexus-micro, a Go micro-service framework, checked with
TLC on small instances and, for nearly all of their safety properties, proved with
TLAPS for every value of their constants. The repository has no tests of its
own; every definition here is translated from the Go source, whose lines
`PROJECT.json` names under `map`.

1. [The system](#1-the-system): the inventory of its parts
2. [The modules](#2-the-modules): which one models what, and how
3. [The runs](#3-the-runs): questions, bounds, fairness
4. [What is proved](#4-what-is-proved)
5. [What the code does that its text does not say](#5-what-the-code-does-that-its-text-does-not-say)
6. [What is not modelled](#6-what-is-not-modelled)
7. [The plan](#7-the-plan)

## 1. The system

The framework is a library (`core/`, `cache/`, `event/`), a code generator with a
small language of its own (`dsl/`, `generator/`, `cmd/nx`) and two demos
(`examples/`). A service is a process that registers in a registry under a lease; a
gateway is a process that watches the registry, pools a connection per instance and
sends each request through a limiter, a shedder, a breaker, a balancer and a
connection. Within a process everything runs in goroutines that share structs, under
a mutex, an atomic, or neither: most of what can go wrong is in how their steps
interleave.

| part | state | operations | hard behaviour | what makes it correct |
|---|---|---|---|---|
| **circuit breaker** `core/circuitbreaker` | state and half-open tickets (atomics), buckets and openedAt (mutex) | Allow, OnSuccess, OnFailure, Reset | atomics beside a mutex: a goroutine acts on a state it read long ago | probes bounded, every ticket accounted for, a decision still true when it is stored, half-open is left |
| **rate limiter** `core/ratelimit` | tokens, lastRefill (atomics, unsigned) | AllowN, Available | the refill is a load, an add and a store | no wrap below 0, never above the burst, over-issue bounded |
| **static registry** `core/registry/registry.go` | slices per service, watchers' channels | Register, Deregister, Discover, Watch | slices handed out share their array with later in-place updates; notifications dropped | no nil instance, the registry's own list exact |
| **pooled client** `core/client/pooled_client.go` | instances, pool, watch goroutine | Start, Call, Close | calls on snapshots while the list changes | the list in sync, a client per instance made once |
| **RPC client** `core/client/client.go` | a breaker | Call with retries | the breaker is asked once per call | what an open breaker lets through is bounded |
| **cache** `cache/` | two levels, single flight | Get, Set, Delete, Clear, DoWithCache | back-fill in a goroutine of its own, failures of L2 | one loader per key, no waiter forgotten, levels agree unless raced |
| **etcd registry** `core/registry/etcd.go` | lease, watch, channel | Register, Deregister, Discover, Watch | leases expire, refreshes fail, processes die half way | nothing left behind, the dead are forgotten |
| **gRPC pool, rpc-demo** `examples/rpc-demo` | pooled connections; the life of processes | Start, Select, Close; serve, exit, crash | connections closed under calls | a call on a healthy instance is answered |
| **DI container** `core/di` | providers, order | Register, InitAll, ShutdownAll | maps in any order, failures half way, the lock held over callbacks | dependencies first, cycles reported, dependents closed first |
| **server** `core/server` | started, the container | Start, Stop | composes container, configuration, registry, lifecycle | a server can be started |
| **lifecycle** `core/lifecycle` | state, context | Run, Stop, Shutdown | Run and another Shutdown at once | Run returns; nil means that all was stopped |
| **middleware** `core/middleware`, `core/types.go` | the chain, a gauge | Wrap, Recovery, Timeout, Metrics | panics and timeouts across goroutines | gauge exact, goroutines end, panics contained |
| **SSE** `core/sse` | a channel per stream | NewChannelHandler, NewHandler, stream handlers | disconnect against a full channel | order, completeness, end of stream |
| **event bus** `event/` | subscribers per type | Publish, Subscribe, Unsubscribe | in-place removal while a copy is made | everyone once |
| **gateway** `generator/gateway_generator.go` | limiters, breaker, shedder per route | ServeHTTP | several reports for one request | a dead upstream is cut off |
| **shedding** `core/shedding` | CPU samples | Allow | only callers refresh the samples | requests get through again |
| **metrics** `core/metrics` | maps under one mutex or none | Observe, WriteTo | scrape against observation | no more below a bound than in all |
| **configuration** `core/config` | flat and nested maps | Load, Get, Set | a YAML reader of its own | environment before file before default |
| **tracer** `core/tracer` | spans in contexts | StartSpan, End, Extract | spans that outlive their request | a trace is one tree |
| **balancer** `core/balancer` | counters | Select | concurrent draws, wrap of 32 bits | even shares |
| **DSL** `dsl/` | token position | the lexer and every parser procedure | a token no rule consumes | a text is parsed to what was meant |
| **etcd-demo** `examples/etcd-demo` | a repository per process, requests, attempts, gin contexts | the gateway's handlers, CallRaw, the services' handlers, exit | a retried POST, a worker that outlives its request, ids per process | a receipt names a record that exists; each request charges a bounded number of times |
| **generators, nx** `generator/`, `cmd/nx` | a tree of files | gen api, gen gateway, gen client, new gateway, new rpc, new rpc-gateway | writes whose errors are ignored, interrupted and repeated runs, two names for one file | what a file refers to is written by somebody |

How they interact: the gateway's request goes *MultiLevel limiter → shedder → breaker
→ discovery → balancer → HTTP proxy* and reports to the breaker; `PooledClient` is a
watcher of a registry and uses a breaker and a balancer; `RpcDemo` is a service
process on `EtcdRegistry` and a gateway process whose `GrpcPool` watches the same
etcd; `DoWithCache` runs a `SingleFlight` over a `MultiLevel` cache of two levels;
the server assembles configuration, registry and lifecycle in the container and hands
control to the lifecycle; the etcd-demo's gateway is a gin program that sends each
request through Timeout and a retrying client to one of several processes; nx parses a
file of the DSL and writes programs that use the rest. The middleware, SSE, the event bus, metrics and the tracer
share nothing with the others but the request.

`PROJECT.json` lists every part under `components`, and under `hazards` the places in
the code that a test would hardly reach, each with the properties that watch it.

## 2. The modules

An action is one atomic access of the code, one stretch under a mutex, or one call
into something external; `pc`, `step`, `doing` and the like say where a goroutine is.
Ghost variables are marked as such where they are declared. A definition whose name
carries a suffix (`Draw_NotAtomic`) and whose comment begins with *Mutation* or *The
bug of* is a plausible mistake in that piece of code, kept beside it: the property that is there to
find it must fail when it is put in place.

**Breaker family.** `CircuitBreaker` is the breaker at the grain of one atomic access:
Allow is six actions (load state, read openedAt under the read lock, compare, store
HalfOpen, add a ticket, take it back), a report is one action under the mutex plus one
per atomic store, and the lock is a variable. Time is kept modulo the window and as
ages that saturate, which is all the code looks at. `Breaker` is the abstract
three-state cycle; `CircuitBreaker!Abstract` is the refinement mapping. `WindowBreaker`
is the same breaker with each call as one step, for the two modules that drive one:
`Gateway` (the generated ServeHTTP) and `RpcClient` (retries).

**Limiter.** `TokenBucket`: each load, store and compare-and-swap of AllowN is an
action (`Consume` is the step into its second loop, where the locals of the first are
not read again and are forgotten). Tokens are integers, so that a wrap of the unsigned
counter shows as a negative number. Of the arguments that New takes only a negative rate
without a burst is left out: the burst is then the rate, and what its conversion to
uint64 (ratelimit.go:41) yields is up to the machine.

**Discovery.** `StaticRegistry` models Go slices as what they are, a pointer to an
array, a length and a capacity, with append writing in place when there is room and
Deregister shifting elements in place; `PooledClient` EXTENDS it with the watch
goroutine and the callers. `EtcdRegistry` is the registry's code over a model of etcd
(leases, keys, watches, faults); `GrpcPool` is the pool of the demo's gateway;
`RpcDemo` composes them with the lives of the processes. `EtcdDemo` is the other demo
from the request's side: the gateway's handler under Timeout, which answers 504 while a
worker still runs on a gin.Context that gin reuses; the attempts of CallRaw, each of
which may be lost before or after the service did its work; and processes with
repositories of their own, that exit or crash. Which instances the pool lists is left
open, since `PooledClient` is about that.

**Cache.** `MemoryCache` and `SingleFlight` are used by `LoadingCache`, which adds
MultiLevel, DoWithCache, an L2 that may fail, a database and a writer. TTLs become
expiry at any time.

**Assembly.** `Container` (Kahn's algorithm, one loop turn per action), `Server`
(EXTENDS Container with the framework's own providers), `Lifecycle`.

**Request path.** `MiddlewareChain` (goroutines as frames going down and coming up,
with panics), `SseChannel`, `MemoryBus`, `Histogram`, `Shedder`, `Tracer`, `Balancer`.

**Texts.** `ApiLexer`, `ApiParser` and `ApiFiles` (sources as sequences of words, with
what is meant by each); `Config` (documents as lines with an indentation, whose
`WellFormed` says what an author may write; environment variables as functions from
names to texts). `Generator` is nx over one tree
of files: a command is the sequence of writes the code makes, each file is what it
declares and what it refers to, a write may fail unnoticed and a command be
interrupted. The documents, variables and successive editions of an API that TLC gives
them are in `MCParts`.
What the templates refer to and no command writes is a set of its own
(`MissingWhats`), so that `ReferencesResolve` is about the runs and not about the
templates; section 5 lists it.

**Model checking.** `MCCircuitBreaker`, `MCPooledClient`, `MCLoadingCache` and
`MCApiParser` give values to constants; `RpcDemo` is run as it is. `MCLibrary` puts nine components that share nothing side by side (container,
event bus, gateway, RPC client, metrics, tracer, balancer, one goroutine's breaker,
etcd-demo), and `MCTools` three that read texts and write files (DSL, configuration,
nx); `MCParts` EXTENDS both and `TokenBucket`, adds the texts, and is what TLC runs. `MCLive` has the
five whose questions are about what must happen in the end. In each, one component
takes the steps of a behaviour (in the runs the variable `part` names it), so the
state spaces add up instead of multiplying, and the properties are the components' own,
stated and commented in their modules. The fairness of each component of `MCLive` is
asked for only of the behaviours that run it.

**Proofs.** `CircuitBreakerProofs`, `TokenBucketProofs`, `LoadingCacheProofs` (with the
single flight), `PooledClientProofs` (with the static registry), `RpcDemoProofs`
(with the etcd registry and the pool), `LibraryProofs` (the components of `MCLibrary`),
`ToolProofs` (configuration and nx, in `MCTools`), `LiveProofs` (lifecycle, middleware
and SSE, in `MCLive`). `MCLibrary` and `MCTools` stand apart from `MCParts` so that what
is proved about their components has neither each other nor the texts in its scope.

No module declares a RECURSIVE operator.

## 3. The runs

| run | system | checks |
|---|---|---|
| `cb_race` | 3 callers, 1 probe, MinRequests 2, 2 buckets of one tick, SleepWindow 1, at most 3 reports per bucket | `TicketLedger`, `GrantsBounded`, `DecisionStillValid` |
| `live` | the five components of `MCLive` | see below |
| `cb_stuck` | 1 caller, 1 probe, MinRequests 2 | violates `HalfOpenResolves` |
| `pc_race` | 2 instances, 2 callers, channel of 1, 2 registry updates, 1 retry | `ListsSound`, `ListInSync` |
| `pc_leak` | the same client, one update | violates `PoolOnlyOnline` |
| `ca_race` | 2 keys, 2 readers, L1 of one entry, failing L2, 1 update | `OneLoader`, `WaitersHaveLeader`, `CacheBounded`, `CoherentUnlessRaced` |
| `ca_dirty` | the same, L2 does not fail | violates `DeletedStaysDeleted` |
| `rpc_race` | 2 process incarnations, 1 caller, channel of 2, 1 etcd fault | `ListInSync`, `NothingLeftBehind`, `HealthyCallsAnswered`, `DeadForgotten` |
| `parts` | the thirteen components of `MCParts` | see below |
| `dsl_docs` | the files that nx and the documentation write | violates `DocumentedParses` |
| `env_order` | `MCParts`, as in `parts` | violates `EnvironmentFirst` |
| `srv_start` | a server with the framework's own providers | violates `StartServes` |

`parts` checks, component by component:
`DependenciesFirst`, `CyclesReported`, `DependentsClosedFirst` (container: 3 names, 5
calls); `EveryoneOnce` (event bus: 2 publishers, 3 subscriptions); `TokensWithinBurst`,
`IssueBounded` (bucket: 3 callers, rate 1, burst 2, requests for 1 or 2 tokens, 2 ticks);
`DeadUpstreamTrips` (gateway: 2 requests, MinRequests 3, 2 buckets, bursts 3 and 2);
`OpenLeakBounded` (client: 2 goroutines, 1 retry, 3 calls); `ParsesBack` (DSL: plain
and broken files); `ScrapeWithinCount` (histogram: 2 observers, 2 observations);
`PrecedenceKept`
(configuration: two-section documents, in either order and indentation, YAML or JSON,
3 environment variables, one of them for a key with an underscore, which
`PrecedenceKept` leaves to `EnvironmentFirst`); `TracesWhole` (2 requests, 3 spans); `EvenShares` (balancer:
3 instances, a counter that wraps after 3 for the code's 2^32-1, 6 picks);
`KeepsPromises` (one goroutine's breaker implements `Breaker`: 2 probes, MinRequests 2,
SleepWindow 2); `ReceiptsHold`, `OthersAnswersOnlyLate`, `ChargesBounded` (etcd-demo: 2
requests, 2 processes, 1 retry, ids from 1 beside 2 records that are there already);
`ReferencesResolve` (nx: 4 editions of an API, 3 commands, 1 failed write or
interruption).

`live` checks `RunReturns`, `NilMeansStopped` (lifecycle: 2 hooks, 2 goroutines);
`KillsOnlyPastTimeout`, `GaugeCounts`, `WorkersEnd` (middleware: every chain of
Recovery, Timeout and Metrics, 2 requests); `StreamIntact`, `StreamEnds` (SSE: buffer
1, 3 events); `ShedderRecovers` (3 samples for the code's 10, 2 askers);
`HalfOpenResolves` (breaker: 2 callers, no probe limit, MinRequests 2 where the gateway
has 20, dense traffic). Above 1 is what matters of MinRequests: a single success does not
close the breaker, and `alignBucket` may clear it before the next one comes.

**Why the bounds are enough.** The races are between two goroutines that use stale
data and a third that changes it: three callers on the breaker and the bucket, two
callers plus the watch goroutine plus the registry on the client, two readers plus
their back-fills plus a writer on the cache. Two requests let a late worker meet the
request that took over its gin.Context, and two processes with one retry let one POST
be paid at both. Three commands are a first generation, one that is cut short, and the
one that regenerates over what is left. Buffers, histories and windows are as
small as lets them be full, wrap and be emptied (channel of 1 or 2, two buckets, L1 of
one entry, three samples, a counter that wraps where 3 does not divide 4). Every bound
is a constant used in a guard (`MaxTotal`, `MaxTime`, `MaxUpdates`, `MaxFaults`,
`MaxCalls`, `MaxEvents`, `MaxSubs`, `MaxRpcs`, `MaxObservations`, `MaxSpans`,
`MaxPicks`, `Retries`, `MaxCommands`) and stops the environment, never the code in the middle of an operation.
Symmetry is used where callers hold no identity, and only for safety.

**Deadlock** is checked in `cb_race` and `pc_race` (a goroutine can always go on). The other configurations say CHECK_DEADLOCK FALSE: processes exit,
a server stops, a parser is done.

**Fairness.**
- `CircuitBreaker!Scheduling`: every goroutine that can run does; strong fairness for
  the steps that need the lock, because `sync.RWMutex` hands itself to those that wait
  and nobody starves on it. `TrafficSpec` adds what *HalfOpenResolves* is about: calls
  go on and every call let through is reported, as `core/client` does. `cb_stuck` uses
  it; `live` asks the same of its breaker.
- `CircuitBreaker!BusyNext`, in `live` only: the traffic is dense. While the breaker is
  half-open, time leaves no bucket before MinRequests calls are reported in it
  (`BusyTick`). This is a condition on the traffic and not something the code brings
  about: without it, and with MinRequests above 1, `HalfOpenResolves` fails (section 5).
- `RpcDemo!FairSpec`: the gateway's goroutines are always ready to run; etcd lets the
  lease of a dead process expire. Nothing is assumed of callers, of processes, or of
  faults.
- `Lifecycle!Fairness`: the main goroutine runs, and hooks and startFn return.
- `MiddlewareChain!Fairness`: goroutines run and handlers return, perhaps by a panic.
- `SseChannel!Fairness`: a select takes a case that stays ready; nothing is assumed of
  the client.
- `Shedder`: time passes and requests keep coming; that the refused ones refresh the
  samples is the code's.
- `ApiParser!FairSpec`: a program that waits for nothing goes on.

## 4. What is proved

For any sets of callers, keys, instances and processes, any limits, rates, bounds and
buffers. The only assumptions are those on constants that the modules state by name,
which say that a number is a number, a set of callers is finite, a buffer has a place,
a value that stands for "none" is not one of the others, or a document or .api file is
one that its author can write; TLC evaluates each of them
in a run. (`CallersAssumption` and `ConfigAssumption` of the breaker, `BucketAssumption`,
`FlightAssumption`, `CacheAssumption`, `LoadingAssumption`, `RegistryAssumption`,
`ClientAssumption`, `EtcdAssumption`, `PoolAssumption`, the seven of `MCLibrary`, the
three of `MCTools` and the two of `MCLive`.) Those of `MCTools` are the only ones about
inputs. `FilesAssumption`: no path of a configuration file stands twice in it, and an
entry of a section stands below the section's own, deeper than it and than nothing in
between; YAML leaves the meaning of other files open or refuses them.
`EditionsAssumption`: an .api file names only types that it declares, which is all that
the generator relies on without checking. `EnvironmentsAssumption`: names are words
joined by `_`.

| module | theorem | says |
|---|---|---|
| `CircuitBreakerProofs` | `TypeCorrect` | `Spec => []TypeOK` |
| | `TicketsAreAccounted` | `Spec => []TicketLedger` |
| | `TicketsAreBounded` | halfOpenCount exceeds MaxConcurrent by at most the refused callers about to decrement it |
| | `GrantsAreBounded` | `Spec => []GrantsBounded`: MaxConcurrent probes and one per other caller |
| | `DecisionsStayValid` | `Spec => []DecisionStillValid` |
| | `LockIsDisciplined` | the mutex is held exactly between the steps of a report or Reset |
| | `AloneItKeepsItsPromises` | one caller's breaker implements `Breaker`, for any configuration |
| `TokenBucketProofs` | `TypeCorrect` | `Spec => []TypeOK` |
| | `TokensStayWithinBurst` | `Spec => []TokensWithinBurst` |
| | `RefillClockNeverGoesBack` | lastRefill never decreases |
| | `IssuesAreBounded` | `Spec => []IssueBounded`: a burst, and one more per tick that lastRefill moved |
| `LoadingCacheProofs` | `ImplementsSingleFlight` | `Spec => SF!FlightSpec`: DoWithCache implements the single flight it uses |
| | `OneLoaderRuns` | `Spec => []OneLoader`, from what is proved of `SingleFlight` |
| | `WaitersAreLed` | `Spec => []WaitersHaveLeader`, likewise |
| | `CacheStaysBounded` | `Spec => []CacheBounded` |
| | `CoherenceHolds` | `Spec => []CoherentUnlessRaced` |
| `PooledClientProofs` | `ListsStaySound` | `Spec => []ListsSound` |
| | `ListStaysInSync` | `Spec => []ListInSync` |
| `RpcDemoProofs` | `TypeCorrect` | `Spec => []TypeOK` |
| | `NothingIsLeftBehind` | `Spec => []NothingLeftBehind` |
| | `HealthyCallsAreAnswered` | `Spec => HealthyCallsAnswered` |
| | `ListStaysInSync` | `Spec => []ListInSync` |
| `LibraryProofs` | `DependenciesComeFirst`, `CyclesAreReported`, `DependentsAreClosedFirst` | container: `DependenciesFirst`, `CyclesReported`, `DependentsClosedFirst` |
| | `EveryoneIsReachedOnce` | event bus: `EveryoneOnce` |
| | `DeadUpstreamsTrip` | gateway: `DeadUpstreamTrips`, for any number of requests, buckets and any burst |
| | `OpenLeakStaysBounded` | RPC client: `OpenLeakBounded` |
| | `ScrapesAddUp` | metrics: `ScrapeWithinCount` |
| | `TracesStayWhole` | tracer: `TracesWhole` |
| | `SharesStayEven` | balancer: `EvenShares`, for any number of instances and any width of the counter |
| | `ReceiptsAlwaysHold`, `OthersAnswersAreLate`, `ChargesAreBounded` | etcd-demo: `ReceiptsHold`, `OthersAnswersOnlyLate`, `ChargesBounded` |
| | `OneCallerKeepsPromises` | breaker: `KeepsPromises` as `parts` checks it |
| `ToolProofs` | `PrecedenceAlwaysKept` | configuration: `PrecedenceKept`, for files of any depth, length and indentation, and any environment; every entry but those with a key of several words whose own variable is set |
| | `ReferencesAlwaysResolve` | nx: `ReferencesResolve`, for any .api files and any number of commands, failed writes and interruptions |
| `LiveProofs` | `StreamsArriveIntact` | SSE: `StreamIntact` |
| | `NilRunsHaveStopped` | lifecycle: `NilMeansStopped` |
| | `OnlyTimeoutKills`, `GaugeIsRight` | middleware: `KillsOnlyPastTimeout`, `GaugeCounts` |

**The breaker's tickets** (`LedgerInv`). That at most MaxConcurrent plus one per other
caller are let through is not inductive: a late decrement, of a ticket that a store of
0 already forgot, makes room for one more probe. `TicketLedger` says what halfOpenCount
stands for at every moment: tickets kept, plus the ones about to be given back, less
the ones given back late. `GrantsInv` bounds the late ones by the callers that were
undoing when the 0 was stored, of which the storing one is not one. **Its decisions**
(`DecisionInv`): a caller is at a deciding point exactly while it holds the lock, and
every write of the buckets needs the lock free.

**A breaker alone** (`AloneInv`). Where its one caller is says what the state is: it is
about to compare ages only while the state is Open, and inside a report only in the
state it found. So what it read still holds when it acts, every atomic step is a step of
`Breaker` or a stutter, and `halfOpenCount` is the probes let through plus its own
refused ticket. With a second caller none of this is true (section 5).

**The bucket** (`BurstInv`): what each caller knows at each point of AllowN, that the
tokens a compare-and-swap expects were enough. `IssueInv` adds a count: `issued +
tokens` grows only when a refill is stored, by a burst at most, and a refill on its way
has already moved lastRefill, so the callers refilling are subtracted from the ticks.

**Single flight** (`KeyedInv`, `FlightInv`, of module `SingleFlight` by instance): a published call has one leader, a leader's
call is the published one of its key, and a waiter's call is led by a goroutine still
on its way to `wg.Done`.

**The cache.** Each step of DoWithCache is shown to be a step of `SingleFlight` or a
stutter (`LoadRefines`, `OthersRefine`), which brings what is proved of it along. `CacheBounded`
needs `SizeInv`: one entry per key, so that a Set of a key that is there does not grow
the store, and one of a new key evicts first when it is full. `CoherentUnlessRaced` needs
`CohInv`: not only what the levels hold, but whatever a reader, a loader, a waiter or a
pending back-fill *carries* for a key is what the database holds, unless the key has been
raced. A race is exactly an update that meets a carried value.

**Registry and client.** The registry's list is a window on an array that every handed
out list shares. `Keeps` says what an update may do to arrays that others see: slots that
are filled stay filled, and the current list's stay what they are outside a Deregister,
whose half-done shift `moving` describes. `ListInSync` follows the newest list
(`Newest`): what is last in the channel, else in the watch goroutine's hands, else the
client's own, is the registry's list, unless the last notification was dropped.

**The rpc-demo.** `RegistrationInv` ties keys, leases, puts still on their way and how
far a process came; from it `NothingLeftBehind`, and that an instance once dead stays so
(`DeadStays`). `ListsInv` orders the lists on their way through the gateway, from the
pool's own to the one just pulled: each holds what the cache does, and an instance that a
later list misses is dead (`Follows`). So the pool only closes connections of the dead
(`CallsInv`), which is `HealthyCallsAnswered`. `SyncInv` is the argument of `ListInSync`
again, with the watch's pull between the change and the list.

**The etcd-demo.** `ReceiptInv`: records never change and ids are never given twice, so a
message and an answer on their way name records that stand. `LateInv`: no two requests
whose clients wait have the same gin.Context, so a worker that writes into another's has
timed out. `ChargeInv`: the records of a request and its messages that may still make one
are together at most the attempts it sent.

**Event bus** (`BusInv`). While somebody copies, the array's length stands, because
removal needs the write lock; what has been copied is a prefix of a list without
repetition that holds every subscription made before and not cancelled.
**Gateway** (`GateInv`). While the upstream has answered nobody and no bucket began
between a request's two reports, no bucket has more successes than failures, and the
current one has room for the successes that failed requests still owe; so at an error the
failures are ahead in that bucket, and in the sum over all of them (`MoreFailures`).
The sum is a recursive function over the buckets' indices: that it is defined, and
compares as its terms do, is shown by taking the least index at which it would not.
**RPC client** (`LeakInv`). What has leaked and what calls that were admitted may still
send is at most all callers' attempts, less the one that opened the breaker.
**Metrics** (`ScrapeInv`). What a scrape has read of a bucket is at most what is in it,
and that at most the count, of which the observer that holds the lock may owe a bucket one.
**Tracer** (`TraceInv`). Every context that a goroutine holds, or that was passed on,
names a recorded span or the remote one that a request carried, and a span's parent is
such a one, of its own trace. It does not rest on what Extract finds.

**Container.** `SortedInv`: what is sorted comes after its dependencies. `KahnInv`: queue
and sorted are the providers with in-degree 0, in-degrees count the dependencies not
taken yet, and no set of providers that depend on each other in a knot meets them; when
the queue is empty the rest is such a knot. `StandInv` says of each live provider where
in `order` those it stands on are, for `DependentsClosedFirst`.

**Balancer** (`ShareInv`). With round robin, an instance's picks and the draws it is still
owed make a number of rounds that does not increase with its place and differs by at most
the wraps of the counter; with least connections, picks are connections, and the least of
them is what is taken. That there is a least one is proved from the well-foundedness of
the naturals.

**Lifecycle** (`LifeInv`). The hooks started are 1 to n in order, those stopped are their
reverse from the end, and the context is cancelled last. **SSE** (`StreamInv`). What is
written, what is in the channel and what is about to be sent are one interval of events.
**Middleware** (`ChainInv`). A panic on its way up has no Recovery inside it; the worker
that Timeout starts stays inside the Timeout, and runs only for a request of its own. The
gauge is the cardinality of the goroutines inside Metrics, which each of its two steps
changes by one.

**nx** (`TreeInv`). Declarations and references are split in two. A *stable* one
(`Stable`) is a matter of the path of the file that makes it (`Owned`): every command
that writes the file declares it. A *local* one (`Local`), as of a handler's logic, is
needed at one path only, and whoever rewrites the file that declares it rewrites the one
that needs it (`Companion`). So each command's list of writes is complete in itself
(`Complete`: an edition's by `GenerateFiles`, the others' by one lemma each). As
`FileName` may give a stream and a handler the same file, what counts is the last write
to a path: `LastWrites` says that a command's files hold what it wrote last, and
`Explained` that a file it did not write still finds what it needs, because the
declarations it relies on are stable, or dangled before.

**Configuration** (`ConfigInv`). After each line, what has been read is laid over the
defaults (`Laid`); the maps are the tree of the entries so far (`InTree`); and the stack
holds, in order, the sections that the next line may still be in (`Opened`), so that the
level a line falls back to is its section (`LevelIsParent`). JSON gives the same tree at
once (`UnmarshalsTree`), and flattening a tree gives back its entries by their paths
(`FlattenTree`): as the function that flattens is recursive over maps which only hold
later ones, that it is right is shown by taking the last map on which it would not be.
A variable names at most one path whose keys are single words (`NamesOfPaths`), so the
environment is laid over the entries that the precedence says, but for those that have a
variable of their own and a key of several words (`BlurredBy`), which it misses; and the
getters make the same of a literal whichever reader typed it (`ReadsBack`).

`LibraryProofs`, `ToolProofs` and `LiveProofs` prove each component's invariant of its
own specification; a lemma such as `DemoRuns` says that a behaviour of the whole is one
of that component (the others stand still), so that its theorem holds of the whole. A
behaviour of `MCParts` is one of `MCLibrary` and one of `MCTools`, as it leaves the
variables of one alone when it runs the other.

**Model-checked only.** `ParsesBack`, which says that what the parser makes of the words
of a file is what its author meant, for the files that the run gives it: a file is
written out by recursion over its parts, and that the parser inverts this is an
induction over data, out of the prover's reach. (Where the theorems above meet a
recursive function, an argument by a least or a greatest index took its place.)
Liveness under fairness (`HalfOpenResolves`, `DeadForgotten`, `RunReturns`, `WorkersEnd`,
`StreamEnds`, `ShedderRecovers`), and ENABLED, are out of its reach too.

## 5. What the code does that its text does not say

Six of these are runs that TLC refutes, with a trace each (`PROJECT.json`,
`findings`):

- **A probe's ticket is never given back** (`cb_stuck`, circuitbreaker.go:124):
  MaxConcurrent bounds the probes of a whole half-open period, not the concurrent ones,
  and with fewer than MinRequests of them the breaker is half-open for ever.
- **A connection of an instance that is gone stays pooled** (`pc_leak`,
  pooled_client.go:193): by a race of a call with a Deregister; and without any race,
  when Deregister moves the elements of the array the client's old list shares
  (registry.go:94).
- **A deleted value comes back into L1** (`ca_dirty`, cache.go:62, 334).
- **A document of nx makes the parser loop for ever** (`dsl_docs`, parser.go:100):
  `info {`. Without it, `user.api` is parsed to a file with no service, because
  `middleware: Auth, RateLimit` swallows a parenthesis.
- **The environment does not reach every entry** (`env_order`, config.go:283): loadEnv
  takes every underscore of a name for a dot, so that NEXUS_SHEDDING_CPU_THRESHOLD sets
  `shedding.cpu.threshold`, which nobody reads. Eight of the twenty entries of
  loadDefaults have a key with an underscore, and keep what the file or the default says,
  against "ENV > YAML/JSON file > default" of config.go:3. `PrecedenceKept` is what holds
  of the others.
- **No server can be started** (`srv_start`, server.go:229): the registry and lifecycle
  providers depend on a provider `config` that only exists as an instance; a program
  that registers config.NewProvider itself reaches its Init, which waits for the mutex
  that InitAll holds. A Start that failed leaves `started` set.

Others, met while modelling and visible in the models, not stated as runs:

- *Breaker with several callers.* The refinement of `KeepsPromises` holds for one
  goroutine; with two, a late store of HalfOpen overwrites Closed or a re-opened state.
  `alignBucket` clears only the bucket it moves to (line 263), so counts older than the
  window are summed, and with BucketCount 1 nothing is ever cleared. shouldClose counts
  the successes of the current bucket alone, which alignBucket has just cleared: with
  MinRequests above 1 (the gateway's is 20), successes that come more slowly than
  MinRequests a bucket keep the breaker half-open for ever, without a failure and without
  a limit of probes. `HalfOpenResolves` in `live` is about denser traffic. `SlowRate`
  (package comment, line 3) decides nothing.
- *Limiter.* A refill that overwrites a concurrent consumption issues tokens twice
  (ratelimit.go:67); `IssueBounded` is the bound on it. MultiLevel keeps the global token
  when the service's bucket refuses.
- *Cache.* A TTL of 0 is taken as an expiry in the past (cache.go:19 says none). A
  loader that panics leaves its waiters waiting: `WaitersHaveLeader` excludes exactly
  this. A Get that found an expired entry deletes the key after it gave up the read lock
  (cache.go:175), and with it what another goroutine set in between.
- *etcd registry.* A lease lost while the process lives is not taken again; a refresh
  that failed is not retried until the next change; Deregister returns early when the
  revocation is refused (etcd.go:142) and leaves the key to its lease.
- *rpc-demo.* Shutting down cuts calls in progress (pool.go:113), and main returns
  before `httpSrv.Shutdown` has finished.
- *Lifecycle.* Stop, and a Shutdown elsewhere, cancel the context under the OnStop
  hooks, and run them twice. AddHook locks what Run reads without the lock.
- *Container.* An InitAll repeated after a success appends to the same order;
  `DependentsClosedFirst` is stated for orders without repetition. ShutdownAll stops at
  the first failure.
- *Middleware.* A panic in Timeout's goroutine ends the process, whatever Recovery is
  outside.
- *SSE.* NewIntervalHandler's goroutine blocks for ever on a full channel whose reader
  has gone.
- *Gateway.* Every proxy error is reported as a failure and then as a success
  (lines 433, 445): at an ErrorRate of 0.5 a single real answer, or a bucket that
  begins between the two, keeps the breaker closed; `DeadUpstreamTrips` is what
  remains. A 5xx answer counts as a success; a request that fails in discovery or in
  the balancer is not reported. The generated text does not compile as it is
  (lines 231, 239).
- *DSL.* Quoted `service:` values are ignored, commented-out handlers become handlers,
  a path is cut at `:id`, `[]User` fields are misread.
- *RPC client.* The breaker is asked once per call but each retry reports.
- *Shedder.* lastCheck is read outside the lock, so several callers take a sample at
  once. *Metrics.* WriteTo reads maps without their mutex; the series of a histogram
  with labels are never written.
- *Tracer.* End calls no processor (comment at tracer.go:278); an unsampled root
  passes no context, so its children start traces of their own; Extract looks for
  "traceparent" in a map with canonical keys (middleware.go:312), so an incoming trace
  is never continued, though tracer.go:3, 208 and middleware.go:309 say so; `TracesWhole`
  holds either way, since it allows a span the remote parent its request named.
- *Configuration.* Lists are announced (config.go:143) and not parsed; GetStringMap does
  not see the environment.
- *Balancer.* Weighted round robin always picks the instance in the middle; least
  connections never counts down, since nothing calls OnComplete; the ring of the
  consistent hash is not sorted, though line 173 says so, and an empty list panics.

- *etcd-demo.* The client hears 504 (Timeout) or 502 (retries exhausted) of a payment
  that was made, and a retried POST makes several payments: `ChargesBounded` is one per
  attempt. A late worker goes on with a gin.Context that already serves another
  request, so that its answer may reach that request's client:
  `OthersAnswersOnlyLate` says that nothing else does. Ids are counted per process, so
  GET at another instance shows another record, or none. `os.Exit(0)` in the signal
  handler skips `srv.Shutdown` and every defer of main.
- *nx, what is missing.* No service that `nx gen api` writes compiles: generateServer is
  never called, though the flow at generator.go:47 lists it; `<n>HandlerWrapper`,
  `NewHandler`, the handlers' methods and the `<n>Response` types are referred to and
  never written. generator.go:582 and 670 give Sprintf one argument too few, so SSE
  logic is declared on the wrong type and ends in `%!s(MISSING)`;
  gateway_generator.go:152 has 13 verbs for 12 arguments, which puts the routes into the
  version. Without an info block generateRouter (generator.go:215) panics half way.
  `nx new gateway` writes a main that imports a package `gateway/<name>/internal/config`
  nobody writes; `nx gen proto` puts its output where nothing imports it.
- *nx, what does not fit.* nx says `cd X && go run main.go`, and main.go is under
  `service/<group>`. The generated configuration is read by keys (`ratelimit.rate`,
  `discovery.provider`, `server.timeout`) that the generated YAML has under other
  parents, and `strategy: round_robin` is no value of balancer.Strategy. The gateway
  looks for `<group>-service`, the service registers as `<group>`. A path with two
  methods is registered twice, where ServeMux panics. The generated client POSTs every
  method to the handler's name.
- *nx, repeated.* Regenerating overwrites the logic files that say "implement here", and
  a handler's file may be another's (`Overwritten` in `Generator`): a `Watch` that is
  SSE and a `WatchSse`, a handler `Routes` and the routes.
- *nx, streams.* The generator has templates for SSE handlers, and the parser never sets
  `IsSSE` (dsl/ast/ast.go:61): nx itself writes no stream. `Generator` takes streams
  among its handlers all the same, for what GenerateFiles does with a tree of its caller's.

## 6. What is not modelled

- Text: log and response; of the generators, the wording of the templates (their
  declarations and references are `Generator`); of nx, the commands that only print or
  run another tool.
- Adapters around other libraries: `plugins/`. The nats and grpc ones do not compile
  against `core` at this commit.
- Interfaces without implementation: `queue/`, `storage/`.
- Stateless helpers: `internal/`.
- etcd-demo: the constant answers of the home service; the handler index of a reused
  gin.Context, which the late worker and the new request change without
  synchronisation.
- Stubs protoc wrote (`*.pb.go`): generated code.
- Within modelled components: whatever `components` notes as left out, among it
  consistent hashing, AddHook, NewMutex of etcd, span attributes and exporters,
  counters and gauges, heartbeats, routes, payloads.
- Clocks: time is ticks or "at any time"; wall-clock jumps are left out.
- Data races on plain memory that Go leaves undefined are modelled as atomic accesses
  in any order, not as torn values.

## 7. The plan

Done, in this order: the breaker and its proofs; the bucket and its proofs; registry
and client; cache and single flight with proofs; etcd, pool and demo; the parts; the
server; the liveness parts on their own; etcd-demo; the generators; the proofs of
client, cache, rpc-demo, etcd-demo and of the parts; those of configuration and nx.

Next, models:
1. the server with a container that knows instances, to check what Start would do after
   InitAll (registration, listening, the deregistering hook) against the lifecycle;
2. the balancer over a list that changes, and the consistent hash;
3. counters and gauges beside the histogram; the configuration's lists and maps.

Next, proofs:
1. `ApiParser`: that each procedure of the parser consumes the words of its rule, one
   lemma a procedure, which is what is left of `ParsesBack` but for the induction;
2. `StaticRegistry`: the lists handed out by `Discover` between two updates.
