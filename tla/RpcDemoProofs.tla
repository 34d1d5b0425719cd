---------------------------- MODULE RpcDemoProofs ----------------------------
(* What the rpc-demo guarantees for any processes, handlers and channel size. *)
EXTENDS RpcDemo, TLAPS

Types ==
  /\ leases \subseteq Instances
  /\ keys \subseteq Instances
  /\ latePuts \subseteq Instances
  /\ faults \in Nat
  /\ reg \in [Instances -> {"new", "granted", "put", "registered", "removed", "erred", "over"}]
  /\ cache \subseteq Instances
  /\ watch \in {"off", "open", "pull", "push", "wait", "closed"}
  /\ events \in Nat
  /\ pulled \subseteq Instances
  /\ channel \in Seq(SUBSET Instances)
  /\ started \in {"new", "discovered", "running", "failed"}
  /\ instances \subseteq Instances
  /\ conns \subseteq Instances
  /\ update \subseteq Instances
  /\ held \in [Callers -> Instances \cup {NoInstance}]
  /\ broken \subseteq Callers
  /\ proc \in [Instances -> {"starting", "serving", "leaving", "draining", "exited"}]
  /\ rpc \in [Callers -> {"none", "chosen", "accepted", "failed"}]
  /\ gateway \in {"up", "down"}

Flags == lost \in BOOLEAN /\ updating \in BOOLEAN

\* The flags stand apart from the rest, for the provers' sake.
TypeOK == Types /\ Flags

LEMMA TypesInvariant == Spec => []Types
<1>. USE EtcdAssumption DEF Types
<1>1. Init => Types
  BY DEF Init, RegistryInit, PoolInit
<1>2. Types /\ [Next]_vars => Types'
  <2>. SUFFICES ASSUME Types, [Next]_vars PROVE Types'
    OBVIOUS
  <2>. USE DEF Fault, NoFault, Write, Now, Become, Exit, RpcBecomes, registryVars, poolVars, etcdVars,
             watcherVars, othersVars, processVars
  <2>1. CASE UNCHANGED vars
    BY <2>1 DEF vars
  <2>2. ASSUME NEW i \in Instances, Registers(i) PROVE Types'
    BY <2>2 DEF Registers, Register, RegisterGrant, RegisterPut, RegisterKeepAlive
  <2>3. ASSUME NEW i \in Instances, Serve(i) \/ Signal(i) \/ Drained(i) \/ Crash(i) PROVE Types'
    BY <2>3 DEF Serve, Signal, Drained, Crash
  <2>4. ASSUME NEW i \in Instances, Leave(i) PROVE Types'
    BY <2>4 DEF Leave, Deregister
  <2>5. ASSUME NEW i \in Instances, LeaseExpires(i) \/ LatePut(i) PROVE Types'
    BY <2>5 DEF LeaseExpires, Expire, LatePut, PutArrives
  <2>6. ASSUME NEW c \in Callers, Handler(c) PROVE Types'
    BY <2>6 DEF Handler, Choose, Select, Send, CutShort, Answer, Release
  <2>7. ASSUME StartDiscover \/ StartWatch, UNCHANGED processVars PROVE Types'
    <3>1. <<cache>> \in Seq(SUBSET Instances)
      OBVIOUS
    <3>2. CASE StartDiscover
      BY <2>7, <3>2 DEF StartDiscover, Connect, Discovered
    <3>3. CASE StartWatch
      BY <2>7, <3>1, <3>3 DEF StartWatch, Watch
    <3>. QED  BY <2>7, <3>2, <3>3
  <2>8. ASSUME WatchLoop, UNCHANGED poolVars, UNCHANGED processVars PROVE Types'
    <3>1. CASE LoopPush
      <4>1. Append(channel, pulled) \in Seq(SUBSET Instances)
        OBVIOUS
      <4>. QED  BY <2>8, <3>1, <4>1 DEF LoopPush
    <3>2. CASE LoopOpen \/ LoopPull \/ LoopCancelled
      BY <2>8, <3>2 DEF LoopOpen, LoopPull, Discovered, LoopCancelled
    <3>3. CASE LoopEvent
      BY <2>8, <3>3 DEF LoopEvent
    <3>. QED  BY <2>8, <3>1, <3>2, <3>3 DEF WatchLoop
  <2>9. ASSUME PoolReceive, UNCHANGED processVars PROVE Types'
    <3>1. Head(channel) \subseteq Instances /\ Tail(channel) \in Seq(SUBSET Instances)
      BY <2>9 DEF PoolReceive, Receive
    <3>. QED  BY <2>9, <3>1 DEF PoolReceive, Receive
  <2>10. ASSUME PoolApply, UNCHANGED processVars PROVE Types'
    BY <2>10 DEF PoolApply, Connect
  <2>11. CASE GatewayExits
    BY <2>11 DEF GatewayExits, WatcherGone, PoolGone
  <2>. QED
    BY <2>1, <2>2, <2>3, <2>4, <2>5, <2>6, <2>7, <2>8, <2>9, <2>10, <2>11
    DEF Next, Process, Refresh
<1>. QED  BY <1>1, <1>2, PTL DEF Spec

-----------------------------------------------------------------------------
(* The invariants *)

\* Instance i has no key and never will: no Put is to come, nor one under way.
Dead(i) == i \notin keys /\ i \notin latePuts /\ reg[i] \notin {"new", "granted"}

\* Instance i has, or had, a key.
Known(i) == i \in keys \/ Dead(i)

\* A key is put once, under a lease that stands as long as the Put may come.
RegistrationInv ==
  /\ keys \subseteq leases
  /\ latePuts \subseteq leases
  /\ \A i \in Instances :
       /\ proc[i] = "exited" => reg[i] = "over"
       /\ reg[i] = "granted" => i \in leases
       /\ i \in keys => reg[i] \notin {"new", "granted"}
       /\ i \in latePuts => reg[i] = "over" /\ i \notin keys
       /\ reg[i] = "removed" => i \notin leases

\* What the later of two lists does not have any more is dead.
Follows(older, newer) == \A i \in older \ newer : Dead(i)

\* The lists of the gateway, from the pool's own to the one just pulled, each
\* follow the older ones, and hold what the cache does.
ListsInv ==
  /\ \A i \in cache : Known(i)
  /\ instances \subseteq cache /\ update \subseteq cache /\ pulled \subseteq cache
  /\ \A n \in 1 .. Len(channel) : channel[n] \subseteq cache /\ Follows(instances, channel[n])
  /\ \A m, n \in 1 .. Len(channel) : m < n => Follows(channel[m], channel[n])
  /\ updating =>
       /\ Follows(instances, update)
       /\ \A n \in 1 .. Len(channel) : Follows(update, channel[n])
  /\ watch = "push" =>
       /\ Follows(instances, pulled)
       /\ updating => Follows(update, pulled)
       /\ \A n \in 1 .. Len(channel) : Follows(channel[n], pulled)

\* Nothing is on its way before Start is over.
StartInv ==
  /\ started = "new" => instances = {} /\ conns = {}
  /\ started \in {"new", "discovered"} => watch = "off"
  /\ started = "failed" => watch \in {"off", "closed"}
  /\ started # "running" => channel = <<>> /\ ~updating
  /\ gateway = "down" => started = "failed"

\* Connections are those of listed instances, and only those of dead ones are
\* taken from a caller.
CallsInv ==
  /\ conns \subseteq instances
  /\ \A c \in Callers :
       /\ held[c] # NoInstance => held[c] \in conns \/ c \in broken
       /\ c \in broken => held[c] # NoInstance /\ Dead(held[c])

\* The list that the pool will have once it has taken what is on its way.
Newest ==
  IF channel # <<>> THEN channel[Len(channel)]
  ELSE IF updating THEN update ELSE instances

\* Unless the watch has a change to report, what was pulled is what there is.
SyncInv ==
  /\ watch = "push" /\ events = 0 => pulled = keys
  /\ watch = "wait" /\ events = 0 /\ ~lost => Newest = keys

-----------------------------------------------------------------------------
(* Keys and leases *)

\* What the gateway does leaves the service's processes and etcd's keys alone.
LEMMA GatewayOnlyReads ==
  ASSUME (\E c \in Callers : Handler(c)) \/ Refresh \/ GatewayExits
  PROVE  UNCHANGED <<leases, keys, latePuts, reg, proc>>
<1>. USE DEF registryVars, poolVars, processVars, etcdVars, watcherVars
<1>1. ASSUME NEW c \in Callers, Handler(c) PROVE UNCHANGED <<leases, keys, latePuts, reg, proc>>
  BY <1>1 DEF Handler, Choose, Select, Send, CutShort, Answer, Release
<1>2. CASE Refresh
  BY <1>2 DEF Refresh, StartDiscover, StartWatch, Watch, WatchLoop, LoopOpen, LoopPull, LoopPush,
              LoopEvent, LoopCancelled, PoolReceive, Receive, PoolApply
<1>3. CASE GatewayExits
  BY <1>3 DEF GatewayExits, WatcherGone, PoolGone
<1>. QED  BY <1>1, <1>2, <1>3

LEMMA RegistrationInvariant == Spec => []RegistrationInv
<1>. USE DEF RegistrationInv
<1>1. Init => RegistrationInv
  BY DEF Init, RegistryInit
<1>2. Types /\ RegistrationInv /\ [Next]_vars => RegistrationInv'
  <2>. SUFFICES ASSUME Types, RegistrationInv, [Next]_vars PROVE RegistrationInv'
    OBVIOUS
  <2>. USE DEF Types, Now, Become, Exit, Write, othersVars
  <2>1. CASE UNCHANGED <<leases, keys, latePuts, reg, proc>>
    BY <2>1
  <2>2. ASSUME NEW i \in Instances, Registers(i) PROVE RegistrationInv'
    <3>1. CASE RegisterGrant(i)
      BY <2>2, <3>1 DEF Registers, RegisterGrant
    <3>2. CASE RegisterPut(i)
      BY <2>2, <3>2 DEF Registers, RegisterPut
    <3>3. CASE RegisterKeepAlive(i)
      BY <2>2, <3>3 DEF Registers, RegisterKeepAlive
    <3>. QED  BY <2>2, <3>1, <3>2, <3>3 DEF Registers, Register
  <2>3. ASSUME NEW i \in Instances, Serve(i) \/ Signal(i) \/ Drained(i) \/ Crash(i)
        PROVE  RegistrationInv'
    BY <2>3 DEF Serve, Signal, Drained, Crash
  <2>4. ASSUME NEW i \in Instances, Leave(i) PROVE RegistrationInv'
    BY <2>4 DEF Leave, Deregister
  <2>5. ASSUME NEW i \in Instances, LeaseExpires(i) PROVE RegistrationInv'
    BY <2>5 DEF LeaseExpires, Expire, processVars
  <2>6. ASSUME NEW i \in Instances, LatePut(i) PROVE RegistrationInv'
    BY <2>6 DEF LatePut, PutArrives, processVars
  <2>. QED
    BY <2>1, <2>2, <2>3, <2>4, <2>5, <2>6, GatewayOnlyReads DEF Next, Process, vars
<1>. QED  BY <1>1, <1>2, TypesInvariant, PTL DEF Spec

\* The property NothingLeftBehind of the run rpc_race: a key never outlives its
\* lease, so that it goes with it, and what was deregistered stays away
\* (etcd.go:96, 142).
THEOREM NothingIsLeftBehind == Spec => []NothingLeftBehind
<1>1. RegistrationInv => NothingLeftBehind
  BY DEF RegistrationInv, NothingLeftBehind
<1>. QED  BY <1>1, RegistrationInvariant, PTL

\* A dead instance stays dead, and a known one known.
LEMMA DeadStays ==
  ASSUME Types, RegistrationInv, [Next]_vars, NEW j \in Instances
  PROVE  /\ Dead(j) => Dead(j)'
         /\ Known(j) => Known(j)'
<1>. USE DEF Types, RegistrationInv, Dead, Known, Now, Become, Exit, Write, othersVars
<1>1. CASE UNCHANGED <<leases, keys, latePuts, reg, proc>>
  BY <1>1
<1>2. ASSUME NEW i \in Instances, Registers(i)
      PROVE  (Dead(j) => Dead(j)') /\ (Known(j) => Known(j)')
  BY <1>2 DEF Registers, Register, RegisterGrant, RegisterPut, RegisterKeepAlive
<1>3. ASSUME NEW i \in Instances, Serve(i) \/ Signal(i) \/ Drained(i) \/ Crash(i)
      PROVE  (Dead(j) => Dead(j)') /\ (Known(j) => Known(j)')
  BY <1>3 DEF Serve, Signal, Drained, Crash
<1>4. ASSUME NEW i \in Instances, Leave(i)
      PROVE  (Dead(j) => Dead(j)') /\ (Known(j) => Known(j)')
  BY <1>4 DEF Leave, Deregister
<1>5. ASSUME NEW i \in Instances, LeaseExpires(i) \/ LatePut(i)
      PROVE  (Dead(j) => Dead(j)') /\ (Known(j) => Known(j)')
  BY <1>5 DEF LeaseExpires, Expire, LatePut, PutArrives, processVars
<1>. QED
  BY <1>1, <1>2, <1>3, <1>4, <1>5, GatewayOnlyReads DEF Next, Process, vars

-----------------------------------------------------------------------------
(* The gateway's lists *)

\* What a service process does leaves the gateway's lists alone.
LEMMA ProcessesOnlyWriteKeys ==
  ASSUME \E i \in Instances : Process(i)
  PROVE  UNCHANGED <<cache, watch, pulled, channel, lost, started, instances, conns, updating,
                     update, held, broken, rpc, gateway>>
BY DEF Process, Registers, Register, RegisterGrant, RegisterPut, RegisterKeepAlive, Serve, Signal,
       Leave, Deregister, Drained, Crash, LeaseExpires, Expire, LatePut, PutArrives, Become, Exit,
       othersVars, watcherVars, poolVars, processVars

\* What a handler does leaves the lists and the connections alone.
LEMMA HandlersOnlyHold ==
  ASSUME NEW c \in Callers, Handler(c)
  PROVE  UNCHANGED <<registryVars, started, instances, conns, updating, update, proc, gateway>>
BY DEF Handler, Choose, Select, Send, CutShort, Answer, Release, registryVars, poolVars

\* The two flags are set and reset, and nothing else.
LEMMA FlagsInvariant == Spec => []Flags
<1>. USE DEF Flags
<1>1. Init => Flags
  BY DEF Init, RegistryInit, PoolInit
<1>2. Flags /\ [Next]_vars => Flags'
  <2>. SUFFICES ASSUME Flags, [Next]_vars PROVE Flags'
    OBVIOUS
  <2>. USE DEF registryVars, poolVars, processVars, watcherVars, etcdVars
  <2>1. CASE UNCHANGED vars
    BY <2>1 DEF vars
  <2>2. CASE \E i \in Instances : Process(i)
    BY <2>2, ProcessesOnlyWriteKeys
  <2>3. ASSUME NEW c \in Callers, Handler(c) PROVE Flags'
    BY <2>3, HandlersOnlyHold
  <2>4. CASE Refresh
    BY <2>4 DEF Refresh, StartDiscover, StartWatch, Watch, WatchLoop, LoopOpen, LoopPull, LoopPush,
                LoopEvent, LoopCancelled, PoolReceive, Receive, PoolApply
  <2>5. CASE GatewayExits
    BY <2>5 DEF GatewayExits, WatcherGone, PoolGone
  <2>. QED  BY <2>1, <2>2, <2>3, <2>4, <2>5 DEF Next
<1>. QED  BY <1>1, <1>2, PTL DEF Spec

\* Every variable keeps its type, for any instances, callers and channel size.
THEOREM TypeCorrect == Spec => []TypeOK
<1>. QED  BY TypesInvariant, FlagsInvariant, PTL DEF TypeOK

LEMMA StartInvariant == Spec => []StartInv
<1>. USE DEF StartInv
<1>1. Init => StartInv
  BY DEF Init, RegistryInit, PoolInit
<1>2. Types /\ StartInv /\ [Next]_vars => StartInv'
  <2>. SUFFICES ASSUME Types, StartInv, [Next]_vars PROVE StartInv'
    OBVIOUS
  <2>. USE DEF Types, registryVars, poolVars, processVars, watcherVars, etcdVars
  <2>1. CASE UNCHANGED vars
    BY <2>1 DEF vars
  <2>2. CASE \E i \in Instances : Process(i)
    BY <2>2, ProcessesOnlyWriteKeys
  <2>3. ASSUME NEW c \in Callers, Handler(c) PROVE StartInv'
    BY <2>3, HandlersOnlyHold
  <2>4. CASE Refresh
    <3>1. CASE StartDiscover
      BY <2>4, <3>1 DEF Refresh, StartDiscover
    <3>2. CASE StartWatch
      BY <2>4, <3>2 DEF Refresh, StartWatch, Watch
    <3>3. CASE WatchLoop /\ UNCHANGED poolVars
      BY <2>4, <3>3 DEF Refresh, WatchLoop, LoopOpen, LoopPull, LoopPush, LoopEvent, LoopCancelled
    <3>4. CASE PoolReceive
      BY <2>4, <3>4 DEF Refresh, PoolReceive, Receive
    <3>5. CASE PoolApply
      BY <2>4, <3>5 DEF Refresh, PoolApply
    <3>. QED  BY <2>4, <3>1, <3>2, <3>3, <3>4, <3>5 DEF Refresh
  <2>5. CASE GatewayExits
    BY <2>5 DEF GatewayExits, WatcherGone, PoolGone
  <2>. QED  BY <2>1, <2>2, <2>3, <2>4, <2>5 DEF Next
<1>. QED  BY <1>1, <1>2, TypesInvariant, PTL DEF Spec

LEMMA ListsInvariant == Spec => []ListsInv
<1>1. Init => ListsInv
  BY DEF Init, RegistryInit, PoolInit, ListsInv
<1>2. Types /\ RegistrationInv /\ StartInv /\ ListsInv /\ [Next]_vars => ListsInv'
  <2>. SUFFICES ASSUME Types, RegistrationInv, StartInv, ListsInv, [Next]_vars PROVE ListsInv'
    OBVIOUS
  <2>. USE DEF ListsInv, registryVars, poolVars, processVars, watcherVars, etcdVars
  <2>1. \A j \in Instances : (Dead(j) => Dead(j)') /\ (Known(j) => Known(j)')
    BY DeadStays
  <2>2. /\ keys \subseteq Instances /\ cache \subseteq Instances
        /\ instances \subseteq Instances /\ update \subseteq Instances
        /\ channel \in Seq(SUBSET Instances)
    BY DEF Types
  <2>3. \A older, newer : older \subseteq Instances /\ Follows(older, newer)
          => Follows(older, newer)'
    BY <2>1 DEF Follows
  <2>4. ASSUME UNCHANGED <<cache, pulled, channel, instances, updating, update>>,
               watch' = "push" => watch = "push"
        PROVE  ListsInv'
    <3>1. \A n \in 1 .. Len(channel) : channel[n] \subseteq Instances
      BY <2>2
    <3>. QED  BY <2>1, <2>2, <2>3, <2>4, <3>1
  <2>5. CASE UNCHANGED vars
    BY <2>4, <2>5 DEF vars
  <2>6. CASE \E i \in Instances : Process(i)
    BY <2>4, <2>6, ProcessesOnlyWriteKeys
  <2>7. ASSUME NEW c \in Callers, Handler(c) PROVE ListsInv'
    BY <2>4, <2>7, HandlersOnlyHold
  <2>8. CASE Refresh
    <3>1. CASE StartDiscover
      BY <2>1, <2>2, <2>8, <3>1 DEF Refresh, StartDiscover, Discovered, StartInv, Known
    <3>2. CASE StartWatch
      <4>1. channel' = <<cache>> /\ watch' = "open" /\ ~updating'
            /\ UNCHANGED <<cache, pulled, instances, update>>
        BY <2>8, <3>2 DEF Refresh, StartWatch, Watch, StartInv
      <4>. QED  BY <2>1, <2>2, <4>1 DEF Follows
    <3>3. CASE WatchLoop /\ UNCHANGED poolVars
      <4>1. CASE LoopOpen \/ LoopEvent \/ LoopCancelled
        BY <2>4, <3>3, <4>1 DEF LoopOpen, LoopEvent, LoopCancelled
      <4>2. CASE LoopPull
        BY <2>1, <2>2, <2>3, <2>4, <3>3, <4>2 DEF LoopPull, Discovered, Follows, Known
      <4>3. CASE LoopPush
        BY <2>1, <2>2, <2>3, <2>4, <3>3, <4>3 DEF LoopPush
      <4>. QED  BY <3>3, <4>1, <4>2, <4>3 DEF WatchLoop
    <3>4. CASE PoolReceive
      BY <2>1, <2>2, <2>3, <2>8, <3>4 DEF Refresh, PoolReceive, Receive
    <3>5. CASE PoolApply
      BY <2>1, <2>2, <2>3, <2>8, <3>5 DEF Refresh, PoolApply
    <3>. QED  BY <2>8, <3>1, <3>2, <3>3, <3>4, <3>5 DEF Refresh
  <2>9. CASE GatewayExits
    BY <2>9 DEF GatewayExits, WatcherGone, PoolGone
  <2>. QED  BY <2>5, <2>6, <2>7, <2>8, <2>9 DEF Next
<1>. QED  BY <1>1, <1>2, TypesInvariant, RegistrationInvariant, StartInvariant, PTL DEF Spec

-----------------------------------------------------------------------------
(* The callers' connections *)

LEMMA CallsInvariant == Spec => []CallsInv
<1>1. Init => CallsInv
  BY DEF Init, PoolInit, CallsInv
<1>2. Types /\ RegistrationInv /\ StartInv /\ ListsInv /\ CallsInv /\ [Next]_vars => CallsInv'
  <2>. SUFFICES ASSUME Types, RegistrationInv, StartInv, ListsInv, CallsInv, [Next]_vars
       PROVE  CallsInv'
    OBVIOUS
  <2>. USE PoolAssumption DEF CallsInv, registryVars, poolVars, processVars
  <2>1. \A j \in Instances : Dead(j) => Dead(j)'
    BY DeadStays
  <2>2. /\ held \in [Callers -> Instances \cup {NoInstance}]
        /\ conns \subseteq Instances
    BY DEF Types
  <2>3. ASSUME UNCHANGED <<instances, conns, held, broken>> PROVE CallsInv'
    BY <2>1, <2>2, <2>3
  <2>4. CASE UNCHANGED vars
    BY <2>3, <2>4 DEF vars
  <2>5. CASE \E i \in Instances : Process(i)
    BY <2>3, <2>5, ProcessesOnlyWriteKeys
  <2>6. ASSUME NEW c \in Callers, Handler(c) PROVE CallsInv'
    <3>1. CASE Choose(c)
      BY <2>1, <2>2, <3>1 DEF Choose, Select
    <3>2. CASE Answer(c)
      BY <2>1, <2>2, <3>2 DEF Answer, Release
    <3>3. CASE Send(c) \/ CutShort(c)
      BY <2>3, <3>3 DEF Send, CutShort
    <3>. QED  BY <2>6, <3>1, <3>2, <3>3 DEF Handler
  <2>7. CASE Refresh
    <3>1. CASE StartDiscover
      BY <2>1, <2>2, <2>7, <3>1 DEF StartDiscover, Connect, StartInv
    <3>2. CASE StartWatch \/ PoolReceive
      BY <2>3, <3>2 DEF StartWatch, PoolReceive
    <3>3. CASE WatchLoop /\ UNCHANGED poolVars
      BY <2>3, <3>3
    <3>4. CASE PoolApply
      <4>1. PICK refused \in SUBSET (update \ (conns \cap update)) :
              /\ conns' = (conns \cap update) \cup (update \ refused)
              /\ broken' = broken \cup {c \in Callers : held[c] \in conns \ (conns \cap update)}
        BY <3>4 DEF PoolApply, Connect
      <4>2. instances' = update /\ UNCHANGED held /\ updating
        BY <3>4 DEF PoolApply
      <4>3. \A i \in conns \ update : i \in Instances /\ Dead(i)
        BY <2>2, <4>2 DEF ListsInv, Follows
      <4>. QED  BY <2>1, <2>2, <4>1, <4>2, <4>3
    <3>. QED  BY <2>7, <3>1, <3>2, <3>3, <3>4 DEF Refresh
  <2>8. CASE GatewayExits
    BY <2>8 DEF GatewayExits, PoolGone
  <2>. QED  BY <2>4, <2>5, <2>6, <2>7, <2>8 DEF Next
<1>. QED
  BY <1>1, <1>2, TypesInvariant, RegistrationInvariant, StartInvariant, ListsInvariant, PTL
  DEF Spec

\* The property HealthyCallsAnswered of the run rpc_race: the pool closes a
\* connection under a call only when the instance is gone from etcd for good or
\* its process is (pool.go:93-117).
THEOREM HealthyCallsAreAnswered == Spec => HealthyCallsAnswered
<1>1. Types /\ CallsInv /\ [Next]_vars
        => [\A c \in Callers :
              rpc[c] = "accepted" /\ rpc'[c] = "failed"
                => \/ proc[held[c]] = "exited"
                   \/ held[c] \notin keys]_vars
  <2>. SUFFICES ASSUME Types, CallsInv, [Next]_vars, NEW c \in Callers,
                       rpc[c] = "accepted", rpc'[c] = "failed"
                PROVE  proc[held[c]] = "exited" \/ held[c] \notin keys
    OBVIOUS
  <2>. USE DEF Types
  <2>1. CASE UNCHANGED vars
    BY <2>1 DEF vars
  <2>2. CASE \E i \in Instances : Process(i)
    BY <2>2, ProcessesOnlyWriteKeys
  <2>3. ASSUME NEW d \in Callers, Handler(d)
        PROVE  proc[held[c]] = "exited" \/ held[c] \notin keys
    <3>1. CutShort(d) /\ d = c
      BY <2>3 DEF Handler, Choose, Send, Answer, CutShort, RpcBecomes
    <3>. QED  BY <3>1 DEF CutShort, CallsInv, Dead
  <2>4. CASE Refresh
    BY <2>4 DEF Refresh, processVars
  <2>5. CASE GatewayExits
    BY <2>5 DEF GatewayExits
  <2>. QED  BY <2>1, <2>2, <2>3, <2>4, <2>5 DEF Next
<1>. QED
  BY <1>1, TypesInvariant, CallsInvariant, PTL DEF Spec, HealthyCallsAnswered

-----------------------------------------------------------------------------
(* The list in step with etcd *)

\* A list behind the first one keeps the last one as it is.
LEMMA TailKeepsLast ==
  ASSUME NEW S, NEW s \in Seq(S), s # <<>>, Len(s) # 1
  PROVE  Tail(s) # <<>> /\ Tail(s)[Len(Tail(s))] = s[Len(s)]
<1>1. Len(s) \in Nat /\ Len(s) # 0
  OBVIOUS
<1>2. Len(Tail(s)) = Len(s) - 1
  BY <1>1
<1>3. Len(s) - 1 \in 1 .. Len(Tail(s))
  BY <1>1, <1>2
<1>4. Tail(s)[Len(s) - 1] = s[(Len(s) - 1) + 1]
  BY <1>3
<1>. QED  BY <1>1, <1>2, <1>3, <1>4

LEMMA SyncInvariant == Spec => []SyncInv
<1>1. Init => SyncInv
  BY DEF Init, RegistryInit, SyncInv
<1>2. Types /\ StartInv /\ SyncInv /\ [Next]_vars => SyncInv'
  <2>. SUFFICES ASSUME Types, StartInv, SyncInv, [Next]_vars PROVE SyncInv'
    OBVIOUS
  <2>. USE DEF SyncInv, Newest, registryVars, poolVars, processVars, watcherVars, etcdVars
  <2>1. channel \in Seq(SUBSET Instances) /\ events \in Nat
    BY DEF Types
  <2>2. CASE UNCHANGED vars
    BY <2>2 DEF vars
  <2>3. CASE \E i \in Instances : Process(i)
    <3>1. \/ UNCHANGED <<keys, events>>
          \/ watch \in {"push", "wait"} => events' = events + 1
      BY <2>3 DEF Process, Registers, Register, RegisterGrant, RegisterPut, RegisterKeepAlive,
                  Serve, Signal, Leave, Deregister, Drained, Crash, LeaseExpires, Expire, LatePut,
                  PutArrives, Become, Exit, othersVars, Write
    <3>2. UNCHANGED <<watch, lost, channel, updating, update, instances, pulled>>
      BY <2>3, ProcessesOnlyWriteKeys
    <3>3. Newest' = Newest
      BY <3>2
    <3>4. events + 1 # 0
      BY <2>1
    <3>5. CASE UNCHANGED <<keys, events>>
      BY <3>2, <3>3, <3>5
    <3>6. CASE watch \in {"push", "wait"} => events' = events + 1
      <4>1. watch \in {"push", "wait"} => events' # 0
        BY <3>4, <3>6
      <4>2. watch' = watch
        BY <3>2
      <4>. HIDE DEF Newest
      <4>. QED  BY <4>1, <4>2
    <3>. QED  BY <3>1, <3>5, <3>6
  <2>4. ASSUME NEW c \in Callers, Handler(c) PROVE SyncInv'
    BY <2>4, HandlersOnlyHold
  <2>5. CASE Refresh
    <3>1. CASE StartDiscover \/ StartWatch
      BY <3>1 DEF StartDiscover, StartWatch, Watch, StartInv
    <3>2. CASE WatchLoop /\ UNCHANGED poolVars
      <4>1. CASE LoopOpen \/ LoopEvent \/ LoopCancelled
        BY <4>1 DEF LoopOpen, LoopEvent, LoopCancelled
      <4>2. CASE LoopPull
        BY <4>2 DEF LoopPull
      <4>3. CASE LoopPush
        BY <2>1, <4>3 DEF LoopPush, Types
      <4>. QED  BY <3>2, <4>1, <4>2, <4>3 DEF WatchLoop
    <3>3. CASE PoolReceive
      <4>1. /\ channel # <<>> /\ channel' = Tail(channel) /\ updating' = TRUE
            /\ update' = Head(channel)
            /\ UNCHANGED <<keys, watch, events, pulled, lost>>
        BY <3>3 DEF PoolReceive, Receive
      <4>2. Len(channel) = 1 => channel' = <<>> /\ update' = channel[Len(channel)]
        BY <2>1, <4>1
      <4>3. Len(channel) # 1 => channel' # <<>> /\ channel'[Len(channel')] = channel[Len(channel)]
        BY <2>1, <4>1, TailKeepsLast
      <4>4. Newest' = Newest
        BY <4>1, <4>2, <4>3
      <4>. HIDE DEF Newest
      <4>. QED  BY <4>1, <4>4
    <3>4. CASE PoolApply
      BY <3>4 DEF PoolApply
    <3>. QED  BY <2>5, <3>1, <3>2, <3>3, <3>4 DEF Refresh
  <2>6. CASE GatewayExits
    BY <2>6 DEF GatewayExits, WatcherGone
  <2>. QED  BY <2>2, <2>3, <2>4, <2>5, <2>6 DEF Next
<1>. QED  BY <1>1, <1>2, TypesInvariant, StartInvariant, PTL DEF Spec

\* The property ListInSync of the run rpc_race: with nothing on its way the pool
\* has the instances that etcd has (etcd.go:184-252, pool.go:84).
THEOREM ListStaysInSync == Spec => []ListInSync
<1>1. SyncInv => ListInSync
  BY DEF SyncInv, Newest, ListInSync
<1>. QED  BY <1>1, SyncInvariant, PTL
=============================================================================
