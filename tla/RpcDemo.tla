------------------------------ MODULE RpcDemo -------------------------------
(***************************************************************************)
(* The system of examples/rpc-demo: processes that offer a gRPC service    *)
(* (user-service/main.go and its siblings, also what `nx new rpc-service`  *)
(* writes), etcd, and the gateway whose handlers call the service through  *)
(* a GrpcPool.                                                             *)
(***************************************************************************)
EXTENDS GrpcPool

VARIABLES
  proc,     \* what each service process is doing
  rpc,      \* what each caller's gRPC call is doing
  gateway   \* the gateway process

processVars == <<proc, rpc, gateway>>
\* what a step of a service process alone leaves as it is
othersVars == <<leases, keys, latePuts, faults, cache, watch, events, pulled, channel, lost,
                started, instances, conns, updating, update, held, broken, rpc, gateway>>
vars == <<leases, keys, latePuts, faults, reg, cache, watch, events, pulled, channel, lost,
          started, instances, conns, updating, update, held, broken, proc, rpc, gateway>>

-----------------------------------------------------------------------------
Init ==
  /\ RegistryInit
  /\ PoolInit
  /\ proc = [i \in Instances |-> "starting"]
  /\ rpc = [c \in Callers |-> "none"]
  /\ gateway = "up"

-----------------------------------------------------------------------------
(* A process of the service *)

Become(i, state) ==
  /\ proc' = [proc EXCEPT ![i] = state]
  /\ UNCHANGED reg

\* The process is gone, and its registry with it.
Exit(i) ==
  /\ proc' = [proc EXCEPT ![i] = "exited"]
  /\ reg' = [reg EXCEPT ![i] = "over"]

\* A registration that fails is fatal.
Registers(i) ==
  /\ proc[i] = "starting"
  /\ Register(i)
  /\ proc' = IF reg'[i] = "over" THEN [proc EXCEPT ![i] = "exited"] ELSE proc
  /\ UNCHANGED poolVars
  /\ UNCHANGED <<rpc, gateway>>

\* The registered process listens and serves; a port it cannot have is fatal.
Serve(i) ==
  /\ proc[i] = "starting"
  /\ reg[i] = "registered"
  /\ Become(i, "serving") \/ Exit(i)
  /\ UNCHANGED othersVars

\* SIGTERM wakes the goroutine that shuts the process down.
Signal(i) ==
  /\ proc[i] = "serving"
  /\ Become(i, "leaving")
  /\ UNCHANGED othersVars

\* Deregister, whose error nobody looks at, then GracefulStop: no new calls.
Leave(i) ==
  /\ proc[i] = "leaving"
  /\ Deregister(i)
  /\ proc' = [proc EXCEPT ![i] = "draining"]
  /\ UNCHANGED poolVars
  /\ UNCHANGED <<rpc, gateway>>

\* The calls that process i is working on.
Working(i) == {c \in Callers : rpc[c] = "accepted" /\ held[c] = i /\ c \notin broken}

\* GracefulStop has waited for the calls that were there; main returns.
Drained(i) ==
  /\ proc[i] = "draining"
  /\ Working(i) = {}
  /\ Exit(i)
  /\ UNCHANGED othersVars

\* The process dies at any point.
Crash(i) ==
  /\ proc[i] # "exited"
  /\ Exit(i)
  /\ UNCHANGED othersVars

\* The keepalive holds the lease of a registered process, unless etcd is out of
\* its reach for as long as the lease lives; nothing registers it again.
LeaseExpires(i) ==
  /\ \/ proc[i] = "exited" /\ NoFault
     \/ proc[i] # "exited" /\ reg[i] \in {"registered", "erred"} /\ Fault
  /\ Expire(i)
  /\ UNCHANGED poolVars
  /\ UNCHANGED processVars

LatePut(i) ==
  /\ PutArrives(i)
  /\ UNCHANGED poolVars
  /\ UNCHANGED processVars

Process(i) ==
  \/ Registers(i)
  \/ Serve(i)
  \/ Signal(i)
  \/ Leave(i)
  \/ Drained(i)
  \/ Crash(i)
  \/ LeaseExpires(i)
  \/ LatePut(i)

-----------------------------------------------------------------------------
(* A handler of the gateway *)

RpcBecomes(c, state) == rpc' = [rpc EXCEPT ![c] = state]

\* The handlers run once every pool has been started.
Choose(c) ==
  /\ gateway = "up"
  /\ started = "running"
  /\ \E i \in Instances : Select(c, i)
  /\ RpcBecomes(c, "chosen")
  /\ UNCHANGED <<proc, gateway>>

\* The call is sent.  Only an open connection to a process that serves gets it
\* there, and the network may fail it all the same.
Send(c) ==
  /\ gateway = "up"
  /\ rpc[c] = "chosen"
  /\ \/ c \notin broken /\ proc[held[c]] \in {"serving", "leaving"} /\ RpcBecomes(c, "accepted")
     \/ RpcBecomes(c, "failed")
  /\ UNCHANGED registryVars
  /\ UNCHANGED poolVars
  /\ UNCHANGED <<proc, gateway>>

\* A call in progress loses its connection or its process.
CutShort(c) ==
  /\ gateway = "up"
  /\ rpc[c] = "accepted"
  /\ c \in broken \/ proc[held[c]] = "exited"
  /\ RpcBecomes(c, "failed")
  /\ UNCHANGED registryVars
  /\ UNCHANGED poolVars
  /\ UNCHANGED <<proc, gateway>>

\* The handler answers its client, with the reply or with the error.
Answer(c) ==
  /\ gateway = "up"
  /\ \/ rpc[c] = "accepted" /\ c \notin broken /\ proc[held[c]] # "exited"
     \/ rpc[c] = "failed"
  /\ Release(c)
  /\ RpcBecomes(c, "none")
  /\ UNCHANGED <<proc, gateway>>

Handler(c) == Choose(c) \/ Send(c) \/ CutShort(c) \/ Answer(c)

-----------------------------------------------------------------------------
(* The gateway process *)

\* The goroutines of the registry and of the pool.
Refresh ==
  /\ gateway = "up"
  /\ \/ StartDiscover
     \/ StartWatch
     \/ WatchLoop /\ UNCHANGED poolVars
     \/ PoolReceive
     \/ PoolApply
  /\ UNCHANGED processVars

\* main returns as soon as the servers no longer accept, handlers still at work
\* or not: it closes the pools and the registry, and the process is gone.
GatewayExits ==
  /\ gateway = "up"
  /\ started \in {"running", "failed"}
  /\ WatcherGone
  /\ PoolGone
  /\ rpc' = [c \in Callers |-> "none"]
  /\ gateway' = "down"
  /\ UNCHANGED proc

-----------------------------------------------------------------------------
Next ==
  \/ \E i \in Instances : Process(i)
  \/ \E c \in Callers : Handler(c)
  \/ Refresh
  \/ GatewayExits

Spec == Init /\ [][Next]_vars

\* etcd lets a dead process's lease expire and reports changes; the two loops of
\* the gateway are goroutines that are always ready to run.
FairSpec ==
  /\ Spec
  /\ WF_vars(Refresh)
  /\ \A i \in Instances : WF_vars(proc[i] = "exited" /\ LeaseExpires(i))

-----------------------------------------------------------------------------
(* Properties *)

\* Nothing is lost between Discover, Watch and the first pull of watchLoop, nor
\* between a change and its push: with nothing left on the way, the pool has the
\* instances that etcd has, unless the latest refresh failed or was dropped.
ListInSync ==
  /\ started = "running" /\ gateway = "up"
  /\ watch = "wait" /\ events = 0 /\ channel = <<>> /\ ~updating
  /\ ~lost
  => instances = keys

\* What a process leaves in etcd when it dies goes by itself, and what it has
\* taken away stays away: a key always has a lease, and an instance that was
\* deregistered without an error has neither.
NothingLeftBehind ==
  /\ keys \subseteq leases
  /\ \A i \in Instances : reg[i] = "removed" => i \notin leases

\* A gateway only cuts a call short that a process is working on
\* if that process is gone or is no longer registered: no list, stale or out
\* of order, makes the pool close a connection it should keep.
HealthyCallsAnswered ==
  [][\A c \in Callers :
       rpc[c] = "accepted" /\ rpc'[c] = "failed"
         => \/ proc[held[c]] = "exited"
            \/ held[c] \notin keys]_vars

\* A process that has died, however it died, is forgotten by a gateway whose
\* watch is alive, unless a refresh is lost.
DeadForgotten ==
  \A i \in Instances :
    proc[i] = "exited"
      ~> i \notin instances \/ lost \/ watch = "closed" \/ gateway # "up"
=============================================================================
