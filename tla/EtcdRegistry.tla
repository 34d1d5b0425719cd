---------------------------- MODULE EtcdRegistry ----------------------------
(***************************************************************************)
(* core/registry/etcd.go: the instances of one service, kept in etcd.      *)
(*                                                                         *)
(* Each process that offers the service has a registry of its own, calls   *)
(* Register once and Deregister once, and draws a fresh ID when it starts: *)
(* a restarted process is another instance.  One more process, a gateway,  *)
(* discovers and watches them.                                             *)
(*                                                                         *)
(* etcd is outside the repository.  It is modelled from what the calls     *)
(* rely on: a key written under a lease goes with the lease, a lease goes  *)
(* when nobody keeps it alive, a read sees every write before it, a watch  *)
(* reports every change after it was set up, several of them in one        *)
(* response if it likes.  A call that times out may have taken effect.     *)
(***************************************************************************)
EXTENDS Integers, Sequences

CONSTANTS
  Instances,   \* a process of the service, its registration and its lease
  Cap,         \* how many lists a watch channel holds: 10 in the code
  MaxFaults    \* bound on etcd calls that fail

ASSUME EtcdAssumption == Cap \in Nat \ {0} /\ MaxFaults \in Nat

VARIABLES
  leases,      \* etcd: the leases that exist
  keys,        \* etcd: the instances that have a key under the service's prefix
  latePuts,    \* Puts given up by their caller that may still arrive
  faults,      \* how many calls have failed
  reg,         \* how far each process is with Register and Deregister, until it is over
  cache,       \* r.instances of the gateway
  watch,       \* where the gateway's watchLoop is
  events,      \* changes the watch has not reported yet
  pulled,      \* local instances of pushInstances
  channel,     \* the channel that Watch returned
  lost         \* history: the latest refresh failed or was thrown away

etcdVars == <<leases, keys, latePuts, faults>>
watcherVars == <<cache, watch, pulled, channel, lost>>
registryVars == <<leases, keys, latePuts, faults, reg, cache, watch, events, pulled, channel, lost>>

-----------------------------------------------------------------------------
RegistryInit ==
  /\ leases = {}
  /\ keys = {}
  /\ latePuts = {}
  /\ faults = 0
  /\ reg = [i \in Instances |-> "new"]
  /\ cache = {}
  /\ watch = "off"
  /\ events = 0
  /\ pulled = {}
  /\ channel = <<>>
  /\ lost = FALSE

\* A call to etcd fails.
Fault == faults < MaxFaults /\ faults' = faults + 1
NoFault == UNCHANGED faults

\* The keys become ks, and the watch, once set up, will tell of the change.
Write(ks) ==
  /\ keys' = ks
  /\ events' = IF ks # keys /\ watch \in {"pull", "push", "wait"}
               THEN events + 1 ELSE events

-----------------------------------------------------------------------------
(* Register *)

Now(i, point) == reg' = [reg EXCEPT ![i] = point]

\* Grant a lease.
RegisterGrant(i) ==
  /\ reg[i] = "new"
  /\ \/ NoFault /\ leases' = leases \cup {i} /\ Now(i, "granted")
     \/ Fault /\ leases' \in {leases, leases \cup {i}} /\ Now(i, "over")
  /\ UNCHANGED <<keys, events, latePuts, watcherVars>>

\* Put the key under the lease.  An error leaves the lease behind, and the key
\* too when the Put still arrives.
RegisterPut(i) ==
  /\ reg[i] = "granted"
  /\ \/ NoFault /\ Write(keys \cup {i}) /\ Now(i, "put") /\ UNCHANGED latePuts
     \/ Fault /\ latePuts' = latePuts \cup {i} /\ Now(i, "over") /\ UNCHANGED <<keys, events>>
  /\ UNCHANGED <<leases, watcherVars>>

\* Start the keepalive.  An error leaves the key behind.
RegisterKeepAlive(i) ==
  /\ reg[i] = "put"
  /\ \/ NoFault /\ Now(i, "registered")
     \/ Fault /\ Now(i, "over")
  /\ UNCHANGED <<leases, keys, events, latePuts, watcherVars>>

Register(i) == RegisterGrant(i) \/ RegisterPut(i) \/ RegisterKeepAlive(i)

-----------------------------------------------------------------------------
(* Deregister *)

\* Mutation: only the Delete, as if the lease had been revoked before.
Deregister_KeepsKey(i) ==
  /\ reg[i] = "registered"
  /\ \/ NoFault /\ leases' = leases /\ Write(keys) /\ Now(i, "removed")
     \/ /\ Fault
        /\ \E gone \in {{}, {i}} : leases' = leases \ gone /\ Write(keys \ gone)
        /\ Now(i, "erred")
  /\ UNCHANGED <<latePuts, watcherVars>>

\* Revoke the lease, which removes the key, then Delete a key that is no longer
\* there.  If Revoke fails, Delete is not reached.
Deregister(i) ==
  /\ reg[i] = "registered"
  /\ \/ NoFault /\ leases' = leases \ {i} /\ Write(keys \ {i}) /\ Now(i, "removed")
     \/ /\ Fault
        /\ \E gone \in {{}, {i}} : leases' = leases \ gone /\ Write(keys \ gone)
        /\ Now(i, "erred")
  /\ UNCHANGED <<latePuts, watcherVars>>

-----------------------------------------------------------------------------
(* etcd on its own *)

\* A lease that has not been kept alive for 30 seconds.
Expire(i) ==
  /\ i \in leases
  /\ leases' = leases \ {i}
  /\ Write(keys \ {i})
  /\ latePuts' = latePuts \ {i}
  /\ UNCHANGED <<reg, watcherVars>>

\* A Put arrives whose caller is no longer waiting.
PutArrives(i) ==
  /\ i \in latePuts
  /\ latePuts' = latePuts \ {i}
  /\ Write(keys \cup {i})
  /\ UNCHANGED <<leases, faults, reg, watcherVars>>

-----------------------------------------------------------------------------
(* Discover and Watch *)

\* Mutation: what Discover finds is not remembered.
Discovered_NotCached == UNCHANGED cache

\* A successful Get of the prefix adds what it found to the cache; nothing is
\* ever taken out of it on this side.
Discovered == cache' = cache \cup keys

\* Watch: the channel gets what the cache holds, then go watchLoop.
Watch ==
  /\ watch = "off"
  /\ channel' = <<cache>>
  /\ watch' = "open"
  /\ UNCHANGED <<etcdVars, reg, cache, events, pulled, lost>>

\* Mutation: no first pull of the whole list.
LoopOpen_NoPull ==
  /\ watch = "open"
  /\ watch' = "wait"
  /\ UNCHANGED <<etcdVars, reg, cache, events, pulled, channel, lost>>

\* client.Watch returns when etcd has set the watch up.
LoopOpen ==
  /\ watch = "open"
  /\ watch' = "pull"
  /\ UNCHANGED <<etcdVars, reg, cache, events, pulled, channel, lost>>

\* pushInstances reads the list; on an error it returns ...
LoopPull ==
  /\ watch = "pull"
  /\ \/ NoFault /\ Discovered /\ pulled' = keys /\ watch' = "push" /\ UNCHANGED lost
     \/ Fault /\ watch' = "wait" /\ lost' = TRUE /\ UNCHANGED <<cache, pulled>>
  /\ UNCHANGED <<leases, keys, latePuts, reg, events, channel>>

\* ... and throws the list away if the channel is full.
LoopPush ==
  /\ watch = "push"
  /\ IF Len(channel) < Cap
     THEN channel' = Append(channel, pulled) /\ lost' = FALSE
     ELSE lost' = TRUE /\ UNCHANGED channel
  /\ pulled' = {}
  /\ watch' = "wait"
  /\ UNCHANGED <<etcdVars, reg, cache, events>>

\* Mutation: responses are taken off the watch and nothing is pulled.
LoopEvent_Ignored ==
  /\ watch = "wait"
  /\ \E n \in 1 .. events : events' = events - n
  /\ UNCHANGED <<etcdVars, reg, cache, watch, pulled, channel, lost>>

\* A response of the watch, with one change or several.
LoopEvent ==
  /\ watch = "wait"
  /\ \E n \in 1 .. events : events' = events - n
  /\ watch' = "pull"
  /\ UNCHANGED <<etcdVars, reg, cache, pulled, channel, lost>>

\* etcd gives the watch up, which closes both channels.
LoopCancelled ==
  /\ watch = "wait"
  /\ Fault
  /\ watch' = "closed"
  /\ events' = 0
  /\ UNCHANGED <<leases, keys, latePuts, reg, cache, pulled, channel, lost>>

WatchLoop == LoopOpen \/ LoopPull \/ LoopPush \/ LoopEvent \/ LoopCancelled

\* The consumer takes the oldest list.
Receive ==
  /\ channel # <<>>
  /\ channel' = Tail(channel)
  /\ UNCHANGED <<etcdVars, reg, cache, watch, events, pulled, lost>>

\* A gateway that exits closes its registry and forgets it.
WatcherGone ==
  /\ cache' = {}
  /\ watch' = "closed"
  /\ events' = 0
  /\ pulled' = {}
  /\ channel' = <<>>
  /\ lost' = FALSE
  /\ UNCHANGED <<etcdVars, reg>>
=============================================================================
