---------------------------- MODULE PooledClient ----------------------------
(***************************************************************************)
(* core/client/pooled_client.go on top of StaticRegistry: a client keeps   *)
(* the instance list that the registry pushes, and one http.Client per     *)
(* instance.  Its parts run concurrently: Start, the watchLoop goroutine,  *)
(* the goroutines that Call, Close, and the registry's Register and        *)
(* Deregister.                                                             *)
(*                                                                         *)
(* Slices are read element by element without any lock, as in the code.    *)
(* The breaker's answer, which element the balancer takes and how an HTTP  *)
(* exchange ends are left open.                                            *)
(***************************************************************************)
EXTENDS StaticRegistry

CONSTANTS
  Client,        \* the client, as a watcher of the registry
  Callers,       \* goroutines that call through it
  NoPool,        \* no http.Client
  Retries        \* c.retries

ASSUME ClientAssumption ==
  /\ Client \in Watchers
  /\ NoPool \notin Callers
  /\ Retries \in Nat

VARIABLES
  started,     \* how far Start has come
  instances,   \* c.instances
  pool,        \* c.pool: the http.Client of an instance, named after its maker
  wpc,         \* where watchLoop is
  old,         \* local oldInstances
  index,       \* loop counter over old, then over instances
  gone,        \* local oldIDs
  pc,          \* where each caller is
  snapshot,    \* local instances of doCallRaw
  inst,        \* local inst of doCallRaw
  attempt      \* local attempt of Call

loopVars == <<wpc, old, index, gone>>
callVars == <<pc, snapshot, inst, attempt>>
clientVars == <<started, instances, pool, wpc, old, index, gone, pc, snapshot, inst, attempt>>
vars == <<arrays, current, moving, watching, channel, updates, registered, missed,
          started, instances, pool, wpc, old, index, gone, pc, snapshot, inst, attempt>>

-----------------------------------------------------------------------------
Init ==
  /\ RegistryInit
  /\ started = "new"
  /\ instances = NoSlice
  /\ pool = [i \in Instances |-> NoPool]
  /\ wpc = "receive"
  /\ old = NoSlice
  /\ index = 0
  /\ gone = {}
  /\ pc = [c \in Callers |-> "idle"]
  /\ snapshot = [c \in Callers |-> NoSlice]
  /\ inst = [c \in Callers |-> Nil]
  /\ attempt = [c \in Callers |-> 0]

-----------------------------------------------------------------------------
(* Start *)

\* The first half of Start; Discover's error ends it.
StartDiscover ==
  /\ started = "new"
  /\ Discoverable
  /\ instances' = current
  /\ started' = "discovered"
  /\ UNCHANGED registryVars
  /\ UNCHANGED <<pool, loopVars, callVars>>

\* The second half: Watch, then go watchLoop.
StartWatch ==
  /\ started = "discovered"
  /\ Watch(Client)
  /\ started' = "running"
  /\ UNCHANGED <<instances, pool, loopVars, callVars>>

-----------------------------------------------------------------------------
(* watchLoop *)

\* The next list replaces c.instances.
LoopReceive ==
  /\ started = "running"
  /\ wpc = "receive"
  /\ Receive(Client)
  /\ old' = instances
  /\ instances' = Head(channel[Client])
  /\ gone' = {}
  /\ index' = 1
  /\ wpc' = "readOld"
  /\ UNCHANGED <<started, pool, callVars>>

\* oldIDs gets the element that the old slice holds by now ...
LoopReadOld ==
  /\ wpc = "readOld"
  /\ \/ /\ index <= old.len
        /\ gone' = gone \cup {arrays[old.array][index]}
        /\ index' = index + 1
        /\ UNCHANGED wpc
     \/ /\ index > old.len
        /\ index' = 1
        /\ wpc' = "readNew"
        /\ UNCHANGED gone
  /\ UNCHANGED registryVars
  /\ UNCHANGED <<started, instances, pool, old, callVars>>

\* ... and loses the elements of the new one.
LoopReadNew ==
  /\ wpc = "readNew"
  /\ \/ /\ index <= instances.len
        /\ gone' = gone \ {arrays[instances.array][index]}
        /\ index' = index + 1
        /\ UNCHANGED <<wpc, old>>
     \/ /\ index > instances.len
        /\ index' = 0
        /\ old' = NoSlice
        /\ wpc' = "remove"
        /\ UNCHANGED gone
  /\ UNCHANGED registryVars
  /\ UNCHANGED <<started, instances, pool, callVars>>

\* removeClient for what is left, in the map's order.
LoopRemove ==
  /\ wpc = "remove"
  /\ \/ \E i \in gone :
          /\ gone' = gone \ {i}
          /\ pool' = [pool EXCEPT ![i] = NoPool]
          /\ UNCHANGED wpc
     \/ /\ gone = {}
        /\ wpc' = "receive"
        /\ UNCHANGED <<gone, pool>>
  /\ UNCHANGED registryVars
  /\ UNCHANGED <<started, instances, old, index, callVars>>

WatchLoop == LoopReceive \/ LoopReadOld \/ LoopReadNew \/ LoopRemove

-----------------------------------------------------------------------------
(* Call and CallRaw *)

Goto(c, point) == pc' = [pc EXCEPT ![c] = point]

Return(c) ==
  /\ Goto(c, "idle")
  /\ snapshot' = [snapshot EXCEPT ![c] = NoSlice]
  /\ inst' = [inst EXCEPT ![c] = Nil]
  /\ attempt' = [attempt EXCEPT ![c] = 0]

\* The attempt has failed: every error it can return is retried.
Failed(c) ==
  /\ Goto(c, "backoff")
  /\ snapshot' = [snapshot EXCEPT ![c] = NoSlice]
  /\ inst' = [inst EXCEPT ![c] = Nil]
  /\ UNCHANGED attempt

\* cb.Allow lets the call through; a refusal changes nothing here.
CallAllowed(c) ==
  /\ pc[c] = "idle"
  /\ Goto(c, "snapshot")
  /\ UNCHANGED registryVars
  /\ UNCHANGED <<started, instances, pool, loopVars, snapshot, inst, attempt>>

\* Under instancesMu, copy the slice; an empty list is an error.
CallSnapshot(c) ==
  /\ pc[c] = "snapshot"
  /\ \/ instances.len = 0 /\ Failed(c)
     \/ /\ instances.len > 0
        /\ snapshot' = [snapshot EXCEPT ![c] = instances]
        /\ Goto(c, "select")
        /\ UNCHANGED <<inst, attempt>>
  /\ UNCHANGED registryVars
  /\ UNCHANGED <<started, instances, pool, loopVars>>

\* The balancer takes an element of the slice; nil is an error.
CallSelect(c) ==
  /\ pc[c] = "select"
  /\ \E k \in 1 .. snapshot[c].len :
       LET chosen == arrays[snapshot[c].array][k]
       IN IF chosen = Nil THEN Failed(c)
          ELSE /\ inst' = [inst EXCEPT ![c] = chosen]
               /\ snapshot' = [snapshot EXCEPT ![c] = NoSlice]
               /\ Goto(c, "lookup")
               /\ UNCHANGED attempt
  /\ UNCHANGED registryVars
  /\ UNCHANGED <<started, instances, pool, loopVars>>

\* getOrCreateClient looks under the read lock first ...
CallLookup(c) ==
  /\ pc[c] = "lookup"
  /\ Goto(c, IF pool[inst[c]] = NoPool THEN "create" ELSE "exchange")
  /\ UNCHANGED registryVars
  /\ UNCHANGED <<started, instances, pool, loopVars, snapshot, inst, attempt>>

\* ... and again under the write lock before it makes one.
CallCreate(c) ==
  /\ pc[c] = "create"
  /\ pool' = [pool EXCEPT ![inst[c]] = IF @ = NoPool THEN c ELSE @]
  /\ Goto(c, "exchange")
  /\ UNCHANGED registryVars
  /\ UNCHANGED <<started, instances, loopVars, snapshot, inst, attempt>>

\* httpCli.Do and the decoding of the answer.
CallExchange(c) ==
  /\ pc[c] = "exchange"
  /\ Return(c) \/ Failed(c)
  /\ UNCHANGED registryVars
  /\ UNCHANGED <<started, instances, pool, loopVars>>

\* After every failed attempt, the last one included, the caller waits; then it
\* gives up if the context is done or no attempt is left.
CallBackoff(c) ==
  /\ pc[c] = "backoff"
  /\ \/ Return(c)
     \/ /\ attempt[c] < Retries
        /\ attempt' = [attempt EXCEPT ![c] = @ + 1]
        /\ Goto(c, "snapshot")
        /\ UNCHANGED <<snapshot, inst>>
  /\ UNCHANGED registryVars
  /\ UNCHANGED <<started, instances, pool, loopVars>>

Call(c) ==
  \/ CallSnapshot(c)
  \/ CallSelect(c)
  \/ CallLookup(c)
  \/ CallCreate(c)
  \/ CallExchange(c)
  \/ CallBackoff(c)

\* Close empties the pool and stops nothing else.
Close ==
  /\ pool' = [i \in Instances |-> NoPool]
  /\ UNCHANGED registryVars
  /\ UNCHANGED <<started, instances, loopVars, callVars>>

-----------------------------------------------------------------------------
\* Other watchers of the registry would neither see nor change anything of this.
Next ==
  \/ Updates /\ UNCHANGED clientVars
  \/ StartDiscover
  \/ StartWatch
  \/ WatchLoop
  \/ \E c \in Callers : CallAllowed(c) \/ Call(c)
  \/ Close

Spec == Init /\ [][Next]_vars

-----------------------------------------------------------------------------
(* Properties *)

\* No goroutine of the client ever finds a nil instance in a list, whatever the
\* registry does to the shared arrays: watchLoop and the balancer dereference
\* what they find.
NoNilInstance ==
  /\ ListsFilled
  /\ Filled(instances)
  /\ Filled(old)
  /\ \A c \in Callers : Filled(snapshot[c])

\* The in-place updates of a shared array corrupt no list: nobody meets an empty
\* slot, and outside of a Deregister the registry's list is what the calls made so
\* far amount to (registry.go:94).
ListsSound ==
  /\ NoNilInstance
  /\ ListFaithful

\* No update is lost between Discover and Watch or on the way: with nothing left
\* to receive, the client has the registry's list, unless the registry dropped
\* its last notification.
ListInSync ==
  started = "running" /\ channel[Client] = <<>> /\ Unlocked /\ Client \notin missed
    => instances = current

\* The client is at rest and has been told everything.
Quiet ==
  /\ started = "running"
  /\ Unlocked
  /\ channel[Client] = <<>> /\ Client \notin missed
  /\ wpc = "receive"
  /\ \A c \in Callers : pc[c] = "idle"

\* Line 193: the connections of instances that went offline are cleaned up.
PoolOnlyOnline ==
  Quiet => \A i \in Instances : pool[i] # NoPool => Contains(Contents(current), i)
=============================================================================
