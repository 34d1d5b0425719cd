------------------------------ MODULE GrpcPool ------------------------------
(***************************************************************************)
(* examples/rpc-demo/gateway/internal/pool/pool.go: the gateway's gRPC     *)
(* connections to the instances of one service, one per instance, kept in  *)
(* step with the registry.  Select takes instances in turn; which one that *)
(* is at a given call is left open.                                        *)
(***************************************************************************)
EXTENDS EtcdRegistry

CONSTANTS
  Callers,      \* handlers of the gateway that call the service
  NoInstance

ASSUME PoolAssumption == NoInstance \notin Instances

VARIABLES
  started,      \* how far Start has come
  instances,    \* p.instances
  conns,        \* p.conns: the instances that have an open connection
  updating,     \* watchLoop has received a list ...
  update,       \* ... this one
  held,         \* the instance whose connection a caller got from Select
  broken        \* the callers whose connection was closed after that

poolVars == <<started, instances, conns, updating, update, held, broken>>

PoolInit ==
  /\ started = "new"
  /\ instances = {}
  /\ conns = {}
  /\ updating = FALSE
  /\ update = {}
  /\ held = [c \in Callers |-> NoInstance]
  /\ broken = {}

-----------------------------------------------------------------------------
\* The connections become those of kept, and new ones to the rest of list; a
\* caller who holds one that is closed has lost it.  An endpoint that cannot be
\* dialled is left without a connection.
Connect(kept, list) ==
  \E refused \in SUBSET (list \ kept) :
    /\ IF refused = {} THEN NoFault ELSE Fault
    /\ conns' = kept \cup (list \ refused)
    /\ broken' = broken \cup {c \in Callers : held[c] \in conns \ kept}

\* Start, up to the end of its locked part.  An error of Discover ends it; the
\* gateway logs the error and goes on without the pool.
StartDiscover ==
  /\ started = "new"
  /\ \/ /\ Connect(conns, keys)
        /\ Discovered
        /\ instances' = keys
        /\ started' = "discovered"
     \/ /\ Fault
        /\ started' = "failed"
        /\ UNCHANGED <<cache, instances, conns, broken>>
  /\ UNCHANGED <<leases, keys, latePuts, reg, watch, events, pulled, channel, lost>>
  /\ UNCHANGED <<updating, update, held>>

\* The rest of Start: Watch, then go watchLoop.
StartWatch ==
  /\ started = "discovered"
  /\ Watch
  /\ started' = "running"
  /\ UNCHANGED <<instances, conns, updating, update, held, broken>>

\* watchLoop takes a list off the channel ...
PoolReceive ==
  /\ started = "running"
  /\ ~updating
  /\ Receive
  /\ updating' = TRUE
  /\ update' = Head(channel)
  /\ UNCHANGED <<started, instances, conns, held, broken>>

\* ... and under the lock replaces the list, dials what is new and closes what
\* is not in the list.
PoolApply ==
  /\ updating
  /\ instances' = update
  /\ Connect(conns \cap update, update)
  /\ updating' = FALSE
  /\ update' = {}
  /\ UNCHANGED <<leases, keys, latePuts, reg, events, watcherVars>>
  /\ UNCHANGED <<started, held>>

\* Select under the read lock; an empty list or an instance without a connection
\* is an error for the caller.
Select(c, i) ==
  /\ held[c] = NoInstance
  /\ i \in instances \cap conns
  /\ held' = [held EXCEPT ![c] = i]
  /\ UNCHANGED registryVars
  /\ UNCHANGED <<started, instances, conns, updating, update, broken>>

\* The caller is done with its connection.
Release(c) ==
  /\ held' = [held EXCEPT ![c] = NoInstance]
  /\ broken' = broken \ {c}
  /\ UNCHANGED registryVars
  /\ UNCHANGED <<started, instances, conns, updating, update>>

\* Close closes every connection; a gateway that exits does so and forgets the rest.
PoolGone ==
  /\ started' = "failed"
  /\ instances' = {}
  /\ conns' = {}
  /\ updating' = FALSE
  /\ update' = {}
  /\ held' = [c \in Callers |-> NoInstance]
  /\ broken' = {}
=============================================================================
