------------------------------ MODULE MemoryBus ------------------------------
(***************************************************************************)
(* The in-memory event bus of event/event.go, for one event type.          *)
(* Unsubscribe closes the gap in the subscribers' array in place, so what  *)
(* Publish reads of it element by element is only sound under the lock;    *)
(* the handlers run after it is released, and may use the bus themselves.  *)
(***************************************************************************)
EXTENDS Naturals, FiniteSets, Sequences, SequencesExt

CONSTANTS
  Publishers,  \* goroutines that publish once each
  MaxSubs      \* bound: subscriptions made

VARIABLES
  made,      \* subscriptions made so far, numbered from 1
  array,     \* the array under subscribers[type]; cells past len are stale
  len,       \* the length of that slice
  readers,   \* publishers that hold mu for reading
  stage,     \* publisher -> "idle", "copying", "waiting" or "returned"
  size,      \* publisher -> the length of the slice it copies
  handlers,  \* publisher -> the handlers it copied
  running,   \* publisher -> indices of handlers that have not returned
  present    \* ghost: publisher -> subscriptions in place ever since it began

vars == <<made, array, len, readers, stage, size, handlers, running, present>>

Init ==
  /\ made = 0
  /\ array = [i \in 1..MaxSubs |-> 0]
  /\ len = 0
  /\ readers = 0
  /\ stage = [p \in Publishers |-> "idle"]
  /\ size = [p \in Publishers |-> 0]
  /\ handlers = [p \in Publishers |-> <<>>]
  /\ running = [p \in Publishers |-> {}]
  /\ present = [p \in Publishers |-> {}]

Subscribe ==
  /\ readers = 0
  /\ made < MaxSubs
  /\ made' = made + 1
  /\ len' = len + 1
  /\ array' = [array EXCEPT ![len'] = made']
  /\ UNCHANGED <<readers, stage, size, handlers, running, present>>

\* Mutation: a subscription is taken out without the lock.
Cancelled_Unlocked(sub) ==
  /\ \E i \in 1..len :
       /\ array[i] = sub
       /\ array' = [j \in DOMAIN array |-> IF j \in i..(len - 1) THEN array[j + 1] ELSE array[j]]
  /\ len' = len - 1
  /\ present' = [p \in Publishers |-> present[p] \ {sub}]

\* append(subs[:i], subs[i+1:]...) moves the later cells down one.
Cancelled(sub) ==
  /\ readers = 0
  /\ \E i \in 1..len :
       /\ array[i] = sub
       /\ array' = [j \in DOMAIN array |-> IF j \in i..(len - 1) THEN array[j + 1] ELSE array[j]]
  /\ len' = len - 1
  /\ present' = [p \in Publishers |-> present[p] \ {sub}]

Unsubscribe(sub) ==
  /\ Cancelled(sub)
  /\ UNCHANGED <<made, readers, stage, size, handlers, running>>

\* The whole topic.  The next Subscribe starts a new array.
UnsubscribeTopic ==
  /\ readers = 0
  /\ len > 0
  /\ len' = 0
  /\ array' = [i \in 1..MaxSubs |-> 0]
  /\ present' = [p \in Publishers |-> {}]
  /\ UNCHANGED <<made, readers, stage, size, handlers, running>>

Publish(p) ==
  /\ stage[p] = "idle"
  /\ readers' = readers + 1
  /\ size' = [size EXCEPT ![p] = len]
  /\ present' = [present EXCEPT ![p] = {array[i] : i \in 1..len}]
  /\ stage' = [stage EXCEPT ![p] = "copying"]
  /\ UNCHANGED <<made, array, len, handlers, running>>

CopyOne(p) ==
  /\ stage[p] = "copying"
  /\ Len(handlers[p]) < size[p]
  /\ handlers' = [handlers EXCEPT ![p] = Append(@, array[Len(@) + 1])]
  /\ UNCHANGED <<made, array, len, readers, stage, size, running, present>>

\* The lock is released, then every handler gets a goroutine.
RunHandlers(p) ==
  /\ stage[p] = "copying"
  /\ Len(handlers[p]) = size[p]
  /\ readers' = readers - 1
  /\ running' = [running EXCEPT ![p] = 1..size[p]]
  /\ stage' = [stage EXCEPT ![p] = "waiting"]
  /\ UNCHANGED <<made, array, len, size, handlers, present>>

\* A handler returns; it may first cancel the subscription it serves.
HandlerReturns(p, i) ==
  /\ i \in running[p]
  /\ running' = [running EXCEPT ![p] = @ \ {i}]
  /\ UNCHANGED <<made, readers, stage, size, handlers>>
  /\ \/ UNCHANGED <<array, len, present>>
     \/ Cancelled(handlers[p][i])

PublishReturns(p) ==
  /\ stage[p] = "waiting"
  /\ running[p] = {}
  /\ stage' = [stage EXCEPT ![p] = "returned"]
  /\ UNCHANGED <<made, array, len, readers, size, handlers, running, present>>

Publishing(p) ==
  CopyOne(p) \/ RunHandlers(p) \/ PublishReturns(p) \/ \E i \in 1..MaxSubs : HandlerReturns(p, i)

Next ==
  \/ Subscribe
  \/ \E sub \in 1..MaxSubs : Unsubscribe(sub)
  \/ UnsubscribeTopic
  \/ \E p \in Publishers : Publish(p) \/ Publishing(p)

Spec == Init /\ [][Next]_vars

-----------------------------------------------------------------------------

(***************************************************************************)
(* A Publish runs no handler twice, and runs every one whose subscription  *)
(* was in place from its beginning to its end, whatever is subscribed and  *)
(* unsubscribed meanwhile, by its own handlers too (event.go:106-113).     *)
(***************************************************************************)
EveryoneOnce ==
  \A p \in Publishers : stage[p] = "returned" =>
    /\ IsInjective(handlers[p])
    /\ present[p] \subseteq ToSet(handlers[p])
=============================================================================
