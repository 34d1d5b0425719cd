--------------------------- MODULE StaticRegistry ---------------------------
(***************************************************************************)
(* core/registry/registry.go: the registry that keeps the instances of a   *)
(* service in memory and pushes the list to watchers.                      *)
(*                                                                         *)
(* What it hands out, from Discover and through the watch channels, are Go *)
(* slices that share arrays with its own list, and Deregister moves the    *)
(* elements of such an array in place.  So a list is a slice, an array and *)
(* a length, and the arrays are state of their own.                        *)
(*                                                                         *)
(* Services do not interact: this is the registry as one service sees it.  *)
(***************************************************************************)
EXTENDS Integers, Sequences, SequencesExt

CONSTANTS
  Instances,      \* the instances (pointers) a process may register
  Nil,            \* the nil pointer
  Watchers,       \* who may Watch
  Initial,        \* StaticEndpoints of the service, a sequence of instances
  ChannelSize,    \* capacity of a watch channel (10 in the code)
  MaxUpdates      \* bound: calls of Register and Deregister

ASSUME RegistryAssumption ==
  /\ Nil \notin Instances
  /\ Initial \in Seq(Instances)
  /\ ChannelSize \in Nat \ {0}
  /\ MaxUpdates \in Nat

VARIABLES
  arrays,      \* the backing arrays, in the order of their allocation
  current,     \* r.instances[name]
  moving,      \* r.mu is held by a Deregister about to fill this slot; 0 = free
  watching,    \* the watchers in r.watchers[name]
  channel,     \* their channels
  updates,     \* bound
  registered,  \* ghost: the list the calls made so far amount to
  missed       \* ghost: watchers whose last notification was dropped

registryVars == <<arrays, current, moving, watching, channel, updates, registered, missed>>

-----------------------------------------------------------------------------
\* A slice of arrays[array]; capacity is the length of the array.
Slice(array, len) == [array |-> array, len |-> len]
NoSlice == Slice(0, 0)

\* What a reader of the slice finds in it now.
Contents(s) ==
  IF s.len = 0 THEN <<>> ELSE SubSeq(arrays[s.array], 1, s.len)

\* A service that is not in the configuration has no entry in the map.
RegistryInit ==
  /\ arrays = IF Initial = <<>> THEN <<>> ELSE <<Initial>>
  /\ current = IF Initial = <<>> THEN NoSlice ELSE Slice(1, Len(Initial))
  /\ moving = 0
  /\ watching = {}
  /\ channel = [w \in Watchers |-> <<>>]
  /\ updates = 0
  /\ registered = Initial
  /\ missed = {}

Unlocked == moving = 0

\* notifyWatchers: a channel that is full loses the notification.
notifyWatchers ==
  LET full == {w \in watching : Len(channel[w]) >= ChannelSize}
  IN /\ channel' = [w \in Watchers |->
                      IF w \in watching \ full THEN Append(channel[w], current')
                      ELSE channel[w]]
     /\ missed' = full \cup (missed \ watching)

\* append(r.instances[name], instance): in place while the capacity lasts, else
\* in a copy twice as large.
AppendInPlace(i) ==
  /\ current.array # 0
  /\ current.len < Len(arrays[current.array])
  /\ arrays' = [arrays EXCEPT ![current.array][current.len + 1] = i]
  /\ current' = Slice(current.array, current.len + 1)

Grown(s, i) == (s \o <<i>>) \o [k \in 1 .. (Len(s) - 1) |-> Nil]

AppendToCopy(i) ==
  /\ current.array = 0 \/ current.len = Len(arrays[current.array])
  /\ arrays' = Append(arrays, Grown(Contents(current), i))
  /\ current' = Slice(Len(arrays) + 1, current.len + 1)

Register(i) ==
  /\ Unlocked
  /\ updates < MaxUpdates
  /\ updates' = updates + 1
  /\ AppendInPlace(i) \/ AppendToCopy(i)
  /\ registered' = Append(registered, i)
  /\ notifyWatchers
  /\ UNCHANGED <<moving, watching>>

\* Deregister of an instance that is not there only notifies.
DeregisterUnknown(i) ==
  /\ Unlocked
  /\ updates < MaxUpdates
  /\ updates' = updates + 1
  /\ \A k \in 1 .. current.len : Contents(current)[k] # i
  /\ current' = current
  /\ notifyWatchers
  /\ UNCHANGED <<arrays, moving, watching, registered>>

\* Deregister finds the first slot that holds the instance ...
DeregisterFind(i) ==
  /\ Unlocked
  /\ updates < MaxUpdates
  /\ updates' = updates + 1
  /\ \E k \in 1 .. current.len :
       /\ Contents(current)[k] = i
       /\ \A j \in 1 .. (k - 1) : Contents(current)[j] # i
       /\ moving' = k
       /\ registered' = RemoveAt(registered, k)
  /\ UNCHANGED <<arrays, current, watching, channel, missed>>

\* Mutation: the elements are moved up instead of down.
DeregisterMove_Up ==
  /\ moving \in 1 .. (current.len - 1)
  /\ arrays' = [arrays EXCEPT ![current.array][moving + 1] = arrays[current.array][moving]]
  /\ moving' = moving + 1
  /\ UNCHANGED <<current, watching, channel, updates, registered, missed>>

\* ... append(instances[:k], instances[k+1:]...) moves the ones after it down in
\* place, where readers that hold no lock see it happen ...
DeregisterMove ==
  /\ moving \in 1 .. (current.len - 1)
  /\ arrays' = [arrays EXCEPT ![current.array][moving] = arrays[current.array][moving + 1]]
  /\ moving' = moving + 1
  /\ UNCHANGED <<current, watching, channel, updates, registered, missed>>

\* Mutation: the freed slot is set to nil, as slices.Delete does.
DeregisterDone_ClearsSlot ==
  /\ moving > 0
  /\ moving = current.len
  /\ arrays' = [arrays EXCEPT ![current.array][moving] = Nil]
  /\ current' = Slice(current.array, current.len - 1)
  /\ moving' = 0
  /\ notifyWatchers
  /\ UNCHANGED <<watching, updates, registered>>

\* ... and the shorter slice is stored and pushed.
DeregisterDone ==
  /\ moving > 0
  /\ moving = current.len
  /\ current' = Slice(current.array, current.len - 1)
  /\ moving' = 0
  /\ notifyWatchers
  /\ UNCHANGED <<arrays, watching, updates, registered>>

\* Mutation: Watch does not send the list it starts from.
Watch_Silent(w) ==
  /\ Unlocked
  /\ w \notin watching
  /\ watching' = watching \cup {w}
  /\ channel' = channel
  /\ UNCHANGED <<arrays, current, moving, updates, registered, missed>>

\* Watch: a new channel, with the current list in it.
Watch(w) ==
  /\ Unlocked
  /\ w \notin watching
  /\ watching' = watching \cup {w}
  /\ channel' = [channel EXCEPT ![w] = <<current>>]
  /\ UNCHANGED <<arrays, current, moving, updates, registered, missed>>

\* Discover: an error for a service the map does not know.
Discoverable == Unlocked /\ current # NoSlice

\* A watcher takes the next list from its channel.
Receive(w) ==
  /\ channel[w] # <<>>
  /\ channel' = [channel EXCEPT ![w] = Tail(@)]
  /\ UNCHANGED <<arrays, current, moving, watching, updates, registered, missed>>

Updates ==
  \/ \E i \in Instances : Register(i) \/ DeregisterUnknown(i) \/ DeregisterFind(i)
  \/ DeregisterMove
  \/ DeregisterDone

RegistryNext == Updates \/ \E w \in Watchers : Watch(w) \/ Receive(w)

RegistrySpec == RegistryInit /\ [][RegistryNext]_registryVars

-----------------------------------------------------------------------------
(* Properties *)

\* Every slot of the slice is in its array and holds an instance.
Filled(s) ==
  s.len > 0 =>
    /\ s.array \in DOMAIN arrays
    /\ s.len <= Len(arrays[s.array])
    /\ \A k \in 1 .. s.len : arrays[s.array][k] # Nil

\* However arrays are shared, grown and shifted under the readers' feet, nobody
\* ever finds a nil instance in a list the registry handed out.
ListsFilled ==
  /\ Filled(current)
  /\ \A w \in Watchers : \A k \in DOMAIN channel[w] : Filled(channel[w][k])

\* The in-place updates never corrupt the registry's own list: outside of a
\* Deregister it is what the calls made so far amount to.
ListFaithful == Unlocked => Contents(current) = registered
=============================================================================
