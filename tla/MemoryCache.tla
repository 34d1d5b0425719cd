----------------------------- MODULE MemoryCache -----------------------------
(***************************************************************************)
(* cache/cache.go, MemoryCache: a map under a lock, with expiry and a      *)
(* limit on the number of entries.                                         *)
(*                                                                         *)
(* When an entry expires is left open: Expire marks one at any time.  That *)
(* covers every TTL, the jitter of Set, and a TTL of 0, which makes an     *)
(* entry that expires at once.                                             *)
(***************************************************************************)
EXTENDS Naturals, FiniteSets

CONSTANTS
  CacheKeys,
  MaxSize      \* 0 = no limit

ASSUME CacheAssumption == MaxSize \in Nat /\ IsFiniteSet(CacheKeys)

VARIABLE store  \* mc.store: entries [key, val, expired], at most one per key

EntriesOf(k) == {e \in store : e.key = k}
Fresh(k) == {e \in EntriesOf(k) : ~ e.expired}
Expired(k) == {e \in EntriesOf(k) : e.expired}
Stored == {e.key : e \in store}

MemInit == store = {}

\* Mutation: makes room only once the limit is exceeded.
MemSet_OneOver(k, v) ==
  \E victims \in SUBSET Stored :
    /\ Cardinality(victims) =
         IF MaxSize > 0 /\ Cardinality(Stored) > MaxSize THEN 1 ELSE 0
    /\ store' = {e \in store : e.key \notin victims \cup {k}}
                  \cup {[key |-> k, val |-> v, expired |-> FALSE]}

\* Set: at the limit some entry makes room first, even for a key that has one.
MemSet(k, v) ==
  \E victims \in SUBSET Stored :
    /\ Cardinality(victims) =
         IF MaxSize > 0 /\ Cardinality(Stored) >= MaxSize THEN 1 ELSE 0
    /\ store' = {e \in store : e.key \notin victims \cup {k}}
                  \cup {[key |-> k, val |-> v, expired |-> FALSE]}

\* Delete, and the second half of a Get that found the entry expired: what is
\* deleted is whatever the key has by then.
MemDelete(k) == store' = store \ EntriesOf(k)

MemClear == store' = {}

\* cleanup, every CleanupInterval until Stop.
MemCleanup == store' = {e \in store : ~ e.expired}

\* Time passes an entry's expireAt.
MemExpire(k) ==
  /\ Fresh(k) # {}
  /\ store' = {[e EXCEPT !.expired = (e.key = k) \/ @] : e \in store}

-----------------------------------------------------------------------------
\* One entry per key, and never more entries than MaxSize.
CacheBounded ==
  /\ Cardinality(store) = Cardinality(Stored)
  /\ MaxSize > 0 => Cardinality(store) <= MaxSize
=============================================================================
