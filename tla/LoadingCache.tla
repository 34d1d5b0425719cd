---------------------------- MODULE LoadingCache ----------------------------
(***************************************************************************)
(* cache/cache.go put together: goroutines read through                    *)
(* SingleFlight.DoWithCache over a MultiLevel cache (a MemoryCache in      *)
(* front of a shared L2), the loader reads the database, and a writer      *)
(* changes the database and then deletes, sets or clears the cache.        *)
(*                                                                         *)
(* L2 is any Cache: its operations are atomic and may fail.  A cached nil  *)
(* is the Marker.                                                          *)
(***************************************************************************)
EXTENDS SingleFlight, MemoryCache

CONSTANTS
  Values,      \* what the database may hold for a key, Absent included
  Absent,
  Marker,      \* &nullMarker{}
  Failed,      \* the loader's error
  NoBackfill,  \* no back-fill is pending
  L2Fails,     \* whether L2 ever returns an error
  MaxUpdates   \* bound: database updates

ASSUME LoadingAssumption ==
  /\ CacheKeys = Keys
  /\ Absent \in Values /\ Failed \notin Values
  /\ Results = Values \cup {Failed}
  /\ Marker \notin Values
  /\ L2Fails \in BOOLEAN
  /\ MaxUpdates \in Nat

VARIABLES
  l2,          \* the shared cache: at most one [key, val] per key
  db,          \* the database
  backfill,    \* the value each caller's last Get is to write back to L1
  wpc, wkey,   \* where the writer is, and on which key
  updates,     \* bound
  \* Ghost: keys for which an update overlapped with a read that carries an
  \* older value, or whose invalidation failed in L2.
  raced

cacheVars == <<store, l2>>
writerVars == <<db, wpc, wkey, updates>>
vars == <<flight, pc, key, val, store, l2, db, backfill, wpc, wkey, updates, raced>>

-----------------------------------------------------------------------------
Cached == (Values \ {Absent}) \cup {Marker}

\* What DoWithCache caches for the result v.
CacheForm(v) == IF v = Absent THEN Marker ELSE v

L2Of(k) == {e \in l2 : e.key = k}

Init ==
  /\ FlightInit
  /\ MemInit
  /\ l2 = {}
  /\ \E v \in Values : db = [k \in Keys |-> v]
  /\ backfill = [c \in Callers |-> NoBackfill]
  /\ wpc = "idle"
  /\ wkey = NoKey
  /\ updates = 0
  /\ raced = {}

-----------------------------------------------------------------------------
(* DoWithCache *)

ReadStart(c) ==
  /\ pc[c] = "idle"
  /\ \E k \in Keys : key' = [key EXCEPT ![c] = k]
  /\ Goto(c, "getL1")
  /\ UNCHANGED <<flight, val, backfill, raced>>
  /\ UNCHANGED <<cacheVars, writerVars>>

\* cache.Get: L1 under its read lock.  An expired entry is deleted under the
\* write lock, later.
GetL1(c) ==
  /\ pc[c] = "getL1"
  /\ \/ Fresh(key[c]) # {} /\ Leave(c)
     \/ Expired(key[c]) # {} /\ Goto(c, "dropL1") /\ UNCHANGED <<key, val>>
     \/ EntriesOf(key[c]) = {} /\ Goto(c, "getL2") /\ UNCHANGED <<key, val>>
  /\ UNCHANGED <<flight, backfill, raced>>
  /\ UNCHANGED <<cacheVars, writerVars>>

DropL1(c) ==
  /\ pc[c] = "dropL1"
  /\ MemDelete(key[c])
  /\ Goto(c, "getL2")
  /\ UNCHANGED <<flight, key, val, backfill, raced, l2>>
  /\ UNCHANGED writerVars

\* A hit in L2 is returned and written back to L1 by a goroutine of its own.
\* (Bound: a caller's next hit waits for that goroutine.)  An error is a miss.
GetL2(c) ==
  /\ pc[c] = "getL2"
  /\ backfill[c] = NoBackfill
  /\ \/ \E e \in L2Of(key[c]) :
          /\ backfill' = [backfill EXCEPT ![c] = e]
          /\ raced' = IF wkey = e.key THEN raced \cup {e.key} ELSE raced
          /\ Leave(c)
     \/ /\ L2Of(key[c]) = {} \/ L2Fails
        /\ Goto(c, "do")
        /\ UNCHANGED <<key, val, backfill, raced>>
  /\ UNCHANGED flight
  /\ UNCHANGED <<cacheVars, writerVars>>

Backfill(c) ==
  /\ backfill[c] # NoBackfill
  /\ MemSet(backfill[c].key, backfill[c].val)
  /\ backfill' = [backfill EXCEPT ![c] = NoBackfill]
  /\ UNCHANGED <<flightVars, l2, raced>>
  /\ UNCHANGED writerVars

\* The miss goes through Do; the loader reads the database, fails or panics.
Load(c) ==
  /\ \/ Do(c)
     \/ RunReturns(c, db[key[c]])
     \/ RunReturns(c, Failed)
     \/ RunPanics(c)
  /\ UNCHANGED <<backfill, raced>>
  /\ UNCHANGED <<cacheVars, writerVars>>

\* Back in DoWithCache: return the error, or go on to cache.Set.
AfterDo(c) ==
  /\ pc[c] = "loaded"
  /\ \/ val[c] = Failed /\ Leave(c)
     \/ val[c] # Failed /\ Goto(c, "setL2") /\ UNCHANGED <<key, val>>
  /\ UNCHANGED <<flight, backfill, raced>>
  /\ UNCHANGED <<cacheVars, writerVars>>

PutL2(k, v) == l2' = (l2 \ L2Of(k)) \cup {[key |-> k, val |-> v]}

\* MultiLevel.Set: L2 first; its error ends Set, which DoWithCache ignores.
SetL2(c) ==
  /\ pc[c] = "setL2"
  /\ \/ PutL2(key[c], CacheForm(val[c])) /\ Goto(c, "setL1") /\ UNCHANGED <<key, val>>
     \/ L2Fails /\ l2' = l2 /\ Leave(c)
  /\ UNCHANGED <<flight, store, backfill, raced>>
  /\ UNCHANGED writerVars

SetL1(c) ==
  /\ pc[c] = "setL1"
  /\ MemSet(key[c], CacheForm(val[c]))
  /\ Leave(c)
  /\ UNCHANGED <<flight, l2, backfill, raced>>
  /\ UNCHANGED writerVars

-----------------------------------------------------------------------------
(* The writer *)

\* Some read on the key holds a value that it will still write to the cache.
Carried(k) ==
  \/ \E c \in Callers : key[c] = k /\ pc[c] \in {"settle", "forget", "loaded", "setL2", "setL1"}
  \/ \E c \in Callers : backfill[c] \in [key : {k}, val : Cached]

UpdateDb ==
  /\ wpc = "idle"
  /\ updates < MaxUpdates
  /\ updates' = updates + 1
  /\ \E k \in Keys : \E v \in Values \ {db[k]} :
       /\ db' = [db EXCEPT ![k] = v]
       /\ wkey' = k
       /\ raced' = IF Carried(k) THEN raced \cup {k} ELSE raced
  /\ wpc' = "invalidate"
  /\ UNCHANGED <<flightVars, backfill>>
  /\ UNCHANGED cacheVars

\* The writer is done, L2 having failed or not.
Written(failed) ==
  /\ wpc' = "idle"
  /\ wkey' = NoKey
  /\ raced' = IF failed THEN raced \cup {wkey} ELSE raced

\* Mutation: Delete stops after L1.
DeleteL1_Only ==
  /\ wpc = "invalidate"
  /\ MemDelete(wkey)
  /\ Written(FALSE)
  /\ UNCHANGED <<flightVars, backfill, l2, db, updates>>

\* MultiLevel.Delete, Clear and Set begin with L1, L1 and L2.  A failure of L2
\* ends Set.
DeleteL1 ==
  /\ wpc = "invalidate"
  /\ MemDelete(wkey)
  /\ wpc' = "deleteL2"
  /\ UNCHANGED <<flightVars, backfill, l2, db, wkey, updates, raced>>

ClearL1 ==
  /\ wpc = "invalidate"
  /\ MemClear
  /\ wpc' = "clearL2"
  /\ UNCHANGED <<flightVars, backfill, l2, db, wkey, updates, raced>>

WriteL2 ==
  /\ wpc = "invalidate"
  /\ db[wkey] # Absent
  /\ \/ PutL2(wkey, db[wkey]) /\ wpc' = "setL1" /\ UNCHANGED <<wkey, raced>>
     \/ L2Fails /\ l2' = l2 /\ Written(TRUE)
  /\ UNCHANGED <<flightVars, backfill, store, db, updates>>

\* The second half; L2 may fail.
DeleteL2 ==
  /\ wpc = "deleteL2"
  /\ \/ l2' = l2 \ L2Of(wkey) /\ Written(FALSE)
     \/ L2Fails /\ l2' = l2 /\ Written(TRUE)
  /\ UNCHANGED <<flightVars, backfill, store, db, updates>>

ClearL2 ==
  /\ wpc = "clearL2"
  /\ \/ l2' = {} /\ Written(FALSE)
     \/ L2Fails /\ l2' = l2 /\ Written(TRUE)
  /\ UNCHANGED <<flightVars, backfill, store, db, updates>>

WriteL1 ==
  /\ wpc = "setL1"
  /\ MemSet(wkey, db[wkey])
  /\ Written(FALSE)
  /\ UNCHANGED <<flightVars, backfill, l2, db, updates>>

Writer == UpdateDb \/ DeleteL1 \/ ClearL1 \/ WriteL2 \/ DeleteL2 \/ ClearL2 \/ WriteL1

-----------------------------------------------------------------------------
(* Expiry *)

L2Expires ==
  /\ \E e \in l2 : l2' = l2 \ {e}
  /\ UNCHANGED <<flightVars, store, backfill, raced>>
  /\ UNCHANGED writerVars

L1Expires ==
  /\ \/ \E k \in Keys : MemExpire(k)
     \/ MemCleanup /\ store' # store
  /\ UNCHANGED <<flightVars, l2, backfill, raced>>
  /\ UNCHANGED writerVars

Read(c) ==
  \/ ReadStart(c)
  \/ GetL1(c)
  \/ DropL1(c)
  \/ GetL2(c)
  \/ Backfill(c)
  \/ Load(c)
  \/ AfterDo(c)
  \/ SetL2(c)
  \/ SetL1(c)

Next ==
  \/ \E c \in Callers : Read(c)
  \/ Writer
  \/ L1Expires
  \/ L2Expires

Spec == Init /\ [][Next]_vars

-----------------------------------------------------------------------------
(* Properties *)

\* What both levels hold is what the database holds, for every key that no
\* update is under way on, unless an earlier update raced with a read that
\* carried the value it replaced.
CoherentUnlessRaced ==
  \A k \in Keys \ raced : wkey # k =>
    /\ \A e \in EntriesOf(k) : e.val = CacheForm(db[k])
    /\ \A e \in L2Of(k) : e.val = CacheForm(db[k])

\* Lines 75 and 83: Set and Delete order the levels so that no read brings
\* back what they replaced.
DeletedStaysDeleted ==
  \A k \in Keys : wkey # k =>
    \A e \in EntriesOf(k) : e.val = CacheForm(db[k])
=============================================================================
