--------------------------- MODULE CircuitBreaker ---------------------------
(***************************************************************************)
(* core/circuitbreaker/circuitbreaker.go: the adaptive three-state breaker *)
(* shared by every goroutine that calls one upstream.                      *)
(*                                                                         *)
(* A caller is a goroutine that runs Allow, then the call, then OnSuccess  *)
(* or OnFailure.  An action is one atomic memory operation, or one stretch *)
(* of code under cb.mu that touches one atomic: everything else a caller   *)
(* does between two of them is invisible to the others.                    *)
(*                                                                         *)
(* Time is kept modulo the window, which is all alignBucket looks at, and  *)
(* as ages saturated one past SleepWindow, which is all Allow looks at: no *)
(* bound on time is needed.                                                *)
(***************************************************************************)
EXTENDS Integers, FiniteSets, FiniteSetsExt

CONSTANTS
  Callers,        \* goroutines that share the breaker
  NoCaller,       \* cb.mu is free
  MaxConcurrent,  \* Config.MaxConcurrent, 0 = no half-open limit
  MinRequests,    \* Config.MinRequests
  ErrNum, ErrDen, \* Config.ErrorRate = ErrNum / ErrDen
  BucketCount,    \* Config.BucketCount, after New's defaults
  BucketTicks,    \* bucketSize, in clock ticks
  SleepWindow,    \* Config.SleepWindow, in clock ticks
  MaxTotal        \* bound: a report waits for the next bucket when one holds this many

ASSUME CallersAssumption ==
  /\ IsFiniteSet(Callers) /\ Callers # {}
  /\ NoCaller \notin Callers

ASSUME ConfigAssumption ==
  /\ MaxConcurrent \in Nat
  /\ MinRequests \in Nat
  /\ ErrNum \in Nat /\ ErrDen \in Nat \ {0}
  /\ BucketCount \in Nat \ {0}
  /\ BucketTicks \in Nat \ {0}
  /\ SleepWindow \in Nat
  /\ MaxTotal \in Nat

VARIABLES
  state,          \* cb.state (atomic)
  halfOpenCount,  \* cb.halfOpenCount (atomic)
  buckets,        \* cb.buckets (under mu)
  bucketIdx,      \* cb.bucketIdx (under mu)
  openAge,        \* time.Since(cb.openedAt), saturated (openedAt is under mu)
  mu,             \* the holder of cb.mu between two steps
  clock,          \* time, modulo the window
  pc,             \* where each caller is
  age,            \* time.Since of the openedAt a caller has read
  \* Ghosts: what became of the probe tickets since halfOpenCount was last
  \* stored to 0.
  granted,        \* tickets kept, i.e. probes let through
  stale,          \* callers whose +1 precedes that store and whose -1 is to come
  lateUndos       \* how many such -1 have come

sharedVars == <<state, halfOpenCount, buckets, bucketIdx, openAge, mu>>
ghosts == <<granted, stale, lateUndos>>
vars == <<state, halfOpenCount, buckets, bucketIdx, openAge, mu, clock, pc, age,
          granted, stale, lateUndos>>

-----------------------------------------------------------------------------
States == {"Closed", "Open", "HalfOpen"}

\* "calling": let through by Closed.  "probing": let through by HalfOpen.
InCall == {"calling", "probing"}

\* The points at which a caller holds cb.mu between two atomic operations.
Deciding == {"trip", "reopen", "close"}
Finishing == {"finishOpen", "finishClosed"}
Locked == Deciding \cup Finishing

Points == {"idle", "readOpenedAt", "since", "addTicket", "undoTicket"}
            \cup InCall \cup Locked

BucketIds == 0 .. (BucketCount - 1)
Window == BucketCount * BucketTicks

\* A bucket; Total goes up with either counter.  Slow, which no decision reads,
\* is left out.
Bucket == [success : Nat, failures : Nat]
EmptyBucket == [success |-> 0, failures |-> 0]
Total(b) == b.success + b.failures

\* Sums over the buckets of the window.
TotalFailures(bs) == MapThenSumSet(LAMBDA i : bs[i].failures, BucketIds)
TotalRequests(bs) == MapThenSumSet(LAMBDA i : Total(bs[i]), BucketIds)

\* failures / total > ErrorRate, for a total that is not zero.
AboveErrorRate(failures, total) == failures * ErrDen > ErrNum * total

shouldOpen(bs) ==
  /\ TotalRequests(bs) >= MinRequests
  /\ AboveErrorRate(TotalFailures(bs), TotalRequests(bs))

\* Looks at the current bucket b only.
shouldClose(b) ==
  /\ Total(b) >= MinRequests
  /\ ~ AboveErrorRate(b.failures, Total(b))

targetIdx == clock \div BucketTicks

\* The buckets once alignBucket has run: only the bucket it moves to is cleared.
alignBucket ==
  IF targetIdx = bucketIdx THEN buckets
  ELSE [buckets EXCEPT ![targetIdx] = EmptyBucket]

Older(a) == IF a > SleepWindow THEN a ELSE a + 1

-----------------------------------------------------------------------------
Init ==
  /\ state = "Closed"
  /\ halfOpenCount = 0
  /\ buckets = [i \in BucketIds |-> EmptyBucket]
  /\ bucketIdx = 0
  /\ openAge = SleepWindow + 1
  /\ mu = NoCaller
  /\ clock \in 0 .. (Window - 1)
  /\ pc = [c \in Callers |-> "idle"]
  /\ age = [c \in Callers |-> 0]
  /\ granted = 0
  /\ stale = {}
  /\ lateUndos = 0

Goto(c, point) == pc' = [pc EXCEPT ![c] = point]

\* Time passes for the clock, for openedAt and for the copies of it in use.
Tick ==
  /\ clock' = (clock + 1) % Window
  /\ openAge' = Older(openAge)
  /\ age' = [c \in Callers |-> IF pc[c] = "since" THEN Older(age[c]) ELSE age[c]]
  /\ UNCHANGED <<state, halfOpenCount, buckets, bucketIdx, mu, pc>>
  /\ UNCHANGED ghosts

-----------------------------------------------------------------------------
(* Allow *)

\* The first load of cb.state decides which branch the caller takes.
AllowLoadState(c) ==
  /\ pc[c] = "idle"
  /\ \/ state = "Closed" /\ Goto(c, "calling")
     \/ state = "Open" /\ Goto(c, "readOpenedAt")
     \/ /\ state = "HalfOpen"
        /\ Goto(c, IF MaxConcurrent > 0 THEN "addTicket" ELSE "probing")
  /\ UNCHANGED <<clock, age>>
  /\ UNCHANGED sharedVars
  /\ UNCHANGED ghosts

\* RLock, copy openedAt, RUnlock.
AllowReadOpenedAt(c) ==
  /\ pc[c] = "readOpenedAt"
  /\ mu = NoCaller
  /\ age' = [age EXCEPT ![c] = openAge]
  /\ Goto(c, "since")
  /\ UNCHANGED clock
  /\ UNCHANGED sharedVars
  /\ UNCHANGED ghosts

\* Still asleep: return false.
AllowAsleep(c) ==
  /\ pc[c] = "since"
  /\ age[c] <= SleepWindow
  /\ age' = [age EXCEPT ![c] = 0]
  /\ Goto(c, "idle")
  /\ UNCHANGED clock
  /\ UNCHANGED sharedVars
  /\ UNCHANGED ghosts

\* Mutation: wakes up one tick early.
AllowStoreHalfOpen_Early(c) ==
  /\ pc[c] = "since"
  /\ age[c] >= SleepWindow
  /\ state' = "HalfOpen"
  /\ age' = [age EXCEPT ![c] = 0]
  /\ Goto(c, IF MaxConcurrent > 0 THEN "addTicket" ELSE "probing")
  /\ UNCHANGED <<halfOpenCount, buckets, bucketIdx, openAge, mu, clock>>
  /\ UNCHANGED ghosts

\* Slept enough: store HalfOpen, whatever cb.state has become meanwhile.
AllowStoreHalfOpen(c) ==
  /\ pc[c] = "since"
  /\ age[c] > SleepWindow
  /\ state' = "HalfOpen"
  /\ age' = [age EXCEPT ![c] = 0]
  /\ Goto(c, IF MaxConcurrent > 0 THEN "addTicket" ELSE "probing")
  /\ UNCHANGED <<halfOpenCount, buckets, bucketIdx, openAge, mu, clock>>
  /\ UNCHANGED ghosts

\* Mutation: Add returns the old value, and that is what is compared.
AllowAddTicket_OldValue(c) ==
  /\ pc[c] = "addTicket"
  /\ halfOpenCount' = halfOpenCount + 1
  /\ \/ /\ halfOpenCount <= MaxConcurrent
        /\ granted' = granted + 1
        /\ Goto(c, "probing")
     \/ /\ halfOpenCount > MaxConcurrent
        /\ granted' = granted
        /\ Goto(c, "undoTicket")
  /\ UNCHANGED <<state, buckets, bucketIdx, openAge, mu, clock, age, stale, lateUndos>>

\* AddInt32(&halfOpenCount, 1); over the limit, the caller must undo it.
AllowAddTicket(c) ==
  /\ pc[c] = "addTicket"
  /\ halfOpenCount' = halfOpenCount + 1
  /\ \/ /\ halfOpenCount' <= MaxConcurrent
        /\ granted' = granted + 1
        /\ Goto(c, "probing")
     \/ /\ halfOpenCount' > MaxConcurrent
        /\ granted' = granted
        /\ Goto(c, "undoTicket")
  /\ UNCHANGED <<state, buckets, bucketIdx, openAge, mu, clock, age, stale, lateUndos>>

\* Mutation: the refused caller stores the limit instead of subtracting.
AllowUndoTicket_Store(c) ==
  /\ pc[c] = "undoTicket"
  /\ halfOpenCount' = MaxConcurrent
  /\ stale' = stale \ {c}
  /\ lateUndos' = IF c \in stale THEN lateUndos + 1 ELSE lateUndos
  /\ Goto(c, "idle")
  /\ UNCHANGED <<state, buckets, bucketIdx, openAge, mu, clock, age, granted>>

\* AddInt32(&halfOpenCount, -1); return false.
AllowUndoTicket(c) ==
  /\ pc[c] = "undoTicket"
  /\ halfOpenCount' = halfOpenCount - 1
  /\ stale' = stale \ {c}
  /\ lateUndos' = IF c \in stale THEN lateUndos + 1 ELSE lateUndos
  /\ Goto(c, "idle")
  /\ UNCHANGED <<state, buckets, bucketIdx, openAge, mu, clock, age, granted>>

-----------------------------------------------------------------------------
(* The call, OnSuccess, OnFailure, Reset *)

\* The request ends and nothing is reported (the gateway's handler returns
\* between Allow and the proxied call; a panic).
CallAbandoned(c) ==
  /\ pc[c] \in InCall
  /\ Goto(c, "idle")
  /\ UNCHANGED <<clock, age>>
  /\ UNCHANGED sharedVars
  /\ UNCHANGED ghosts

\* The bucket b after one more request.
Counted(b, ok) ==
  [success  |-> IF ok THEN b.success + 1 ELSE b.success,
   failures |-> IF ok THEN b.failures ELSE b.failures + 1]

\* Under mu: align, count the outcome in the current bucket.
Record(ok) ==
  /\ Total(alignBucket[targetIdx]) < MaxTotal
  /\ bucketIdx' = targetIdx
  /\ buckets' = [alignBucket EXCEPT ![targetIdx] = Counted(@, ok)]

\* Under mu: either keep the lock to carry out a decision, or return.
Decide(c, decision, condition) ==
  \/ condition /\ Goto(c, decision) /\ mu' = c
  \/ ~ condition /\ Goto(c, "idle") /\ mu' = mu

\* Mutation: counts the success without taking mu.
OnSuccess_Unlocked(c) ==
  /\ pc[c] \in InCall
  /\ Record(TRUE)
  /\ Decide(c, "close", state = "HalfOpen" /\ shouldClose(buckets'[bucketIdx']))
  /\ UNCHANGED <<state, halfOpenCount, openAge, clock, age>>
  /\ UNCHANGED ghosts

OnSuccess(c) ==
  /\ pc[c] \in InCall
  /\ mu = NoCaller
  /\ Record(TRUE)
  /\ Decide(c, "close", state = "HalfOpen" /\ shouldClose(buckets'[bucketIdx']))
  /\ UNCHANGED <<state, halfOpenCount, openAge, clock, age>>
  /\ UNCHANGED ghosts

\* Mutation: a failed probe is counted but does not open the breaker again.
OnFailure_NoReopen(c) ==
  /\ pc[c] \in InCall
  /\ mu = NoCaller
  /\ Record(FALSE)
  /\ Decide(c, "trip", state = "Closed" /\ shouldOpen(buckets'))
  /\ UNCHANGED <<state, halfOpenCount, openAge, clock, age>>
  /\ UNCHANGED ghosts

OnFailure(c) ==
  /\ pc[c] \in InCall
  /\ mu = NoCaller
  /\ Record(FALSE)
  /\ \/ state = "HalfOpen" /\ Decide(c, "reopen", TRUE)
     \/ state # "HalfOpen" /\ Decide(c, "trip", shouldOpen(buckets'))
  /\ UNCHANGED <<state, halfOpenCount, openAge, clock, age>>
  /\ UNCHANGED ghosts

\* The store of cb.state that a decision leads to.
StoreState(c) ==
  /\ \/ /\ pc[c] = "close"
        /\ state' = "Closed"
        /\ Goto(c, "finishClosed")
     \/ /\ pc[c] \in {"trip", "reopen"}
        /\ state' = "Open"
        /\ Goto(c, "finishOpen")
  /\ UNCHANGED <<halfOpenCount, buckets, bucketIdx, openAge, mu, clock, age>>
  /\ UNCHANGED ghosts

\* Reset, up to its store of halfOpenCount.  openedAt stays as it is.
Reset(c) ==
  /\ pc[c] = "idle"
  /\ mu = NoCaller
  /\ mu' = c
  /\ state' = "Closed"
  /\ buckets' = [i \in BucketIds |-> EmptyBucket]
  /\ bucketIdx' = 0
  /\ Goto(c, "finishClosed")
  /\ UNCHANGED <<halfOpenCount, openAge, clock, age>>
  /\ UNCHANGED ghosts

\* The end of toOpen, of OnSuccess and of Reset: openedAt = now for toOpen,
\* halfOpenCount stored to 0, Unlock.
Finish(c) ==
  /\ pc[c] \in Finishing
  /\ openAge' = IF pc[c] = "finishOpen" THEN 0 ELSE openAge
  /\ halfOpenCount' = 0
  /\ mu' = NoCaller
  /\ Goto(c, "idle")
  /\ granted' = 0
  /\ stale' = {d \in Callers : pc[d] = "undoTicket"}
  /\ lateUndos' = 0
  /\ UNCHANGED <<state, buckets, bucketIdx, clock, age>>

-----------------------------------------------------------------------------
Allow(c) ==
  \/ AllowLoadState(c)
  \/ AllowReadOpenedAt(c)
  \/ AllowAsleep(c)
  \/ AllowStoreHalfOpen(c)
  \/ AllowAddTicket(c)
  \/ AllowUndoTicket(c)

Report(c) ==
  \/ OnSuccess(c)
  \/ OnFailure(c)
  \/ StoreState(c)
  \/ Finish(c)

Next ==
  \/ Tick
  \/ \E c \in Callers : Allow(c) \/ Report(c) \/ CallAbandoned(c) \/ Reset(c)

Spec == Init /\ [][Next]_vars

\* The Go scheduler runs every goroutine that can run, and sync.RWMutex hands
\* the lock to a waiting goroutine (a blocked Lock keeps new readers out, an
\* unlock admits the readers that wait): nobody starves on cb.mu.
Scheduling ==
  /\ WF_vars(Tick)
  /\ \A c \in Callers :
       /\ WF_vars(Allow(c) /\ pc[c] # "idle")
       /\ SF_vars(AllowReadOpenedAt(c))
       /\ SF_vars(OnSuccess(c) \/ OnFailure(c) \/ CallAbandoned(c))
       /\ WF_vars(StoreState(c) \/ Finish(c))

FairSpec == Spec /\ Scheduling

\* A service at work: every call let through is reported, as core/client does,
\* and Reset, "for tests", is not called.
ReportingNext == Tick \/ \E c \in Callers : Allow(c) \/ Report(c)

ReportingSpec == Init /\ [][ReportingNext]_vars

\* The same under dense traffic: while the breaker is half-open, time leaves no bucket
\* before MinRequests calls are reported in it.
BusyTick ==
  /\ Tick
  /\ state = "HalfOpen" /\ clock' \div BucketTicks # targetIdx
       => Total(alignBucket[targetIdx]) >= MinRequests

BusyNext == BusyTick \/ \E c \in Callers : Allow(c) \/ Report(c)

\* The same under traffic that never stops.
TrafficSpec ==
  /\ ReportingSpec
  /\ Scheduling
  /\ \A c \in Callers : WF_vars(AllowLoadState(c))

-----------------------------------------------------------------------------
(* Properties *)

\* Every variable has its type.
TypeOK ==
  /\ state \in States
  /\ halfOpenCount \in Int
  /\ buckets \in [BucketIds -> Bucket]
  /\ bucketIdx \in BucketIds
  /\ openAge \in 0 .. (SleepWindow + 1)
  /\ mu \in Callers \cup {NoCaller}
  /\ clock \in 0 .. (Window - 1)
  /\ pc \in [Callers -> Points]
  /\ age \in [Callers -> 0 .. (SleepWindow + 1)]
  /\ granted \in Nat
  /\ stale \in SUBSET Callers
  /\ lateUndos \in Nat

\* cb.mu is held exactly by the caller that is between two atomic operations
\* of OnSuccess, OnFailure or Reset.
LockDiscipline ==
  \A c \in Callers : pc[c] \in Locked <=> mu = c

Undoing == {c \in Callers : pc[c] = "undoTicket"}

\* halfOpenCount never stays above MaxConcurrent: what it exceeds the limit by
\* is about to be taken back by the callers it made Allow refuse.
TicketsBounded ==
  halfOpenCount <= MaxConcurrent + Cardinality(Undoing)

\* What halfOpenCount stands for: the tickets kept since it was last stored to
\* 0, the ones about to be given back, less those given back that it no longer
\* counted.
TicketLedger ==
  /\ stale \subseteq Undoing
  /\ halfOpenCount = granted + Cardinality(Undoing \ stale) - lateUndos

\* The store of 0 in toOpen, OnSuccess and Reset races with the +1/-1 of
\* Allow, so one half-open period can let more than MaxConcurrent probes
\* through; never by more than one for each other caller.
GrantsBounded ==
  granted <= MaxConcurrent + Cardinality(Callers) - 1

\* What OnSuccess or OnFailure decided on is still what the buckets say when
\* the decision is stored, whatever the other goroutines do meanwhile.
DecisionStillValid ==
  \A c \in Callers :
    /\ pc[c] = "trip" => shouldOpen(buckets)
    /\ pc[c] = "close" => shouldClose(buckets[bucketIdx])
    /\ pc[c] = "reopen" => buckets[bucketIdx].failures > 0

\* From half-open the breaker goes on to closed or to open.  shouldClose counts the
\* current bucket alone, and alignBucket clears the next one: with MinRequests above 1 the
\* traffic must be dense (BusyNext), or successes that trickle in keep it half-open.
HalfOpenResolves == state = "HalfOpen" ~> state # "HalfOpen"

\* Seen through this mapping, a breaker used by one goroutine keeps the
\* promises of module Breaker.  Between the store of Open and the unlock
\* nobody can read openedAt: it counts as renewed.
Abstract == INSTANCE Breaker WITH
  phase <- state,
  slept <- IF \E c \in Callers : pc[c] = "finishOpen" THEN 0 ELSE openAge,
  probes <- IF state = "HalfOpen" THEN granted ELSE 0

KeepsPromises == Abstract!Spec
=============================================================================
