------------------------ MODULE CircuitBreakerProofs ------------------------
(***************************************************************************)
(* Theorems about CircuitBreaker, for any number of callers and any        *)
(* configuration.                                                          *)
(***************************************************************************)
EXTENDS CircuitBreaker, FiniteSetTheorems, TLAPS

USE CallersAssumption, ConfigAssumption

\* The current bucket index is one of the buckets.
LEMMA TargetIdxType ==
  ASSUME TypeOK
  PROVE  targetIdx \in BucketIds
BY DEF TypeOK, targetIdx, BucketIds, Window

LEMMA AlignBucketType ==
  ASSUME TypeOK
  PROVE  alignBucket \in [BucketIds -> Bucket]
BY TargetIdxType DEF TypeOK, alignBucket, EmptyBucket, Bucket

LEMMA CountedType ==
  ASSUME NEW b \in Bucket, NEW ok
  PROVE  Counted(b, ok) \in Bucket
BY DEF Bucket, Counted

LEMMA RecordType ==
  ASSUME TypeOK, NEW ok, Record(ok)
  PROVE  buckets' \in [BucketIds -> Bucket] /\ bucketIdx' \in BucketIds
BY TargetIdxType, AlignBucketType, CountedType DEF Record

\* Every variable keeps its type, in every behaviour of the breaker.
THEOREM TypeCorrect == Spec => []TypeOK
<1>. USE DEF Points, InCall, Locked, Deciding, Finishing, States
<1>1. Init => TypeOK
  BY DEF Init, TypeOK, BucketIds, Bucket, EmptyBucket, Window
<1>2. TypeOK /\ [Next]_vars => TypeOK'
  <2>. SUFFICES ASSUME TypeOK, [Next]_vars PROVE TypeOK'
    OBVIOUS
  <2>1. CASE Tick
    <3>1. clock' \in 0 .. (Window - 1)
      BY <2>1 DEF Tick, TypeOK, Window
    <3>2. \A a \in 0 .. (SleepWindow + 1) : Older(a) \in 0 .. (SleepWindow + 1)
      BY DEF Older
    <3>. QED  BY <2>1, <3>1, <3>2 DEF Tick, TypeOK, ghosts
  <2>2. ASSUME NEW c \in Callers, AllowLoadState(c) PROVE TypeOK'
    BY <2>2 DEF AllowLoadState, Goto, TypeOK, sharedVars, ghosts, Window
  <2>3. ASSUME NEW c \in Callers, AllowReadOpenedAt(c) PROVE TypeOK'
    BY <2>3 DEF AllowReadOpenedAt, Goto, TypeOK, sharedVars, ghosts, Window
  <2>4. ASSUME NEW c \in Callers, AllowAsleep(c) PROVE TypeOK'
    BY <2>4 DEF AllowAsleep, Goto, TypeOK, sharedVars, ghosts, Window
  <2>5. ASSUME NEW c \in Callers, AllowStoreHalfOpen(c) PROVE TypeOK'
    BY <2>5 DEF AllowStoreHalfOpen, Goto, TypeOK, ghosts, Window
  <2>6. ASSUME NEW c \in Callers, AllowAddTicket(c) PROVE TypeOK'
    BY <2>6 DEF AllowAddTicket, Goto, TypeOK, Window
  <2>7. ASSUME NEW c \in Callers, AllowUndoTicket(c) PROVE TypeOK'
    BY <2>7 DEF AllowUndoTicket, Goto, TypeOK, Window
  <2>8. ASSUME NEW c \in Callers, OnSuccess(c) PROVE TypeOK'
    <3>1. buckets' \in [BucketIds -> Bucket] /\ bucketIdx' \in BucketIds
      BY <2>8, RecordType DEF OnSuccess
    <3>. QED  BY <2>8, <3>1 DEF OnSuccess, Decide, Goto, TypeOK, ghosts, Window
  <2>9. ASSUME NEW c \in Callers, OnFailure(c) PROVE TypeOK'
    <3>1. buckets' \in [BucketIds -> Bucket] /\ bucketIdx' \in BucketIds
      BY <2>9, RecordType DEF OnFailure
    <3>. QED  BY <2>9, <3>1 DEF OnFailure, Decide, Goto, TypeOK, ghosts, Window
  <2>10. ASSUME NEW c \in Callers, StoreState(c) PROVE TypeOK'
    BY <2>10 DEF StoreState, Goto, TypeOK, ghosts, Window
  <2>11. ASSUME NEW c \in Callers, Finish(c) PROVE TypeOK'
    BY <2>11 DEF Finish, Goto, TypeOK, Window
  <2>12. ASSUME NEW c \in Callers, CallAbandoned(c) PROVE TypeOK'
    BY <2>12 DEF CallAbandoned, Goto, TypeOK, sharedVars, ghosts, Window
  <2>13. ASSUME NEW c \in Callers, Reset(c) PROVE TypeOK'
    BY <2>13 DEF Reset, Goto, TypeOK, ghosts, Window, BucketIds, Bucket, EmptyBucket
  <2>14. CASE UNCHANGED vars
    BY <2>14 DEF vars, TypeOK, Window
  <2>. QED
    BY <2>1, <2>2, <2>3, <2>4, <2>5, <2>6, <2>7, <2>8, <2>9, <2>10, <2>11, <2>12, <2>13, <2>14
    DEF Next, Allow, Report
<1>. QED  BY <1>1, <1>2, PTL DEF Spec

-----------------------------------------------------------------------------
(***************************************************************************)
(* The probe tickets.  halfOpenCount is only meaningful together with the  *)
(* callers that are about to take their +1 back, and with those of them    *)
(* whose +1 a store of 0 has already wiped out.  The ledger says how; the  *)
(* grants of a period then exceed MaxConcurrent by at most the late undos, *)
(* and these were all undoing when the 0 was stored, by another caller.    *)
(***************************************************************************)
GrantsInv ==
  /\ granted <= MaxConcurrent + lateUndos
  /\ lateUndos + Cardinality(stale) <= Cardinality(Callers) - 1

LedgerInv == TypeOK /\ TicketLedger /\ GrantsInv

\* Sets of callers are finite, and so have a cardinality.
LEMMA CallerSets ==
  ASSUME NEW S \in SUBSET Callers
  PROVE  /\ IsFiniteSet(S)
         /\ Cardinality(S) \in Nat
         /\ Cardinality(S) <= Cardinality(Callers)
         /\ S # Callers => Cardinality(S) <= Cardinality(Callers) - 1
<1>1. IsFiniteSet(S) /\ Cardinality(S) <= Cardinality(Callers)
  BY FS_Subset
<1>2. Cardinality(S) \in Nat /\ Cardinality(Callers) \in Nat
  BY <1>1, FS_CardinalityType
<1>3. S # Callers => Cardinality(S) # Cardinality(Callers)
  BY FS_Subset, Zenon
<1>. QED  BY <1>1, <1>2, <1>3

LEMMA AddCaller ==
  ASSUME NEW S \in SUBSET Callers, NEW c \in Callers, c \notin S
  PROVE  Cardinality(S \cup {c}) = Cardinality(S) + 1
BY CallerSets, FS_AddElement

LEMMA RemoveCaller ==
  ASSUME NEW S \in SUBSET Callers, NEW c \in S
  PROVE  Cardinality(S \ {c}) = Cardinality(S) - 1
BY CallerSets, FS_RemoveElement

\* A step that moves no caller to or from the undo, and touches no ticket.
LEMMA NoTicketStep ==
  ASSUME LedgerInv, TypeOK', Undoing' = Undoing,
         UNCHANGED <<halfOpenCount, granted, stale, lateUndos>>
  PROVE  LedgerInv'
BY DEF LedgerInv, TicketLedger, GrantsInv

LEMMA AddTicketStep ==
  ASSUME LedgerInv, TypeOK', NEW c \in Callers, AllowAddTicket(c)
  PROVE  LedgerInv'
<1>. USE DEF LedgerInv, AllowAddTicket
<1>1. Undoing \in SUBSET Callers /\ c \notin Undoing /\ c \notin stale /\ stale \subseteq Undoing
  BY DEF TypeOK, Undoing, TicketLedger
<1>2. /\ Cardinality(Undoing \ stale) \in Nat
      /\ lateUndos \in Nat /\ granted \in Nat /\ halfOpenCount \in Int
  BY <1>1, CallerSets DEF TypeOK
<1>3. CASE halfOpenCount' <= MaxConcurrent
  <2>1. Undoing' = Undoing /\ granted' = granted + 1 /\ UNCHANGED <<stale, lateUndos>>
    BY <1>3, <1>1, <1>2 DEF Undoing, Goto, TypeOK
  <2>2. TicketLedger'
    BY <2>1, <1>2 DEF TicketLedger
  <2>3. GrantsInv'
    BY <2>1, <2>2, <1>2, <1>3 DEF GrantsInv, TicketLedger
  <2>. QED  BY <2>2, <2>3
<1>4. CASE halfOpenCount' > MaxConcurrent
  <2>1. Undoing' = Undoing \cup {c} /\ UNCHANGED <<granted, stale, lateUndos>>
    BY <1>4, <1>1, <1>2 DEF Undoing, Goto, TypeOK
  <2>2. Undoing' \ stale' = (Undoing \ stale) \cup {c}
    BY <2>1, <1>1
  <2>3. Cardinality(Undoing' \ stale') = Cardinality(Undoing \ stale) + 1
    BY <2>2, <1>1, AddCaller
  <2>. QED  BY <2>1, <2>3, <1>2, <1>1 DEF TicketLedger, GrantsInv
<1>. QED  BY <1>2, <1>3, <1>4

LEMMA UndoTicketStep ==
  ASSUME LedgerInv, TypeOK', NEW c \in Callers, AllowUndoTicket(c)
  PROVE  LedgerInv'
<1>. USE DEF LedgerInv, AllowUndoTicket
<1>1. Undoing \in SUBSET Callers /\ c \in Undoing /\ stale \subseteq Undoing
  BY DEF TypeOK, Undoing, TicketLedger
<1>2. /\ Cardinality(Undoing \ stale) \in Nat
      /\ lateUndos \in Nat /\ granted \in Nat /\ halfOpenCount \in Int
      /\ Cardinality(stale) \in Nat /\ Cardinality(Callers) \in Nat
  BY <1>1, CallerSets DEF TypeOK
<1>3. Undoing' = Undoing \ {c} /\ granted' = granted
  BY <1>1 DEF Undoing, Goto, TypeOK
<1>4. CASE c \in stale
  <2>1. Undoing' \ stale' = Undoing \ stale /\ lateUndos' = lateUndos + 1
    BY <1>3, <1>4
  <2>2. Cardinality(stale') = Cardinality(stale) - 1
    BY <1>1, <1>4, RemoveCaller
  <2>3. Cardinality(Undoing' \ stale') = Cardinality(Undoing \ stale)
    BY <2>1
  <2>4. stale' \subseteq Undoing'
    BY <1>1, <1>3
  <2>5. TicketLedger'
    BY <2>1, <2>3, <2>4, <1>2, <1>3 DEF TicketLedger
  <2>. QED  BY <2>1, <2>2, <2>5, <1>2, <1>3 DEF GrantsInv
<1>5. CASE c \notin stale
  <2>1. Undoing' \ stale' = (Undoing \ stale) \ {c} /\ stale' = stale /\ lateUndos' = lateUndos
    BY <1>3, <1>5
  <2>2. Cardinality(Undoing' \ stale') = Cardinality(Undoing \ stale) - 1
    BY <2>1, <1>1, <1>5, RemoveCaller
  <2>3. stale' \subseteq Undoing'
    BY <1>1, <1>3, <1>5
  <2>4. TicketLedger'
    BY <2>1, <2>2, <2>3, <1>2, <1>3 DEF TicketLedger
  <2>. QED  BY <2>1, <2>4, <1>2, <1>3 DEF GrantsInv
<1>. QED  BY <1>4, <1>5

LEMMA FinishStep ==
  ASSUME LedgerInv, TypeOK', NEW c \in Callers, Finish(c)
  PROVE  LedgerInv'
<1>. USE DEF LedgerInv, Finish
<1>1. Undoing' = stale' /\ stale' \in SUBSET Callers /\ c \notin stale'
  BY DEF Undoing, Goto, TypeOK, Finishing
<1>2. Cardinality(Undoing' \ stale') = 0
  BY <1>1, FS_EmptySet
<1>3. Cardinality(stale') <= Cardinality(Callers) - 1 /\ Cardinality(stale') \in Nat
  BY <1>1, CallerSets
<1>. QED  BY <1>1, <1>2, <1>3 DEF TicketLedger, GrantsInv

LEMMA LedgerInvariant == Spec => []LedgerInv
<1>1. Init => LedgerInv
  <2>. SUFFICES ASSUME Init PROVE LedgerInv
    OBVIOUS
  <2>1. Undoing = {} /\ stale = {}
    BY DEF Init, Undoing
  <2>2. TypeOK
    BY DEF Init, TypeOK, BucketIds, Bucket, EmptyBucket, Window, States, Points
  <2>3. Cardinality(Callers) >= 1 /\ Cardinality(Callers) \in Nat
    BY FS_CardinalityType, FS_EmptySet
  <2>. QED  BY <2>1, <2>2, <2>3, FS_EmptySet DEF Init, LedgerInv, TicketLedger, GrantsInv
<1>2. LedgerInv /\ TypeOK' /\ [Next]_vars => LedgerInv'
  <2>. SUFFICES ASSUME LedgerInv, TypeOK', [Next]_vars PROVE LedgerInv'
    OBVIOUS
  <2>. USE DEF Undoing, Goto, TypeOK, InCall, Locked, Deciding, Finishing
  <2>0. TypeOK
    BY DEF LedgerInv
  <2>1. CASE Tick
    <3>1. Undoing' = Undoing
      BY <2>1 DEF Tick
    <3>. QED  BY <3>1, <2>1, NoTicketStep DEF Tick, ghosts
  <2>2. ASSUME NEW c \in Callers, AllowLoadState(c) PROVE LedgerInv'
    <3>1. Undoing' = Undoing
      BY <2>0, <2>2 DEF AllowLoadState
    <3>. QED  BY <3>1, <2>2, NoTicketStep DEF AllowLoadState, sharedVars, ghosts
  <2>3. ASSUME NEW c \in Callers, AllowReadOpenedAt(c) PROVE LedgerInv'
    <3>1. Undoing' = Undoing
      BY <2>0, <2>3 DEF AllowReadOpenedAt
    <3>. QED  BY <3>1, <2>3, NoTicketStep DEF AllowReadOpenedAt, sharedVars, ghosts
  <2>4. ASSUME NEW c \in Callers, AllowAsleep(c) PROVE LedgerInv'
    <3>1. Undoing' = Undoing
      BY <2>0, <2>4 DEF AllowAsleep
    <3>. QED  BY <3>1, <2>4, NoTicketStep DEF AllowAsleep, sharedVars, ghosts
  <2>5. ASSUME NEW c \in Callers, AllowStoreHalfOpen(c) PROVE LedgerInv'
    <3>1. Undoing' = Undoing
      BY <2>0, <2>5 DEF AllowStoreHalfOpen
    <3>. QED  BY <3>1, <2>5, NoTicketStep DEF AllowStoreHalfOpen, ghosts
  <2>6. ASSUME NEW c \in Callers, AllowAddTicket(c) PROVE LedgerInv'
    BY <2>6, AddTicketStep
  <2>7. ASSUME NEW c \in Callers, AllowUndoTicket(c) PROVE LedgerInv'
    BY <2>7, UndoTicketStep
  <2>8. ASSUME NEW c \in Callers, OnSuccess(c) PROVE LedgerInv'
    <3>1. Undoing' = Undoing
      BY <2>0, <2>8 DEF OnSuccess, Decide
    <3>. QED  BY <3>1, <2>8, NoTicketStep DEF OnSuccess, ghosts
  <2>9. ASSUME NEW c \in Callers, OnFailure(c) PROVE LedgerInv'
    <3>1. Undoing' = Undoing
      BY <2>0, <2>9 DEF OnFailure, Decide
    <3>. QED  BY <3>1, <2>9, NoTicketStep DEF OnFailure, ghosts
  <2>10. ASSUME NEW c \in Callers, StoreState(c) PROVE LedgerInv'
    <3>1. Undoing' = Undoing
      BY <2>0, <2>10 DEF StoreState
    <3>. QED  BY <3>1, <2>10, NoTicketStep DEF StoreState, ghosts
  <2>11. ASSUME NEW c \in Callers, Finish(c) PROVE LedgerInv'
    BY <2>11, FinishStep
  <2>12. ASSUME NEW c \in Callers, CallAbandoned(c) PROVE LedgerInv'
    <3>1. Undoing' = Undoing
      BY <2>0, <2>12 DEF CallAbandoned
    <3>. QED  BY <3>1, <2>12, NoTicketStep DEF CallAbandoned, sharedVars, ghosts
  <2>13. ASSUME NEW c \in Callers, Reset(c) PROVE LedgerInv'
    <3>1. Undoing' = Undoing
      BY <2>0, <2>13 DEF Reset
    <3>. QED  BY <3>1, <2>13, NoTicketStep DEF Reset, ghosts
  <2>14. CASE UNCHANGED vars
    BY <2>14, NoTicketStep DEF vars
  <2>. QED
    BY <2>1, <2>2, <2>3, <2>4, <2>5, <2>6, <2>7, <2>8, <2>9, <2>10, <2>11, <2>12, <2>13, <2>14
    DEF Next, Allow, Report
<1>. QED  BY <1>1, <1>2, TypeCorrect, PTL DEF Spec

\* halfOpenCount always is what the ledger of tickets says: a store of 0, late
\* decrements and refusals lose or invent none.
THEOREM TicketsAreAccounted == Spec => []TicketLedger
<1>1. LedgerInv => TicketLedger
  BY DEF LedgerInv
<1>. QED  BY <1>1, LedgerInvariant, PTL

\* At any moment halfOpenCount is at most MaxConcurrent, plus one for each
\* caller that is about to take its own +1 back.
THEOREM TicketsAreBounded == Spec => []TicketsBounded
<1>1. LedgerInv => TicketsBounded
  <2>. SUFFICES ASSUME LedgerInv PROVE TicketsBounded
    OBVIOUS
  <2>1. Undoing \in SUBSET Callers /\ Undoing \ stale \in SUBSET Undoing
    BY DEF Undoing
  <2>2. Cardinality(Undoing \ stale) <= Cardinality(Undoing)
    BY <2>1, CallerSets, FS_Subset
  <2>3. Cardinality(Undoing \ stale) \in Nat /\ Cardinality(Undoing) \in Nat
    BY <2>1, CallerSets
  <2>. QED  BY <2>2, <2>3 DEF LedgerInv, TypeOK, TicketLedger, GrantsInv, TicketsBounded
<1>. QED  BY <1>1, LedgerInvariant, PTL

\* However the goroutines race, a half-open period lets through at most
\* MaxConcurrent probes and one more for each other caller.
THEOREM GrantsAreBounded == Spec => []GrantsBounded
<1>1. LedgerInv => GrantsBounded
  BY CallerSets DEF LedgerInv, TypeOK, GrantsInv, GrantsBounded
<1>. QED  BY <1>1, LedgerInvariant, PTL

-----------------------------------------------------------------------------
(***************************************************************************)
(* The lock.  A decision is taken and carried out under one hold of cb.mu, *)
(* and every write of the buckets needs the lock to be free.               *)
(***************************************************************************)
DecisionInv == TypeOK /\ LockDiscipline /\ DecisionStillValid

\* A step by a caller that neither takes nor gives up the lock.
LEMMA UnlockedStep ==
  ASSUME DecisionInv, TypeOK', NEW c \in Callers, NEW point \in Points \ Locked,
         pc[c] \notin Locked, Goto(c, point), UNCHANGED <<mu, buckets, bucketIdx>>
  PROVE  DecisionInv'
<1>. USE DEF DecisionInv, Goto, TypeOK
<1>1. \A d \in Callers : pc'[d] \in Locked <=> pc[d] \in Locked
  OBVIOUS
<1>2. \A d \in Callers : pc'[d] \in Locked => pc'[d] = pc[d]
  OBVIOUS
<1>3. LockDiscipline'
  BY <1>1 DEF LockDiscipline
<1>4. \A d \in Callers : pc'[d] \in {"trip", "close", "reopen"} => pc'[d] = pc[d]
  BY <1>2 DEF Locked, Deciding
<1>5. DecisionStillValid'
  BY <1>4 DEF DecisionStillValid
<1>. QED  BY <1>3, <1>5

\* A report that takes the lock: nobody else holds it, and the decision is
\* taken on the buckets it leaves.
LEMMA ReportStep ==
  ASSUME DecisionInv, TypeOK', NEW c \in Callers, NEW condition \in BOOLEAN,
         NEW decision \in Deciding,
         mu = NoCaller, Decide(c, decision, condition),
         condition => \/ decision = "trip" /\ shouldOpen(buckets')
                      \/ decision = "close" /\ shouldClose(buckets'[bucketIdx'])
                      \/ decision = "reopen" /\ buckets'[bucketIdx'].failures > 0
  PROVE  DecisionInv'
<1>. USE DEF DecisionInv, Decide, Goto, TypeOK, Locked, Deciding, Finishing
<1>1. \A d \in Callers : pc[d] \notin Locked
  BY DEF LockDiscipline
<1>2. \A d \in Callers \ {c} : pc'[d] = pc[d]
  OBVIOUS
<1>3. CASE condition
  <2>1. pc'[c] = decision /\ mu' = c
    BY <1>3
  <2>2. LockDiscipline'
    BY <2>1, <1>1, <1>2 DEF LockDiscipline
  <2>3. DecisionStillValid'
    BY <2>1, <1>1, <1>2, <1>3 DEF DecisionStillValid
  <2>. QED  BY <2>2, <2>3
<1>4. CASE ~ condition
  <2>1. pc'[c] = "idle" /\ mu' = NoCaller
    BY <1>4
  <2>2. LockDiscipline'
    BY <2>1, <1>1, <1>2 DEF LockDiscipline
  <2>3. DecisionStillValid'
    BY <2>1, <1>1, <1>2 DEF DecisionStillValid
  <2>. QED  BY <2>2, <2>3
<1>. QED  BY <1>3, <1>4

LEMMA OnSuccessStep ==
  ASSUME DecisionInv, TypeOK', NEW c \in Callers, OnSuccess(c)
  PROVE  DecisionInv'
<1>1. (state = "HalfOpen" /\ shouldClose(buckets'[bucketIdx'])) \in BOOLEAN
  BY DEF shouldClose
<1>. QED  BY <1>1, ReportStep DEF OnSuccess, Deciding

LEMMA OnFailureStep ==
  ASSUME DecisionInv, TypeOK', NEW c \in Callers, OnFailure(c)
  PROVE  DecisionInv'
<1>1. buckets'[bucketIdx'].failures > 0
  <2>1. Record(FALSE)
    BY DEF OnFailure
  <2>2. targetIdx \in BucketIds /\ alignBucket \in [BucketIds -> Bucket]
    BY TargetIdxType, AlignBucketType DEF DecisionInv
  <2>3. buckets'[bucketIdx'] = Counted(alignBucket[targetIdx], FALSE)
    BY <2>1, <2>2 DEF Record
  <2>4. alignBucket[targetIdx].failures \in Nat
    BY <2>2 DEF Bucket
  <2>. QED  BY <2>3, <2>4 DEF Counted
<1>2. CASE state = "HalfOpen"
  BY <1>1, <1>2, ReportStep DEF OnFailure, Deciding
<1>3. CASE state # "HalfOpen"
  <2>1. shouldOpen(buckets') \in BOOLEAN
    BY DEF shouldOpen
  <2>. QED  BY <1>3, <2>1, ReportStep DEF OnFailure, Deciding
<1>. QED  BY <1>2, <1>3

\* The steps of the caller that has the lock, or takes it in Reset.
LEMMA HolderStep ==
  ASSUME DecisionInv, TypeOK', NEW c \in Callers, StoreState(c) \/ Finish(c) \/ Reset(c)
  PROVE  DecisionInv'
<1>. USE DEF DecisionInv, Goto, TypeOK, Locked, Deciding, Finishing
<1>1. \A d \in Callers \ {c} : pc[d] \notin Locked /\ pc'[d] = pc[d]
  BY DEF LockDiscipline, StoreState, Finish, Reset
<1>2. pc'[c] \notin Deciding /\ (pc'[c] \in Locked <=> mu' = c) /\ mu' \in {c, NoCaller}
  BY DEF LockDiscipline, StoreState, Finish, Reset
<1>3. LockDiscipline'
  BY <1>1, <1>2 DEF LockDiscipline
<1>4. DecisionStillValid'
  BY <1>1, <1>2 DEF DecisionStillValid
<1>. QED  BY <1>3, <1>4

LEMMA DecisionInvariant == Spec => []DecisionInv
<1>1. Init => DecisionInv
  BY DEF Init, DecisionInv, TypeOK, LockDiscipline, DecisionStillValid, BucketIds,
         Bucket, EmptyBucket, Window, States, Points, Locked, Deciding, Finishing
<1>2. DecisionInv /\ TypeOK' /\ [Next]_vars => DecisionInv'
  <2>. SUFFICES ASSUME DecisionInv, TypeOK', [Next]_vars PROVE DecisionInv'
    OBVIOUS
  <2>. USE DEF Points, InCall, Locked, Deciding, Finishing
  <2>1. CASE Tick
    BY <2>1 DEF Tick, DecisionInv, LockDiscipline, DecisionStillValid
  <2>2. ASSUME NEW c \in Callers, AllowLoadState(c) PROVE DecisionInv'
    BY <2>2, UnlockedStep DEF AllowLoadState, sharedVars
  <2>3. ASSUME NEW c \in Callers, AllowReadOpenedAt(c) PROVE DecisionInv'
    BY <2>3, UnlockedStep DEF AllowReadOpenedAt, sharedVars
  <2>4. ASSUME NEW c \in Callers, AllowAsleep(c) PROVE DecisionInv'
    BY <2>4, UnlockedStep DEF AllowAsleep, sharedVars
  <2>5. ASSUME NEW c \in Callers, AllowStoreHalfOpen(c) PROVE DecisionInv'
    BY <2>5, UnlockedStep DEF AllowStoreHalfOpen
  <2>6. ASSUME NEW c \in Callers, AllowAddTicket(c) PROVE DecisionInv'
    BY <2>6, UnlockedStep DEF AllowAddTicket
  <2>7. ASSUME NEW c \in Callers, AllowUndoTicket(c) PROVE DecisionInv'
    BY <2>7, UnlockedStep DEF AllowUndoTicket
  <2>8. ASSUME NEW c \in Callers, OnSuccess(c) PROVE DecisionInv'
    BY <2>8, OnSuccessStep
  <2>9. ASSUME NEW c \in Callers, OnFailure(c) PROVE DecisionInv'
    BY <2>9, OnFailureStep
  <2>10. ASSUME NEW c \in Callers, StoreState(c) \/ Finish(c) \/ Reset(c) PROVE DecisionInv'
    BY <2>10, HolderStep
  <2>11. ASSUME NEW c \in Callers, CallAbandoned(c) PROVE DecisionInv'
    BY <2>11, UnlockedStep DEF CallAbandoned, sharedVars
  <2>12. CASE UNCHANGED vars
    BY <2>12 DEF vars, DecisionInv, LockDiscipline, DecisionStillValid
  <2>. QED
    BY <2>1, <2>2, <2>3, <2>4, <2>5, <2>6, <2>7, <2>8, <2>9, <2>10, <2>11, <2>12
    DEF Next, Allow, Report
<1>. QED  BY <1>1, <1>2, TypeCorrect, PTL DEF Spec

\* cb.mu excludes: whatever OnSuccess or OnFailure decided from the buckets is
\* still true of the buckets when it stores the new state.
THEOREM DecisionsStayValid == Spec => []DecisionStillValid
<1>1. DecisionInv => DecisionStillValid
  BY DEF DecisionInv
<1>. QED  BY <1>1, DecisionInvariant, PTL

\* cb.mu is held by exactly the caller that is between two of its atomic
\* operations.
THEOREM LockIsDisciplined == Spec => []LockDiscipline
<1>1. DecisionInv => LockDiscipline
  BY DEF DecisionInv
<1>. QED  BY <1>1, DecisionInvariant, PTL

-----------------------------------------------------------------------------
(***************************************************************************)
(* A goroutine that has the breaker to itself.  Where it is tells what the *)
(* state is, so that what it read is still true when it acts on it, and    *)
(* halfOpenCount is the probes let through and its own refused ticket.     *)
(***************************************************************************)
AloneInv(c) ==
  /\ pc[c] \in {"readOpenedAt", "since", "finishOpen"} => state = "Open"
  /\ pc[c] \in {"calling", "trip", "finishClosed"} => state = "Closed"
  /\ pc[c] \in {"addTicket", "undoTicket", "probing", "close", "reopen"} => state = "HalfOpen"
  /\ pc[c] = "since" => age[c] = openAge
  /\ halfOpenCount = granted + (IF pc[c] = "undoTicket" THEN 1 ELSE 0)
  /\ state = "Open" /\ pc[c] # "finishOpen" => granted = 0

\* Where the goroutine is after a step of it.
LEMMA Moves ==
  ASSUME TypeOK, NEW c \in Callers, NEW point, Goto(c, point)
  PROVE  pc'[c] = point
BY DEF Goto, TypeOK

\* A step of it keeps what it knows.
LEMMA AloneStep ==
  ASSUME NEW one, Callers = {one}, TypeOK, TypeOK', AloneInv(one), [Next]_vars
  PROVE  AloneInv(one)'
<1>. USE DEF AloneInv
<1>0. one \in Callers /\ granted \in Nat /\ halfOpenCount \in Int /\ pc[one] \in Points /\ state \in States
  BY DEF TypeOK
<1>1. CASE Tick
  BY <1>0, <1>1 DEF Tick, ghosts, TypeOK
<1>2. CASE AllowLoadState(one)
  <2>1. /\ \/ state = "Closed" /\ pc'[one] = "calling"
           \/ state = "Open" /\ pc'[one] = "readOpenedAt"
           \/ state = "HalfOpen" /\ pc'[one] \in {"addTicket", "probing"}
        /\ pc[one] = "idle"
        /\ UNCHANGED <<state, halfOpenCount, openAge, granted>>
    BY <1>0, <1>2, Moves DEF AllowLoadState, sharedVars, ghosts
  <2>. QED  BY <1>0, <2>1
<1>3. CASE AllowReadOpenedAt(one)
  <2>1. pc'[one] = "since" /\ pc[one] = "readOpenedAt" /\ age'[one] = openAge
    BY <1>0, <1>3, Moves DEF AllowReadOpenedAt, TypeOK
  <2>. QED  BY <1>0, <1>3, <2>1 DEF AllowReadOpenedAt, sharedVars, ghosts
<1>4. CASE AllowAsleep(one) \/ CallAbandoned(one)
  <2>1. pc'[one] = "idle" /\ pc[one] \notin {"undoTicket", "finishOpen"}
        /\ UNCHANGED <<state, halfOpenCount, granted>>
    BY <1>0, <1>4, Moves DEF AllowAsleep, CallAbandoned, InCall, sharedVars, ghosts
  <2>. QED  BY <1>0, <2>1
<1>5. CASE AllowStoreHalfOpen(one)
  <2>1. /\ pc'[one] \in {"addTicket", "probing"} /\ pc[one] = "since" /\ state' = "HalfOpen"
        /\ UNCHANGED <<halfOpenCount, granted>>
    BY <1>0, <1>5, Moves DEF AllowStoreHalfOpen, ghosts
  <2>. QED  BY <1>0, <2>1
<1>6. CASE AllowAddTicket(one)
  <2>1. /\ pc[one] = "addTicket" /\ halfOpenCount' = halfOpenCount + 1 /\ state' = state
        /\ \/ granted' = granted + 1 /\ pc'[one] = "probing"
           \/ granted' = granted /\ pc'[one] = "undoTicket"
    BY <1>0, <1>6, Moves DEF AllowAddTicket
  <2>. QED  BY <1>0, <2>1
<1>7. CASE AllowUndoTicket(one)
  <2>1. /\ pc[one] = "undoTicket" /\ pc'[one] = "idle" /\ halfOpenCount' = halfOpenCount - 1
        /\ UNCHANGED <<state, granted>>
    BY <1>0, <1>7, Moves DEF AllowUndoTicket
  <2>. QED  BY <1>0, <2>1
<1>8. CASE OnSuccess(one) \/ OnFailure(one)
  <2>1. /\ pc[one] \in {"calling", "probing"}
        /\ \/ pc'[one] = "idle"
           \/ pc'[one] \in {"close", "reopen"} /\ state = "HalfOpen"
           \/ pc'[one] = "trip" /\ state # "HalfOpen"
        /\ UNCHANGED <<state, halfOpenCount, granted>>
    BY <1>0, <1>8, Moves DEF OnSuccess, OnFailure, Decide, InCall, ghosts
  <2>2. state # "HalfOpen" => state = "Closed"
    BY <1>0, <2>1
  <2>. QED  BY <1>0, <2>1, <2>2
<1>9. CASE StoreState(one)
  <2>1. /\ pc[one] \in {"close", "trip", "reopen"}
        /\ \/ state' = "Closed" /\ pc'[one] = "finishClosed"
           \/ state' = "Open" /\ pc'[one] = "finishOpen"
        /\ UNCHANGED <<halfOpenCount, granted>>
    BY <1>0, <1>9, Moves DEF StoreState, ghosts
  <2>. QED  BY <1>0, <2>1
<1>10. CASE Finish(one)
  <2>1. pc'[one] = "idle" /\ halfOpenCount' = 0 /\ granted' = 0
    BY <1>0, <1>10, Moves DEF Finish
  <2>. QED  BY <2>1
<1>11. CASE Reset(one)
  <2>1. pc[one] = "idle" /\ pc'[one] = "finishClosed" /\ state' = "Closed" /\ UNCHANGED <<halfOpenCount, granted>>
    BY <1>0, <1>11, Moves DEF Reset, ghosts
  <2>. QED  BY <1>0, <2>1
<1>12. CASE UNCHANGED vars
  BY <1>12 DEF vars
<1>. QED
  BY <1>1, <1>2, <1>3, <1>4, <1>5, <1>6, <1>7, <1>8, <1>9, <1>10, <1>11, <1>12 DEF Next, Allow, Report

\* Every step of a breaker used by one goroutine is a step of module Breaker, or none that
\* it can see.
LEMMA AloneRefines ==
  ASSUME NEW one, Callers = {one}, TypeOK, TypeOK', AloneInv(one), AloneInv(one)', [Next]_vars
  PROVE  [Abstract!Next]_Abstract!vars
<1>. DEFINE Slept == IF pc[one] = "finishOpen" THEN 0 ELSE openAge
            Probes == IF state = "HalfOpen" THEN granted ELSE 0
<1>0. /\ one \in Callers /\ granted \in Nat /\ halfOpenCount \in Int /\ openAge \in 0 .. SleepWindow + 1
      /\ pc[one] \in Points /\ state \in States
  BY DEF TypeOK
<1>1. /\ (IF \E c \in Callers : pc[c] = "finishOpen" THEN 0 ELSE openAge) = Slept
      /\ (IF \E c \in Callers : pc'[c] = "finishOpen" THEN 0 ELSE openAge') = Slept'
  OBVIOUS
<1>2. CASE Tick
  <2>1. pc' = pc /\ state' = state /\ granted' = granted /\ openAge' = Older(openAge)
    BY <1>2 DEF Tick, ghosts
  <2>2. CASE pc[one] = "finishOpen" \/ openAge > SleepWindow
    <3>1. UNCHANGED <<state, Slept, Probes>>
      BY <1>0, <2>1, <2>2 DEF Older
    <3>. QED  BY <1>1, <3>1 DEF Abstract!vars
  <2>3. CASE ~ (pc[one] = "finishOpen" \/ openAge > SleepWindow)
    <3>1. Slept <= SleepWindow /\ Slept' = Slept + 1 /\ UNCHANGED <<state, Probes>>
      BY <1>0, <2>1, <2>3 DEF Older
    <3>. QED  BY <1>1, <3>1 DEF Abstract!Next, Abstract!Tick
  <2>. QED  BY <2>2, <2>3
<1>3. ASSUME UNCHANGED <<state, openAge, granted>>, pc[one] # "finishOpen", pc'[one] # "finishOpen"
      PROVE  [Abstract!Next]_Abstract!vars
  <2>1. UNCHANGED <<state, Slept, Probes>>
    BY <1>3
  <2>. QED  BY <1>1, <2>1 DEF Abstract!vars
<1>4. CASE \/ AllowLoadState(one) \/ AllowReadOpenedAt(one) \/ AllowAsleep(one)
           \/ CallAbandoned(one) \/ AllowUndoTicket(one) \/ OnSuccess(one) \/ OnFailure(one)
  <2>1. pc[one] # "finishOpen" /\ pc'[one] # "finishOpen"
    BY <1>0, <1>4, Moves DEF AllowLoadState, AllowReadOpenedAt, AllowAsleep, CallAbandoned,
       AllowUndoTicket, OnSuccess, OnFailure, Decide, InCall
  <2>2. UNCHANGED <<state, openAge, granted>>
    BY <1>4 DEF AllowLoadState, AllowReadOpenedAt, AllowAsleep, CallAbandoned,
       AllowUndoTicket, OnSuccess, OnFailure, sharedVars, ghosts
  <2>. QED  BY <1>3, <2>1, <2>2
<1>5. CASE AllowStoreHalfOpen(one)
  <2>1. /\ pc[one] = "since" /\ age[one] > SleepWindow /\ state' = "HalfOpen"
        /\ pc'[one] # "finishOpen" /\ UNCHANGED <<granted, openAge>>
    BY <1>0, <1>5, Moves DEF AllowStoreHalfOpen, ghosts
  <2>2. state = "Open" /\ granted = 0 /\ age[one] = openAge
    BY <2>1 DEF AloneInv
  <2>3. Slept > SleepWindow /\ UNCHANGED <<Slept, Probes>>
    BY <2>1, <2>2
  <2>. QED  BY <1>1, <2>1, <2>2, <2>3 DEF Abstract!Next, Abstract!WakeUp
<1>6. CASE AllowAddTicket(one)
  <2>1. /\ pc[one] = "addTicket" /\ pc'[one] # "finishOpen" /\ UNCHANGED <<state, openAge>>
        /\ \/ granted' = granted
           \/ granted' = granted + 1 /\ halfOpenCount + 1 <= MaxConcurrent
    BY <1>0, <1>6, Moves DEF AllowAddTicket
  <2>2. state = "HalfOpen" /\ halfOpenCount = granted
    BY <1>0, <2>1 DEF AloneInv
  <2>3. CASE granted' = granted
    BY <1>3, <2>1, <2>3
  <2>4. CASE granted' = granted + 1 /\ halfOpenCount + 1 <= MaxConcurrent
    <3>1. Probes < MaxConcurrent /\ Probes' = Probes + 1 /\ UNCHANGED Slept
      BY <1>0, <2>1, <2>2, <2>4
    <3>. QED  BY <1>1, <2>1, <2>2, <3>1 DEF Abstract!Next, Abstract!Probe
  <2>. QED  BY <2>1, <2>3, <2>4
<1>7. CASE StoreState(one)
  <2>1. /\ pc[one] \in {"close", "trip", "reopen"} /\ UNCHANGED openAge
        /\ \/ state' = "Closed" /\ pc'[one] = "finishClosed"
           \/ state' = "Open" /\ pc'[one] = "finishOpen"
    BY <1>0, <1>7, Moves DEF StoreState
  <2>2. state \in {"Closed", "HalfOpen"} /\ Probes' = 0
    BY <2>1 DEF AloneInv
  <2>3. CASE state' = "Closed" /\ pc'[one] = "finishClosed"
    <3>1. UNCHANGED Slept
      BY <2>1, <2>3
    <3>. QED  BY <1>1, <2>2, <2>3, <3>1 DEF Abstract!Next, Abstract!CloseDown
  <2>4. CASE state' = "Open" /\ pc'[one] = "finishOpen"
    <3>1. Slept' = 0
      BY <2>4
    <3>. QED  BY <1>1, <2>2, <2>4, <3>1 DEF Abstract!Next, Abstract!OpenUp
  <2>. QED  BY <2>1, <2>3, <2>4
<1>8. CASE Finish(one)
  <2>1. /\ pc[one] \in {"finishOpen", "finishClosed"} /\ pc'[one] = "idle" /\ UNCHANGED state
        /\ openAge' = IF pc[one] = "finishOpen" THEN 0 ELSE openAge
    BY <1>0, <1>8, Moves DEF Finish, Finishing
  <2>2. state # "HalfOpen"
    BY <2>1 DEF AloneInv
  <2>3. UNCHANGED <<state, Slept, Probes>>
    BY <2>1, <2>2
  <2>. QED  BY <1>1, <2>3 DEF Abstract!vars
<1>9. CASE Reset(one)
  <2>1. /\ pc[one] = "idle" /\ pc'[one] = "finishClosed" /\ state' = "Closed" /\ UNCHANGED openAge
    BY <1>0, <1>9, Moves DEF Reset
  <2>2. Probes' = 0 /\ UNCHANGED Slept
    BY <2>1
  <2>. QED  BY <1>1, <2>1, <2>2 DEF Abstract!Next, Abstract!CloseDown
<1>10. CASE UNCHANGED vars
  <2>1. UNCHANGED <<state, Slept, Probes>>
    BY <1>10 DEF vars
  <2>. QED  BY <1>1, <2>1 DEF Abstract!vars
<1>. QED  BY <1>2, <1>4, <1>5, <1>6, <1>7, <1>8, <1>9, <1>10 DEF Next, Allow, Report

\* A breaker that one goroutine uses is the three-state cycle of circuitbreaker.go's package
\* comment: it opens only on what a call saw, sleeps out its window, and lets through at most
\* MaxConcurrent probes before it is closed or open again (circuitbreaker.go:1).
THEOREM AloneItKeepsItsPromises ==
  ASSUME NEW one, Callers = {one}
  PROVE  Spec => KeepsPromises
<1>1. Init => AloneInv(one) /\ Abstract!Init
  BY DEF Init, AloneInv, Abstract!Init
<1>2. TypeOK /\ TypeOK' /\ AloneInv(one) /\ [Next]_vars => AloneInv(one)'
  BY AloneStep
<1>3. TypeOK /\ TypeOK' /\ AloneInv(one) /\ AloneInv(one)' /\ [Next]_vars
        => [Abstract!Next]_Abstract!vars
  BY AloneRefines
<1>. QED  BY <1>1, <1>2, <1>3, TypeCorrect, PTL DEF Spec, KeepsPromises, Abstract!Spec
=============================================================================
