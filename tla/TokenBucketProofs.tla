-------------------------- MODULE TokenBucketProofs --------------------------
(***************************************************************************)
(* Theorems about TokenBucket, for any number of callers, any rate and     *)
(* burst, and any clock.                                                   *)
(***************************************************************************)
EXTENDS TokenBucket, FiniteSetTheorems, TLAPS

USE BucketAssumption

LEMMA BucketSize == Burst \in Nat /\ Rate \in Nat \ {0}
BY DEF Burst, Rate

\* Every variable keeps its type.
THEOREM TypeCorrect == BucketSpec => []TypeOK
<1>. USE BucketSize DEF Points, Refilling
<1>1. BucketInit => TypeOK
  BY DEF BucketInit, TypeOK
<1>2. TypeOK /\ [BucketNext]_bucketVars => TypeOK'
  <2>. SUFFICES ASSUME TypeOK, [BucketNext]_bucketVars PROVE TypeOK'
    OBVIOUS
  <2>. USE DEF TypeOK, Goto, Consume, Return, locals
  <2>1. CASE Tick
    BY <2>1 DEF Tick
  <2>2. ASSUME NEW c \in Callers, ReadClock(c) PROVE TypeOK'
    BY <2>2 DEF ReadClock
  <2>3. ASSUME NEW c \in Callers, LoadLast(c) PROVE TypeOK'
    BY <2>3 DEF LoadLast
  <2>4. ASSUME NEW c \in Callers, CasRefill(c) PROVE TypeOK'
    BY <2>4 DEF CasRefill
  <2>5. ASSUME NEW c \in Callers, LoadTokens(c) PROVE TypeOK'
    <3>1. AtMost(Burst, tokens + Rate * (readNow[c] - last[c])) \in Int
      BY DEF AtMost
    <3>. QED  BY <2>5, <3>1 DEF LoadTokens
  <2>6. ASSUME NEW c \in Callers, StoreTokens(c) PROVE TypeOK'
    BY <2>6 DEF StoreTokens
  <2>7. ASSUME NEW c \in Callers, LoadCurrent(c) PROVE TypeOK'
    BY <2>7 DEF LoadCurrent
  <2>8. ASSUME NEW c \in Callers, CasConsume(c) PROVE TypeOK'
    BY <2>8 DEF CasConsume
  <2>9. CASE UNCHANGED bucketVars
    BY <2>9 DEF bucketVars
  <2>. QED
    BY <2>1, <2>2, <2>3, <2>4, <2>5, <2>6, <2>7, <2>8, <2>9 DEF BucketNext, AllowN
<1>. QED  BY <1>1, <1>2, PTL DEF BucketSpec

-----------------------------------------------------------------------------
(***************************************************************************)
(* What a caller knows at each point.  A refill moves lastRefill forward   *)
(* and stores at most the burst; a consumption takes no more than it saw.  *)
(***************************************************************************)
Knows(c) ==
  /\ point[c] \in {"casRefill"} \cup Refilling => last[c] < readNow[c]
  /\ point[c] = "storeTokens" => seen[c] \in 0 .. Burst
  /\ point[c] = "casConsume" => seen[c] \in need[c] .. Burst

BurstInv == TypeOK /\ TokensWithinBurst /\ \A c \in Callers : Knows(c)

LEMMA BurstInvariant == BucketSpec => []BurstInv
<1>. USE BucketSize DEF Points, Refilling
<1>1. BucketInit => BurstInv
  BY DEF BucketInit, BurstInv, TypeOK, TokensWithinBurst, Knows
<1>2. BurstInv /\ TypeOK' /\ [BucketNext]_bucketVars => BurstInv'
  <2>. SUFFICES ASSUME BurstInv, TypeOK', [BucketNext]_bucketVars PROVE BurstInv'
    OBVIOUS
  <2>. USE DEF BurstInv, TypeOK, TokensWithinBurst, Knows, Goto, Consume, Return, locals
  <2>1. CASE Tick
    BY <2>1 DEF Tick
  <2>2. ASSUME NEW c \in Callers, ReadClock(c) PROVE BurstInv'
    BY <2>2 DEF ReadClock
  <2>3. ASSUME NEW c \in Callers, LoadLast(c) PROVE BurstInv'
    BY <2>3 DEF LoadLast
  <2>4. ASSUME NEW c \in Callers, CasRefill(c) PROVE BurstInv'
    BY <2>4 DEF CasRefill
  <2>5. ASSUME NEW c \in Callers, LoadTokens(c) PROVE BurstInv'
    <3>1. Rate * (readNow[c] - last[c]) \in Nat
      BY <2>5 DEF LoadTokens
    <3>2. AtMost(Burst, tokens + Rate * (readNow[c] - last[c])) \in 0 .. Burst
      BY <3>1 DEF AtMost
    <3>. QED  BY <2>5, <3>2 DEF LoadTokens
  <2>6. ASSUME NEW c \in Callers, StoreTokens(c) PROVE BurstInv'
    BY <2>6 DEF StoreTokens
  <2>7. ASSUME NEW c \in Callers, LoadCurrent(c) PROVE BurstInv'
    BY <2>7 DEF LoadCurrent
  <2>8. ASSUME NEW c \in Callers, CasConsume(c) PROVE BurstInv'
    BY <2>8 DEF CasConsume
  <2>9. CASE UNCHANGED bucketVars
    BY <2>9 DEF bucketVars
  <2>. QED
    BY <2>1, <2>2, <2>3, <2>4, <2>5, <2>6, <2>7, <2>8, <2>9 DEF BucketNext, AllowN
<1>. QED  BY <1>1, <1>2, TypeCorrect, PTL DEF BucketSpec

\* The unsigned count of tokens never wraps below zero nor exceeds the burst.
THEOREM TokensStayWithinBurst == BucketSpec => []TokensWithinBurst
<1>1. BurstInv => TokensWithinBurst
  BY DEF BurstInv
<1>. QED  BY <1>1, BurstInvariant, PTL

\* No step moves lastRefill back.
THEOREM RefillClockNeverGoesBack == BucketSpec => RefillClockForward
<1>1. BurstInv /\ [BucketNext]_bucketVars => [lastRefill' >= lastRefill]_lastRefill
  <2>. SUFFICES ASSUME BurstInv, [BucketNext]_bucketVars PROVE lastRefill' >= lastRefill
    OBVIOUS
  <2>. USE DEF BurstInv, TypeOK
  <2>1. ASSUME NEW c \in Callers, CasRefill(c) PROVE lastRefill' >= lastRefill
    BY <2>1 DEF CasRefill, Knows
  <2>2. ASSUME NEW c \in Callers, AllowN(c), ~ CasRefill(c) PROVE lastRefill' = lastRefill
    BY <2>2 DEF AllowN, ReadClock, LoadLast, LoadTokens, StoreTokens, LoadCurrent, CasConsume
  <2>. QED  BY <2>1, <2>2 DEF BucketNext, Tick, bucketVars
<1>. QED  BY <1>1, BurstInvariant, PTL DEF BucketSpec, RefillClockForward

-----------------------------------------------------------------------------
(***************************************************************************)
(* Over-issue.  tokens + issued grows only when a refill is stored, by at  *)
(* most a burst; a refill under way has already moved lastRefill.          *)
(***************************************************************************)
Pending == {c \in Callers : point[c] \in Refilling}

IssueInv ==
  /\ BurstInv
  /\ Cardinality(Pending) <= lastRefill
  /\ issued + tokens <= Burst * (1 + lastRefill - Cardinality(Pending))

LEMMA PendingCardinality ==
  ASSUME NEW S \in SUBSET Callers
  PROVE  /\ Cardinality(S) \in Nat
         /\ \A c \in Callers \ S : Cardinality(S \cup {c}) = Cardinality(S) + 1
         /\ \A c \in S : Cardinality(S \ {c}) = Cardinality(S) - 1
<1>1. IsFiniteSet(S)
  BY FS_Subset
<1>. QED  BY <1>1, FS_CardinalityType, FS_AddElement, FS_RemoveElement

\* A larger allowance of refills is a larger allowance of tokens.
LEMMA BurstTimes ==
  ASSUME NEW m \in Nat, NEW n \in Nat, m <= n
  PROVE  /\ Burst * m \in Nat
         /\ Burst * m <= Burst * n
         /\ Burst * (m + 1) = Burst * m + Burst
BY BucketSize

LEMMA IssueInvariant == BucketSpec => []IssueInv
<1>. USE BucketSize DEF Points, Refilling
<1>1. BucketInit => IssueInv
  <2>. SUFFICES ASSUME BucketInit PROVE IssueInv
    OBVIOUS
  <2>1. BurstInv
    BY DEF BucketInit, BurstInv, TypeOK, TokensWithinBurst, Knows
  <2>2. Pending = {}
    BY DEF BucketInit, Pending
  <2>. QED  BY <2>1, <2>2, FS_EmptySet DEF BucketInit, IssueInv
<1>2. IssueInv /\ BurstInv' /\ [BucketNext]_bucketVars => IssueInv'
  <2>. SUFFICES ASSUME IssueInv, BurstInv', [BucketNext]_bucketVars PROVE IssueInv'
    OBVIOUS
  <2>. USE DEF IssueInv, BurstInv, TypeOK, TokensWithinBurst, Goto, Consume, Return, locals
  <2>0. Pending \in SUBSET Callers /\ Cardinality(Pending) \in Nat
    BY PendingCardinality DEF Pending
  <2>1. CASE UNCHANGED <<lastRefill, issued, tokens>> /\ Pending' = Pending
    BY <2>1
  <2>2. CASE Tick \/ UNCHANGED bucketVars
    BY <2>1, <2>2 DEF Tick, bucketVars, Pending
  <2>3. ASSUME NEW c \in Callers, ReadClock(c) PROVE IssueInv'
    BY <2>1, <2>3 DEF ReadClock, Pending
  <2>4. ASSUME NEW c \in Callers, LoadLast(c) PROVE IssueInv'
    BY <2>1, <2>4 DEF LoadLast, Pending
  <2>5. ASSUME NEW c \in Callers, CasRefill(c) PROVE IssueInv'
    <3>1. CASE lastRefill = last[c]
      <4>1. Pending' = Pending \cup {c} /\ c \notin Pending
        BY <2>5, <3>1 DEF CasRefill, Pending
      <4>2. Cardinality(Pending') = Cardinality(Pending) + 1
        BY <4>1, <2>0, PendingCardinality
      <4>3. lastRefill' >= lastRefill + 1
        BY <2>5, <3>1 DEF CasRefill, Knows
      <4>4. UNCHANGED <<issued, tokens>>
        BY <2>5 DEF CasRefill
      <4>5. Burst * (1 + lastRefill - Cardinality(Pending))
              <= Burst * (1 + lastRefill' - Cardinality(Pending'))
        BY <4>2, <4>3, <2>0, BurstTimes
      <4>6. Cardinality(Pending') <= lastRefill'
        BY <4>2, <4>3, <2>0
      <4>7. Burst * (1 + lastRefill - Cardinality(Pending)) \in Int
            /\ Burst * (1 + lastRefill' - Cardinality(Pending')) \in Int
        BY <4>2, <4>6, <2>0, BurstTimes
      <4>. QED  BY <4>4, <4>5, <4>6, <4>7
    <3>2. CASE lastRefill # last[c]
      BY <2>1, <2>5, <3>2 DEF CasRefill, Pending
    <3>. QED  BY <3>1, <3>2
  <2>6. ASSUME NEW c \in Callers, LoadTokens(c) PROVE IssueInv'
    BY <2>1, <2>6 DEF LoadTokens, Pending
  <2>7. ASSUME NEW c \in Callers, StoreTokens(c) PROVE IssueInv'
    <3>1. Pending' = Pending \ {c} /\ c \in Pending
      BY <2>7 DEF StoreTokens, Pending
    <3>2. Cardinality(Pending') = Cardinality(Pending) - 1
      BY <3>1, <2>0, PendingCardinality
    <3>3. tokens' <= Burst /\ tokens' \in Nat /\ UNCHANGED <<issued, lastRefill>>
      BY <2>7 DEF StoreTokens
    <3>4. /\ Burst * (1 + lastRefill - Cardinality(Pending)) \in Nat
          /\ Burst * (1 + lastRefill' - Cardinality(Pending'))
               = Burst * (1 + lastRefill - Cardinality(Pending)) + Burst
      <4>1. 1 + lastRefill - Cardinality(Pending) \in Nat
        BY <2>0
      <4>2. 1 + lastRefill' - Cardinality(Pending')
              = (1 + lastRefill - Cardinality(Pending)) + 1
        BY <3>2, <3>3, <2>0
      <4>. QED  BY <4>1, <4>2, BurstTimes
    <3>. QED  BY <3>2, <3>3, <3>4, <2>0
  <2>8. ASSUME NEW c \in Callers, LoadCurrent(c) PROVE IssueInv'
    BY <2>1, <2>8 DEF LoadCurrent, Pending
  <2>9. ASSUME NEW c \in Callers, CasConsume(c) PROVE IssueInv'
    <3>1. Pending' = Pending /\ lastRefill' = lastRefill
      BY <2>9 DEF CasConsume, Pending
    <3>2. issued' + tokens' = issued + tokens
      <4>1. CASE tokens = seen[c]
        <5>1. tokens' = tokens - need[c] /\ issued' = issued + need[c] /\ need[c] \in Nat
          BY <2>9, <4>1 DEF CasConsume, BurstInv, TypeOK
        <5>. QED  BY <5>1 DEF BurstInv, TypeOK
      <4>2. CASE tokens # seen[c]
        BY <2>9, <4>2 DEF CasConsume
      <4>. QED  BY <4>1, <4>2
    <3>. QED  BY <3>1, <3>2
  <2>. QED
    BY <2>2, <2>3, <2>4, <2>5, <2>6, <2>7, <2>8, <2>9 DEF BucketNext, AllowN
<1>. QED  BY <1>1, <1>2, BurstInvariant, PTL DEF BucketSpec

\* The tokens handed out never exceed a burst, and another one per tick that
\* lastRefill has moved.
THEOREM IssuesAreBounded == BucketSpec => []IssueBounded
<1>1. IssueInv => IssueBounded
  <2>. SUFFICES ASSUME IssueInv PROVE IssueBounded
    OBVIOUS
  <2>1. Pending \in SUBSET Callers /\ Cardinality(Pending) \in Nat
    BY PendingCardinality DEF Pending
  <2>2. Burst * (1 + lastRefill - Cardinality(Pending)) <= Burst * (1 + lastRefill)
    BY <2>1, BurstTimes DEF IssueInv, BurstInv, TypeOK
  <2>3. /\ Burst * (1 + lastRefill - Cardinality(Pending)) \in Nat
        /\ Burst * (1 + lastRefill) \in Nat
    BY <2>1, BurstTimes DEF IssueInv, BurstInv, TypeOK
  <2>. QED  BY <2>2, <2>3 DEF IssueInv, BurstInv, TypeOK, IssueBounded
<1>. QED  BY <1>1, IssueInvariant, PTL
=============================================================================
