----------------------------- MODULE TokenBucket -----------------------------
(***************************************************************************)
(* core/ratelimit/ratelimit.go: the token bucket every goroutine of a      *)
(* server or gateway draws from, without a lock.                           *)
(*                                                                         *)
(* An action is one atomic operation of AllowN, Available or refill on     *)
(* lastRefill or tokens.  A token is the unit; the code's micro-tokens and *)
(* floating point are abstracted: a tick adds a whole number of tokens.    *)
(***************************************************************************)
EXTENDS Integers, FiniteSets

CONSTANTS
  Callers,            \* goroutines that share the bucket
  RateArg, BurstArg,  \* the arguments of New (rate in tokens per tick)
  Needs,              \* the n of the calls AllowN(n)
  MaxTime             \* bound: the clock stops here

\* A negative rate without a burst is left out: New converts it to a uint64, and what
\* that yields is up to the machine.
ASSUME BucketAssumption ==
  /\ IsFiniteSet(Callers)
  /\ RateArg \in Int /\ BurstArg \in Int
  /\ RateArg >= 0 \/ BurstArg > 0
  /\ Needs \subseteq Nat
  /\ MaxTime \in Nat

\* New: without a positive burst it is the rate as given, without a positive rate that is 1.
Burst == IF BurstArg <= 0 THEN RateArg ELSE BurstArg
Rate == IF RateArg <= 0 THEN 1 ELSE RateArg

VARIABLES
  tokens,      \* tb.tokens (atomic)
  lastRefill,  \* tb.lastRefill (atomic)
  now,         \* the clock
  point,       \* where each caller is
  need,        \* n, or 0 in Available
  readNow,     \* local now
  last,        \* local last
  seen,        \* local newTokens, then local current
  issued       \* ghost: tokens handed out so far

locals == <<need, readNow, last, seen>>
bucketVars == <<tokens, lastRefill, now, point, need, readNow, last, seen, issued>>

-----------------------------------------------------------------------------
Refilling == {"loadTokens", "storeTokens"}
Points == {"idle", "loadLast", "casRefill", "loadCurrent", "casConsume"} \cup Refilling

AtMost(limit, n) == IF n > limit THEN limit ELSE n

BucketInit ==
  /\ tokens = Burst
  /\ lastRefill = 0
  /\ now = 0
  /\ point = [c \in Callers |-> "idle"]
  /\ need = [c \in Callers |-> 0]
  /\ readNow = [c \in Callers |-> 0]
  /\ last = [c \in Callers |-> 0]
  /\ seen = [c \in Callers |-> 0]
  /\ issued = 0

Goto(c, place) == point' = [point EXCEPT ![c] = place]

\* On to the loop that consumes; locals that are not read again are forgotten.
Consume(c) ==
  /\ Goto(c, "loadCurrent")
  /\ readNow' = [readNow EXCEPT ![c] = 0]
  /\ last' = [last EXCEPT ![c] = 0]
  /\ seen' = [seen EXCEPT ![c] = 0]
  /\ UNCHANGED need

Return(c) ==
  /\ Goto(c, "idle")
  /\ need' = [need EXCEPT ![c] = 0]
  /\ seen' = [seen EXCEPT ![c] = 0]
  /\ UNCHANGED <<readNow, last>>

Tick ==
  /\ now < MaxTime
  /\ now' = now + 1
  /\ UNCHANGED <<tokens, lastRefill, point, issued>>
  /\ UNCHANGED locals

\* now := time.Now() in AllowN(n); Available, which consumes nothing, is n = 0.
ReadClock(c) ==
  /\ point[c] = "idle"
  /\ \E n \in Needs \cup {0} : need' = [need EXCEPT ![c] = n]
  /\ readNow' = [readNow EXCEPT ![c] = now]
  /\ Goto(c, "loadLast")
  /\ UNCHANGED <<tokens, lastRefill, now, last, seen, issued>>

\* last := Load(lastRefill); nothing is added unless the clock moved since.
LoadLast(c) ==
  /\ point[c] = "loadLast"
  /\ \/ /\ readNow[c] > lastRefill
        /\ last' = [last EXCEPT ![c] = lastRefill]
        /\ Goto(c, "casRefill")
        /\ UNCHANGED <<need, readNow, seen>>
     \/ readNow[c] <= lastRefill /\ Consume(c)
  /\ UNCHANGED <<tokens, lastRefill, now, issued>>

\* Mutation: a plain store of lastRefill, so every caller refills.
CasRefill_Store(c) ==
  /\ point[c] = "casRefill"
  /\ lastRefill' = readNow[c]
  /\ Goto(c, "loadTokens")
  /\ UNCHANGED <<tokens, now, issued>>
  /\ UNCHANGED locals

\* CompareAndSwap(lastRefill, last, now): the loser goes on without refilling.
CasRefill(c) ==
  /\ point[c] = "casRefill"
  /\ \/ /\ lastRefill = last[c]
        /\ lastRefill' = readNow[c]
        /\ Goto(c, "loadTokens")
        /\ UNCHANGED locals
     \/ /\ lastRefill # last[c]
        /\ lastRefill' = lastRefill
        /\ Consume(c)
  /\ UNCHANGED <<tokens, now, issued>>

\* Mutation: the refill is not capped at the burst.
LoadTokens_Uncapped(c) ==
  /\ point[c] = "loadTokens"
  /\ seen' = [seen EXCEPT ![c] = tokens + Rate * (readNow[c] - last[c])]
  /\ Goto(c, "storeTokens")
  /\ UNCHANGED <<tokens, lastRefill, now, need, readNow, last, issued>>

\* newTokens := min(tokensFloat() + toAdd, burst)
LoadTokens(c) ==
  /\ point[c] = "loadTokens"
  /\ seen' = [seen EXCEPT ![c] = AtMost(Burst, tokens + Rate * (readNow[c] - last[c]))]
  /\ Goto(c, "storeTokens")
  /\ UNCHANGED <<tokens, lastRefill, now, need, readNow, last, issued>>

\* setTokensFloat: a store, not a compare-and-swap.
StoreTokens(c) ==
  /\ point[c] = "storeTokens"
  /\ tokens' = seen[c]
  /\ Consume(c)
  /\ UNCHANGED <<lastRefill, now, issued>>

\* current := Load(tokens); too few: return false.
LoadCurrent(c) ==
  /\ point[c] = "loadCurrent"
  /\ \/ tokens < need[c] /\ Return(c)
     \/ /\ tokens >= need[c]
        /\ seen' = [seen EXCEPT ![c] = tokens]
        /\ Goto(c, "casConsume")
        /\ UNCHANGED <<need, readNow, last>>
  /\ UNCHANGED <<tokens, lastRefill, now, issued>>

\* CompareAndSwap(tokens, current, current - need): return true, or load again.
CasConsume(c) ==
  /\ point[c] = "casConsume"
  /\ \/ /\ tokens = seen[c]
        /\ tokens' = seen[c] - need[c]
        /\ issued' = issued + need[c]
        /\ Return(c)
     \/ /\ tokens # seen[c]
        /\ Consume(c)
        /\ UNCHANGED <<tokens, issued>>
  /\ UNCHANGED <<lastRefill, now>>

AllowN(c) ==
  \/ ReadClock(c)
  \/ LoadLast(c)
  \/ CasRefill(c)
  \/ LoadTokens(c)
  \/ StoreTokens(c)
  \/ LoadCurrent(c)
  \/ CasConsume(c)

BucketNext == Tick \/ \E c \in Callers : AllowN(c)

BucketSpec == BucketInit /\ [][BucketNext]_bucketVars

-----------------------------------------------------------------------------
(* Properties *)

\* Every variable has its type.
TypeOK ==
  /\ tokens \in Int
  /\ lastRefill \in Nat
  /\ now \in Nat
  /\ point \in [Callers -> Points]
  /\ need \in [Callers -> Nat]
  /\ readNow \in [Callers -> Nat]
  /\ last \in [Callers -> Nat]
  /\ seen \in [Callers -> Int]
  /\ issued \in Nat

\* However refills and consumptions interleave, the unsigned token count never
\* wraps below zero and never exceeds the burst.
TokensWithinBurst == tokens \in 0 .. Burst

\* lastRefill never goes back, so no stretch of time is credited twice.
RefillClockForward == [][lastRefill' >= lastRefill]_lastRefill

\* A store that overwrites a concurrent consumption hands tokens out again, but
\* at most one burst per refill, and refills are at least a tick apart.
IssueBounded == issued + tokens <= Burst * (1 + lastRefill)
=============================================================================
