------------------------------ MODULE RpcClient ------------------------------
(***************************************************************************)
(* Client.Call of core/client/client.go: one question to the breaker, then *)
(* up to Retries + 1 attempts, each reported.  Callers are goroutines that *)
(* share the client; MaxRpcs bounds the calls of a behaviour.              *)
(***************************************************************************)
EXTENDS WindowBreaker, FiniteSets

CONSTANTS Clients, Retries, MaxRpcs

VARIABLES
  cb,        \* Client.cb
  bucketNow, \* the bucket that time points at
  calling,     \* goroutine -> where it is in Call
  attempt,   \* goroutine -> attempt
  rpcs,      \* calls begun
  leaked     \* ghost: attempts sent since the breaker opened, while it is open

vars == <<cb, bucketNow, calling, attempt, rpcs, leaked>>

Init ==
  /\ cb = NewBreaker
  /\ bucketNow = 0
  /\ calling = [c \in Clients |-> "idle"]
  /\ attempt = [c \in Clients |-> 0]
  /\ rpcs = 0
  /\ leaked = 0

Goto(c, s) == calling' = [calling EXCEPT ![c] = s]

\* A call that the breaker refuses leaves no trace.
Call(c) ==
  /\ calling[c] = "idle"
  /\ rpcs < MaxRpcs
  /\ Allows(cb)
  /\ cb' = Allowed(cb)
  /\ leaked' = IF cb.state = "Open" THEN 0 ELSE leaked
  /\ rpcs' = rpcs + 1
  /\ attempt' = [attempt EXCEPT ![c] = 0]
  /\ Goto(c, "doCall")
  /\ UNCHANGED bucketNow

\* doCall, up to the request: discovery, the balancer or the encoding of the
\* request may fail before anything is sent.
Send(c) ==
  /\ calling[c] = "doCall"
  /\ \/ Goto(c, "sent") /\ leaked' = IF cb.state = "Open" THEN leaked + 1 ELSE leaked
     \/ Goto(c, "failed") /\ UNCHANGED leaked
  /\ UNCHANGED <<cb, bucketNow, attempt, rpcs>>

\* The answer is read and below 500.
Succeed(c) ==
  /\ calling[c] = "sent"
  /\ cb' = OnSuccess(cb, bucketNow)
  /\ Goto(c, "idle")
  /\ UNCHANGED <<bucketNow, attempt, rpcs, leaked>>

\* Mutation: the attempts are counted from 1.
LastAttempt_FromOne(c) == attempt[c] >= Retries + 1

\* The loop counts attempts from 0 up to and including Retries.
LastAttempt(c) == attempt[c] >= Retries

\* Whatever the error, isRetryable finds it retryable.
Fail(c) ==
  /\ calling[c] \in {"sent", "failed"}
  /\ cb' = OnFailure(cb, bucketNow)
  /\ IF LastAttempt(c) THEN Goto(c, "idle") ELSE Goto(c, "backoff")
  /\ UNCHANGED <<bucketNow, attempt, rpcs, leaked>>

\* The wait between attempts ends, by the timer or by the caller's context.
Backoff(c) ==
  /\ calling[c] = "backoff"
  /\ \/ Goto(c, "doCall") /\ attempt' = [attempt EXCEPT ![c] = @ + 1]
     \/ Goto(c, "idle") /\ UNCHANGED attempt
  /\ UNCHANGED <<cb, bucketNow, rpcs, leaked>>

NextBucket ==
  /\ bucketNow' = (bucketNow + 1) % BucketCount
  /\ UNCHANGED <<cb, calling, attempt, rpcs, leaked>>

SleepOver ==
  /\ cb.state = "Open" /\ ~cb.slept
  /\ cb' = [cb EXCEPT !.slept = TRUE]
  /\ UNCHANGED <<bucketNow, calling, attempt, rpcs, leaked>>

Step(c) == Call(c) \/ Send(c) \/ Succeed(c) \/ Fail(c) \/ Backoff(c)

Next == (\E c \in Clients : Step(c)) \/ NextBucket \/ SleepOver

Spec == Init /\ [][Next]_vars

-----------------------------------------------------------------------------

(***************************************************************************)
(* Retries do not ask the breaker (client.go:119), so an open breaker      *)
(* still lets through what the calls it admitted have left; but no more    *)
(* than that: every goroutine one call, less the attempt that opened it.   *)
(***************************************************************************)
OpenLeakBounded == leaked <= Cardinality(Clients) * (Retries + 1) - 1
=============================================================================
