---------------------------- MODULE WindowBreaker ----------------------------
(***************************************************************************)
(* The circuit breaker as its callers see it: the value of an AdaptiveCB   *)
(* and each of its operations as one step (CircuitBreaker has the steps    *)
(* inside them), with ErrorRate 0.5 and no MaxConcurrent, as the gateway   *)
(* and the client build it.  slot is the bucket that time points at.       *)
(***************************************************************************)
EXTENDS Naturals

CONSTANTS MinRequests, BucketCount

Slots == 0..BucketCount - 1

EmptyBucket == [failures |-> 0, total |-> 0]

\* slept: SleepWindow has passed since openedAt.
NewBreaker ==
  [state |-> "Closed", slept |-> TRUE, bucketIdx |-> 0, buckets |-> [i \in Slots |-> EmptyBucket]]

Align(cb, slot) ==
  IF slot = cb.bucketIdx THEN cb
  ELSE [cb EXCEPT !.bucketIdx = slot, !.buckets[slot] = EmptyBucket]

\* The loop over the buckets, which adds up one count of theirs.
SumBuckets(count) ==
  LET upTo[n \in 0..BucketCount] == IF n = 0 THEN 0 ELSE upTo[n - 1] + count[n - 1]
  IN upTo[BucketCount]

Failures(cb) == SumBuckets([i \in Slots |-> cb.buckets[i].failures])
Total(cb) == SumBuckets([i \in Slots |-> cb.buckets[i].total])

\* Mutation: one request more is asked for.
ShouldOpen_Above(cb) == Total(cb) > MinRequests /\ 2 * Failures(cb) > Total(cb)

ShouldOpen(cb) == Total(cb) >= MinRequests /\ 2 * Failures(cb) > Total(cb)

ShouldClose(cb) ==
  LET bucket == cb.buckets[cb.bucketIdx]
  IN bucket.total >= MinRequests /\ 2 * bucket.failures <= bucket.total

Opened(cb) == [cb EXCEPT !.state = "Open", !.slept = FALSE]

\* What Allow answers, and the breaker it leaves.
Allows(cb) == cb.state # "Open" \/ cb.slept
Allowed(cb) == IF cb.state = "Open" THEN [cb EXCEPT !.state = "HalfOpen"] ELSE cb

OnSuccess(cb, slot) ==
  LET at == Align(cb, slot)
      counted == [at EXCEPT !.buckets[slot].total = @ + 1]
  IN IF counted.state = "HalfOpen" /\ ShouldClose(counted)
     THEN [counted EXCEPT !.state = "Closed"]
     ELSE counted

OnFailure(cb, slot) ==
  LET at == Align(cb, slot)
      counted == [at EXCEPT !.buckets[slot].total = @ + 1, !.buckets[slot].failures = @ + 1]
  IN IF counted.state = "HalfOpen" \/ ShouldOpen(counted) THEN Opened(counted) ELSE counted
=============================================================================
