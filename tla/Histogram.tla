------------------------------ MODULE Histogram ------------------------------
(***************************************************************************)
(* One histogram of core/metrics/metrics.go: Observe under the histogram's *)
(* lock, and WriteTo, which holds only the registry's lock and reads the   *)
(* same map without it.  A read of a Go map while another goroutine writes *)
(* it may be detected, which ends the process, or return what is there;    *)
(* reads and writes of a goroutine take effect in order, as in the amd64   *)
(* build.  The sum and the labels are left out.                            *)
(***************************************************************************)
EXTENDS Naturals

CONSTANTS
  Observers, NoObserver,
  MaxObservations   \* bound

VARIABLES
  count,       \* values["_count"]
  buckets,     \* bound -> values["_bucket_le_<bound>"]
  histMu,      \* who holds Histogram.mu
  recording,   \* observer -> its place in record
  bucket,      \* observer -> the next bound that its value is not above
  line,        \* what WriteTo writes next: a bound, then Last + 1; 0: nothing
  shown,       \* the lines it has written
  fatal        \* the race was detected

vars == <<count, buckets, histMu, recording, bucket, line, shown, fatal>>

Last == 2
Bounds == 1..Last
Empty == [count |-> 0, buckets |-> [b \in Bounds |-> 0]]

Init ==
  /\ count = 0
  /\ buckets = Empty.buckets
  /\ histMu = NoObserver
  /\ recording = [o \in Observers |-> "idle"]
  /\ bucket = [o \in Observers |-> 1]
  /\ line = 0
  /\ shown = Empty
  /\ fatal = FALSE

Goto(o, place) == recording' = [recording EXCEPT ![o] = place]

CountBucket(o) ==
  /\ bucket[o] \in Bounds
  /\ buckets' = [buckets EXCEPT ![bucket[o]] = @ + 1]
  /\ bucket' = [bucket EXCEPT ![o] = @ + 1]

\* A value above every bound counts in no bucket.
Observe(o) ==
  /\ recording[o] = "idle"
  /\ histMu = NoObserver
  /\ count < MaxObservations
  /\ histMu' = o
  /\ \E b \in 1..Last + 1 : bucket' = [bucket EXCEPT ![o] = b]
  /\ Goto(o, "count")
  /\ UNCHANGED <<count, buckets, line, shown, fatal>>

\* Mutation: the total is counted after the buckets.
RecordCount_Last(o) ==
  /\ recording[o] = "count"
  /\ \/ CountBucket(o) /\ UNCHANGED <<count, recording>>
     \/ bucket[o] > Last /\ count' = count + 1 /\ Goto(o, "buckets") /\ UNCHANGED <<buckets, bucket>>
  /\ UNCHANGED <<histMu, line, shown, fatal>>

RecordCount(o) ==
  /\ recording[o] = "count"
  /\ count' = count + 1
  /\ Goto(o, "buckets")
  /\ UNCHANGED <<buckets, histMu, bucket, line, shown, fatal>>

RecordBucket(o) ==
  /\ recording[o] = "buckets"
  /\ CountBucket(o)
  /\ UNCHANGED <<count, histMu, recording, line, shown, fatal>>

Unlock(o) ==
  /\ recording[o] = "buckets"
  /\ bucket[o] > Last
  /\ histMu' = NoObserver
  /\ Goto(o, "idle")
  /\ UNCHANGED <<count, buckets, bucket, line, shown, fatal>>

WriteTo ==
  /\ line = 0
  /\ line' = 1
  /\ shown' = Empty
  /\ UNCHANGED <<count, buckets, histMu, recording, bucket, fatal>>

WriteBucket ==
  /\ line \in Bounds
  /\ shown' = [shown EXCEPT !.buckets[line] = buckets[line]]
  /\ line' = line + 1
  /\ UNCHANGED <<count, buckets, histMu, recording, bucket, fatal>>

\* The +Inf bucket and the count line.
WriteCount ==
  /\ line = Last + 1
  /\ shown' = [shown EXCEPT !.count = count]
  /\ line' = 0
  /\ UNCHANGED <<count, buckets, histMu, recording, bucket, fatal>>

\* "concurrent map read and map write"
RaceDetected ==
  /\ line # 0
  /\ histMu # NoObserver
  /\ fatal' = TRUE
  /\ UNCHANGED <<count, buckets, histMu, recording, bucket, line, shown>>

Next ==
  /\ ~fatal
  /\ \/ \E o \in Observers : Observe(o) \/ RecordCount(o) \/ RecordBucket(o) \/ Unlock(o)
     \/ WriteTo \/ WriteBucket \/ WriteCount \/ RaceDetected

Spec == Init /\ [][Next]_vars

-----------------------------------------------------------------------------

(***************************************************************************)
(* A scrape never shows more observations below a bound than observations, *)
(* though it takes no lock that Observe takes: record counts the total     *)
(* first and WriteTo reads it last (metrics.go:199, 371).  Between buckets *)
(* there is no such order, and a scrape may show fewer observations below  *)
(* a bound than below a smaller one.                                       *)
(***************************************************************************)
ScrapeWithinCount == line = 0 => \A b \in Bounds : shown.buckets[b] <= shown.count
=============================================================================
