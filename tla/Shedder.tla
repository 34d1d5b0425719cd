------------------------------- MODULE Shedder -------------------------------
(***************************************************************************)
(* The overload protection of core/shedding/shedding.go: a ring of CPU     *)
(* samples that the callers of Allow themselves refresh.  A reading is     *)
(* idle, low or high; samples of zero are left out of the mean.  Memory is *)
(* taken to be below its threshold.                                        *)
(***************************************************************************)
EXTENDS Naturals, FiniteSets, FiniteSetsExt

CONSTANTS
  Askers,
  Samples     \* length of the ring, 10 in the code

VARIABLES
  cpuSamples, \* the ring
  sampleIdx,
  due,        \* a tenth of the window has passed since lastCheck
  moved,      \* /proc/stat has moved since prevTotal
  load,       \* what a reading would show
  asking,     \* goroutine -> where it is in Allow
  allowed     \* goroutine -> what its last Allow answered, or will

vars == <<cpuSamples, sampleIdx, due, moved, load, asking, allowed>>

Ring == 0..Samples - 1

\* CPU use in quarters, and the threshold of 0.9 between three and four.
Idle == 0
Low == 1
High == 4
Loads == {Idle, Low, High}

\* New takes the first reading, which has nothing to be compared with.
Init ==
  /\ cpuSamples = [i \in Ring |-> 0]
  /\ sampleIdx = 0
  /\ due = FALSE
  /\ moved = FALSE
  /\ load = Low
  /\ asking = [a \in Askers |-> "idle"]
  /\ allowed = [a \in Askers |-> TRUE]

\* smoothedCPU is below the threshold: ten times the mean is below 36 quarters.
Below ==
  LET Used == {i \in Ring : cpuSamples[i] > 0}
      Sum == FoldSet(LAMBDA i, sum : sum + cpuSamples[i], 0, Used)
  IN 10 * Sum < 36 * Cardinality(Used) \/ Used = {}

\* Under the read lock.
Allow(a) ==
  /\ asking[a] = "idle"
  /\ allowed' = [allowed EXCEPT ![a] = Below]
  /\ asking' = [asking EXCEPT ![a] = "lastCheck"]
  /\ UNCHANGED <<cpuSamples, sampleIdx, due, moved, load>>

\* Mutation: only a request that was let through looks at the clock.
LastCheck_Allowed(a) ==
  /\ asking[a] = "lastCheck"
  /\ asking' = [asking EXCEPT ![a] = IF due /\ allowed[a] THEN "updateCPU" ELSE "idle"]
  /\ UNCHANGED <<cpuSamples, sampleIdx, due, moved, load, allowed>>

\* Without the lock: several callers may find a sample due.
LastCheck(a) ==
  /\ asking[a] = "lastCheck"
  /\ asking' = [asking EXCEPT ![a] = IF due THEN "updateCPU" ELSE "idle"]
  /\ UNCHANGED <<cpuSamples, sampleIdx, due, moved, load, allowed>>

\* Under the lock.  Nothing is written when /proc/stat has not moved.
UpdateCPU(a) ==
  /\ asking[a] = "updateCPU"
  /\ \/ /\ moved
        /\ cpuSamples' = [cpuSamples EXCEPT ![sampleIdx] = load]
        /\ sampleIdx' = (sampleIdx + 1) % Samples
     \/ ~moved /\ UNCHANGED <<cpuSamples, sampleIdx>>
  /\ moved' = FALSE
  /\ due' = FALSE
  /\ asking' = [asking EXCEPT ![a] = "idle"]
  /\ UNCHANGED <<load, allowed>>

\* Half a second goes by.
Pass ==
  /\ due' = TRUE
  /\ moved' = TRUE
  /\ UNCHANGED <<cpuSamples, sampleIdx, load, asking, allowed>>

ChangeLoad ==
  /\ load' \in Loads \ {load}
  /\ UNCHANGED <<cpuSamples, sampleIdx, due, moved, asking, allowed>>

Ask(a) == Allow(a) \/ LastCheck(a) \/ UpdateCPU(a)

Next == (\E a \in Askers : Ask(a)) \/ Pass \/ ChangeLoad

Spec == Init /\ [][Next]_vars

\* Time passes, and requests, refused or not, keep coming and run.
Fairness == WF_vars(Pass) /\ \A a \in Askers : WF_vars(Ask(a))

-----------------------------------------------------------------------------

(***************************************************************************)
(* Once the load stays off the threshold, the shedder lets requests        *)
(* through again, and goes on doing so: the refused requests take the      *)
(* samples that push the old ones out (shedding.go:79, 128).               *)
(***************************************************************************)
ShedderRecovers == <>[](load # High) => <>[]Below
=============================================================================
