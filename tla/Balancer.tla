------------------------------ MODULE Balancer ------------------------------
(***************************************************************************)
(* The strategies of core/balancer/balancer.go over a list that does not   *)
(* change: round robin, whose counter is atomic and wraps, least           *)
(* connections and weighted round robin, each under a mutex.  Consistent   *)
(* hashing is left out, and so is OnComplete, which nothing calls.         *)
(***************************************************************************)
EXTENDS Naturals, FiniteSets

CONSTANTS
  Callers,
  Size,       \* how many instances the list has
  CounterMax, \* the counter's largest value, 2^32 - 1 in the code
  MaxPicks    \* bound on the calls of Select

VARIABLES
  strategy,
  next,        \* roundRobin's counter
  drawn,       \* caller -> the number it drew from the counter, or NotDrawn
  connections, \* leastConnection's counts
  picks,       \* index of an instance -> how often Select returned it
  wraps        \* how often the counter started again

vars == <<strategy, next, drawn, connections, picks, wraps>>

Indices == 0..Size - 1
NotDrawn == CounterMax + 1

Sum(count) == LET sum[n \in 0..Size] == IF n = 0 THEN 0 ELSE sum[n - 1] + count[n - 1] IN sum[Size]
InFlight == {c \in Callers : drawn[c] # NotDrawn}
CanPick == Sum(picks) + Cardinality(InFlight) < MaxPicks

Init ==
  /\ strategy = "New"
  /\ next = 0
  /\ drawn = [c \in Callers |-> NotDrawn]
  /\ connections = [i \in Indices |-> 0]
  /\ picks = [i \in Indices |-> 0]
  /\ wraps = 0

New ==
  /\ strategy = "New"
  /\ strategy' \in {"RoundRobin", "WeightedRoundRobin", "LeastConnection"}
  /\ UNCHANGED <<next, drawn, connections, picks, wraps>>

Pick(i) == picks' = [picks EXCEPT ![i] = @ + 1]

\* Mutation: a load and a store, so that callers at the same time draw the same number.
Draw_NotAtomic(c) ==
  /\ strategy = "RoundRobin"
  /\ drawn[c] = NotDrawn /\ CanPick
  /\ drawn' = [drawn EXCEPT ![c] = (next + 1) % (CounterMax + 1)]
  /\ next' = IF InFlight = {} THEN drawn'[c] ELSE next
  /\ wraps' = IF next' = 0 /\ next # 0 THEN wraps + 1 ELSE wraps
  /\ UNCHANGED <<strategy, connections, picks>>

\* roundRobin's next.Add(1).
Draw(c) ==
  /\ strategy = "RoundRobin"
  /\ drawn[c] = NotDrawn /\ CanPick
  /\ next' = (next + 1) % (CounterMax + 1)
  /\ drawn' = [drawn EXCEPT ![c] = next']
  /\ wraps' = IF next' = 0 THEN wraps + 1 ELSE wraps
  /\ UNCHANGED <<strategy, connections, picks>>

RoundRobin(c) ==
  /\ drawn[c] # NotDrawn
  /\ Pick(drawn[c] % Size)
  /\ drawn' = [drawn EXCEPT ![c] = NotDrawn]
  /\ UNCHANGED <<strategy, next, connections, wraps>>

\* The first instance that no other has fewer connections than.
Least == CHOOSE i \in Indices :
  /\ \A j \in Indices : connections[i] <= connections[j]
  /\ \A j \in 0..i - 1 : connections[i] < connections[j]

LeastConnection ==
  /\ strategy = "LeastConnection"
  /\ CanPick
  /\ Pick(Least)
  /\ connections' = [connections EXCEPT ![Least] = @ + 1]
  /\ UNCHANGED <<strategy, next, drawn, wraps>>

\* Every weight is 100, whatever the metadata says.
GetWeight(i) == 100

\* The first instance at which the sum of the weights passes half of them all.
Heaviest ==
  LET Half == Sum([i \in Indices |-> GetWeight(i)]) \div 2
      upTo[i \in Indices] == GetWeight(i) + IF i = 0 THEN 0 ELSE upTo[i - 1]
  IN CHOOSE i \in Indices : upTo[i] > Half /\ \A j \in 0..i - 1 : upTo[j] <= Half

WeightedRoundRobin ==
  /\ strategy = "WeightedRoundRobin"
  /\ CanPick
  /\ Pick(Heaviest)
  /\ UNCHANGED <<strategy, next, drawn, connections, wraps>>

Next ==
  \/ New
  \/ \E c \in Callers : Draw(c) \/ RoundRobin(c)
  \/ LeastConnection
  \/ WeightedRoundRobin

Spec == Init /\ [][Next]_vars

-----------------------------------------------------------------------------

\* Between calls, no instance has had more than one call more than another,
\* and one more for each time the counter started again, however concurrent
\* callers draw and use their numbers.  Weighted round robin promises nothing:
\* it returns one instance for ever (balancer.go:104-109).
EvenShares ==
  InFlight = {} /\ strategy # "WeightedRoundRobin" =>
    \A i, j \in Indices : picks[i] <= picks[j] + 1 + wraps
=============================================================================
