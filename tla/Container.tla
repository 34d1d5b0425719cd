------------------------------ MODULE Container ------------------------------
(***************************************************************************)
(* The dependency-injection container of core/di/container.go.  One        *)
(* goroutine assembles it with Register, InitAll and ShutdownAll; both of  *)
(* the latter hold mu from beginning to end and call the providers under   *)
(* it, so a provider whose Init turns back to the container (Get,          *)
(* RegisterInstance) waits for the lock its own caller holds.              *)
(***************************************************************************)
EXTENDS Naturals, FiniteSets, Sequences, SequencesExt

CONSTANTS
  Names,     \* names of providers
  MaxCalls   \* bound: calls of Register, InitAll and ShutdownAll in all

VARIABLES
  providers,   \* names registered
  dependsOn,   \* what each registered provider's DependsOn returns
  order,       \* Container.order: providers initialised, oldest first
  mu,          \* "free", or what its holder is at
  queue,       \* Kahn's queue
  inDegree,    \* Kahn's count of dependencies still unsorted
  sorted,      \* the result of topoSort so far
  at,          \* loop index of InitAll and of ShutdownAll
  calls,       \* ghost: calls made
  live         \* ghost: what each provider initialised and not shut down
               \* depended on when it was initialised

vars == <<providers, dependsOn, order, mu, queue, inDegree, sorted, at, calls, live>>

sortVars == <<queue, inDegree, sorted>>

Init ==
  /\ providers = {}
  /\ dependsOn = <<>>
  /\ order = <<>>
  /\ mu = "free"
  /\ queue = <<>>
  /\ inDegree = <<>>
  /\ sorted = <<>>
  /\ at = 0
  /\ calls = 0
  /\ live = <<>>

\* A provider of a name already taken replaces it.
Register(name, deps) ==
  /\ mu = "free"
  /\ calls < MaxCalls
  /\ calls' = calls + 1
  /\ providers' = providers \union {name}
  /\ dependsOn' = [n \in providers' |-> IF n = name THEN deps ELSE dependsOn[n]]
  /\ UNCHANGED <<order, mu, sortVars, at, live>>

Unlock ==
  /\ mu' = "free"
  /\ queue' = <<>>
  /\ inDegree' = <<>>
  /\ sorted' = <<>>
  /\ at' = 0

\* Mutation: the edges point the other way.
Edge_Reversed(dep, name) == name \in dependsOn[dep]

\* The graph topoSort builds: dep is sorted before name.
Edge(dep, name) == dep \in dependsOn[name]

InitialDegree(n) == Cardinality({dep \in providers : Edge(dep, n)})

\* InitAll up to Kahn's loop: an unknown dependency is an error, the rest is
\* counted.  The map is walked in any order.
InitAll ==
  /\ mu = "free"
  /\ calls < MaxCalls
  /\ calls' = calls + 1
  /\ IF \A n \in providers : dependsOn[n] \subseteq providers
     THEN /\ mu' = "sorting"
          /\ inDegree' = [n \in providers |-> InitialDegree(n)]
          /\ \E first \in SetToSeqs({n \in providers : InitialDegree(n) = 0}) : queue' = first
          /\ UNCHANGED <<sorted, at>>
     ELSE Unlock
  /\ UNCHANGED <<providers, dependsOn, order, live>>

\* One turn of Kahn's loop.
SortOne ==
  /\ mu = "sorting"
  /\ queue # <<>>
  /\ LET current    == Head(queue)
         dependents == {n \in providers : Edge(current, n)}
     IN /\ sorted' = Append(sorted, current)
        /\ inDegree' = [n \in providers |-> IF n \in dependents THEN inDegree[n] - 1 ELSE inDegree[n]]
        /\ \E ready \in SetToSeqs({n \in dependents : inDegree[n] = 1}) :
             queue' = Tail(queue) \o ready
  /\ UNCHANGED <<providers, dependsOn, order, mu, at, calls, live>>

\* Mutation: the count of line 174 is not compared.
SortEnd_Unchecked ==
  /\ mu = "sorting"
  /\ queue = <<>>
  /\ mu' = "initializing"
  /\ at' = 1
  /\ UNCHANGED <<providers, dependsOn, order, calls, live, sortVars>>

\* Whatever the queue never reached is part of, or behind, a cycle.
SortEnd ==
  /\ mu = "sorting"
  /\ queue = <<>>
  /\ IF Len(sorted) = Cardinality(providers)
     THEN mu' = "initializing" /\ at' = 1 /\ UNCHANGED sortVars
     ELSE Unlock
  /\ UNCHANGED <<providers, dependsOn, order, calls, live>>

\* The next provider's Init succeeds, fails, or calls the container.
InitOne ==
  /\ mu = "initializing"
  /\ at <= Len(sorted)
  /\ \/ /\ order' = Append(order, sorted[at])
        /\ live' = [n \in DOMAIN live \union {sorted[at]} |->
                      IF n = sorted[at] THEN dependsOn[n] ELSE live[n]]
        /\ at' = at + 1
        /\ UNCHANGED <<mu, sortVars>>
     \/ Unlock /\ UNCHANGED <<order, live>>
     \/ mu' = "deadlocked" /\ UNCHANGED <<order, live, at, sortVars>>
  /\ UNCHANGED <<providers, dependsOn, calls>>

InitEnd ==
  /\ mu = "initializing"
  /\ at > Len(sorted)
  /\ Unlock
  /\ UNCHANGED <<providers, dependsOn, order, calls, live>>

ShutdownAll ==
  /\ mu = "free"
  /\ calls < MaxCalls
  /\ calls' = calls + 1
  /\ mu' = "closing"
  /\ at' = Len(order)
  /\ UNCHANGED <<providers, dependsOn, order, sortVars, live>>

\* Mutation: oldest first.
ShutdownOne_Forward ==
  /\ mu = "closing"
  /\ at > 0
  /\ live' = [n \in DOMAIN live \ {order[Len(order) + 1 - at]} |-> live[n]]
  /\ at' = at - 1
  /\ UNCHANGED <<providers, dependsOn, order, mu, sortVars, calls>>

\* order is left as it is: a second ShutdownAll closes everything again.
ShutdownOne ==
  /\ mu = "closing"
  /\ at > 0
  /\ \/ /\ live' = [n \in DOMAIN live \ {order[at]} |-> live[n]]
        /\ at' = at - 1
        /\ UNCHANGED <<mu, sortVars>>
     \/ Unlock /\ UNCHANGED live
  /\ UNCHANGED <<providers, dependsOn, order, calls>>

ShutdownEnd ==
  /\ mu = "closing"
  /\ at = 0
  /\ Unlock
  /\ UNCHANGED <<providers, dependsOn, order, calls, live>>

Next ==
  \/ \E name \in Names, deps \in SUBSET Names : Register(name, deps)
  \/ InitAll
  \/ SortOne
  \/ SortEnd
  \/ InitOne
  \/ InitEnd
  \/ ShutdownAll
  \/ ShutdownOne
  \/ ShutdownEnd

Spec == Init /\ [][Next]_vars

-----------------------------------------------------------------------------

\* A set of providers in which each one needs another can never be sorted.
Cyclic == \E S \in (SUBSET providers) \ {{}} : \A n \in S : dependsOn[n] \intersect S # {}

(***************************************************************************)
(* Every provider is initialised after all it depends on, whatever order   *)
(* the maps are walked in (Provider.Init's contract, container.go:22).     *)
(***************************************************************************)
DependenciesFirst ==
  mu = "initializing" =>
    \A i \in 1..Len(sorted) : dependsOn[sorted[i]] \subseteq {sorted[j] : j \in 1..(i - 1)}

(***************************************************************************)
(* topoSort reports a cycle exactly when there is one: no set of providers *)
(* that can be ordered is refused, none that cannot is initialised         *)
(* (container.go:84, 174).                                                 *)
(***************************************************************************)
CyclesReported ==
  [][mu = "sorting" /\ mu' # "sorting" => (mu' = "free" <=> Cyclic)]_vars

(***************************************************************************)
(* No provider is shut down while one that was initialised on top of it is *)
(* still live, also after a failed InitAll, a repeated one or a replaced   *)
(* provider (container.go:111).  It takes an order that lists no provider  *)
(* twice: an InitAll repeated after one that succeeded appends to the same *)
(* order, and when it stops half way the providers it had reached are      *)
(* closed before those that still stand on them.                           *)
(***************************************************************************)
DependentsClosedFirst ==
  [][IsInjective(order) =>
       \A n \in DOMAIN live \ DOMAIN live' : \A m \in DOMAIN live' : n \notin live'[m]]_vars
=============================================================================
