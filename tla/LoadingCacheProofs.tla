-------------------------- MODULE LoadingCacheProofs --------------------------
(* What the cache guarantees for any keys, callers, values and cache size. *)
EXTENDS LoadingCache, FiniteSetTheorems, FunctionTheorems, TLAPS

-----------------------------------------------------------------------------
(* The types *)

Before == {"getL1", "dropL1", "getL2"}
After == {"setL2", "setL1"}

\* A caller has a key from ReadStart on, and a result only from Do on.
Types ==
  /\ pc \in [Callers -> DoPoints \cup Before \cup After]
  /\ key \in [Callers -> Keys \cup {NoKey}]
  /\ val = [c \in Callers |-> val[c]]
  /\ db \in [Keys -> Values]
  /\ \A c \in Callers :
       /\ pc[c] # "idle" => key[c] \in Keys
       /\ pc[c] \in {"idle"} \cup Before => val[c] = NoResult

LEMMA TypesInvariant == Spec => []Types
<1>. USE LoadingAssumption, FlightAssumption DEF Types, DoPoints, Leading, Before, After
<1>1. Init => Types
  BY DEF Init, FlightInit
<1>2. Types /\ [Next]_vars => Types'
  <2>. SUFFICES ASSUME Types, [Next]_vars PROVE Types'
    OBVIOUS
  <2>. USE DEF Goto, Leave, flightVars, cacheVars, writerVars
  <2>1. CASE UNCHANGED vars
    BY <2>1 DEF vars
  <2>2. ASSUME NEW c \in Callers, Read(c) PROVE Types'
    <3>1. CASE ReadStart(c) \/ GetL1(c) \/ DropL1(c) \/ GetL2(c) \/ Backfill(c)
      BY <3>1 DEF ReadStart, GetL1, DropL1, GetL2, Backfill
    <3>2. CASE Load(c)
      BY <3>2 DEF Load, Do, DoJoin, DoLead, DoSettle, DoForget, RunReturns, RunPanics
    <3>3. CASE AfterDo(c) \/ SetL2(c) \/ SetL1(c)
      BY <3>3 DEF AfterDo, SetL2, SetL1
    <3>. QED  BY <2>2, <3>1, <3>2, <3>3 DEF Read
  <2>3. CASE Writer
    BY <2>3 DEF Writer, UpdateDb, DeleteL1, ClearL1, WriteL2, DeleteL2, ClearL2, WriteL1
  <2>4. CASE L1Expires \/ L2Expires
    BY <2>4 DEF L1Expires, L2Expires
  <2>. QED  BY <2>1, <2>2, <2>3, <2>4 DEF Next
<1>. QED  BY <1>1, <1>2, PTL DEF Spec

-----------------------------------------------------------------------------
(* DoWithCache uses SingleFlight as SingleFlight is meant to be used *)

\* Where a caller is, as Do sees it: outside before it asks, done after it has
\* its result.
FlightPc ==
  [c \in Callers |-> IF pc[c] \in Before THEN "idle"
                     ELSE IF pc[c] \in After THEN "loaded" ELSE pc[c]]

FlightKey ==
  [c \in Callers |-> IF pc[c] \in {"idle"} \cup Before THEN NoKey ELSE key[c]]

SF == INSTANCE SingleFlight WITH pc <- FlightPc, key <- FlightKey

-----------------------------------------------------------------------------
(* What SingleFlight guarantees of its calls, as the cache makes them *)

\* The type invariant needs to know that a caller inside Do has a key.
KeyedInv == SF!FlightTypeOK /\ \A c \in Callers : FlightPc[c] # "idle" => FlightKey[c] \in Keys

LEMMA KeyedInvariant == SF!FlightSpec => []KeyedInv
<1>. USE FlightAssumption DEF SF!DoPoints, SF!Leading, SF!FlightTypeOK, KeyedInv
<1>1. SF!FlightInit => KeyedInv
  BY DEF SF!FlightInit
<1>2. KeyedInv /\ [SF!FlightNext]_SF!flightVars => KeyedInv'
  <2>. SUFFICES ASSUME KeyedInv, [SF!FlightNext]_SF!flightVars PROVE KeyedInv'
    OBVIOUS
  <2>. USE DEF SF!Goto, SF!Leave
  <2>1. CASE UNCHANGED SF!flightVars
    BY <2>1 DEF SF!flightVars
  <2>2. ASSUME NEW c \in Callers, NEW k \in Keys, SF!Enter(c, k) PROVE KeyedInv'
    BY <2>2 DEF SF!Enter
  <2>3. ASSUME NEW c \in Callers, SF!DoJoin(c) PROVE KeyedInv'
    BY <2>3 DEF SF!DoJoin, SF!FlightsOf, SF!Call
  <2>4. ASSUME NEW c \in Callers, SF!DoLead(c) PROVE KeyedInv'
    <3>1. [key |-> FlightKey[c], leader |-> c, done |-> FALSE, val |-> NoResult,
           panicked |-> FALSE] \in SF!Call
      BY <2>4 DEF SF!DoLead, SF!Call
    <3>2. flight' \in SUBSET SF!Call
      BY <2>4, <3>1 DEF SF!DoLead
    <3>. QED  BY <2>4, <3>2 DEF SF!DoLead
  <2>5. ASSUME NEW c \in Callers, SF!DoSettle(c) PROVE KeyedInv'
    <3>1. \A f \in SF!Led(c) : [f EXCEPT !.done = TRUE, !.val = val[c]] \in SF!Call
      BY DEF SF!Led, SF!Call
    <3>2. flight' \in SUBSET SF!Call
      BY <2>5, <3>1 DEF SF!DoSettle
    <3>3. FlightPc' \in [Callers -> SF!DoPoints] /\ val' \in [Callers -> Results \cup {NoResult}]
      BY <2>5 DEF SF!DoSettle
    <3>4. \A d \in Callers : FlightPc'[d] # "idle" => FlightPc[d] # "idle"
      BY <2>5 DEF SF!DoSettle
    <3>. QED  BY <2>5, <3>2, <3>3, <3>4 DEF SF!DoSettle
  <2>6. ASSUME NEW c \in Callers, SF!DoForget(c) PROVE KeyedInv'
    BY <2>6 DEF SF!DoForget
  <2>7. ASSUME NEW c \in Callers, NEW r \in Results, SF!RunReturns(c, r) PROVE KeyedInv'
    BY <2>7 DEF SF!RunReturns
  <2>8. ASSUME NEW c \in Callers, SF!RunPanics(c) PROVE KeyedInv'
    <3>1. \A f \in SF!Led(c) : [f EXCEPT !.panicked = TRUE] \in SF!Call
      BY DEF SF!Led, SF!Call
    <3>2. flight' \in SUBSET SF!Call
      BY <2>8, <3>1 DEF SF!RunPanics
    <3>. QED  BY <2>8, <3>2 DEF SF!RunPanics
  <2>9. ASSUME NEW c \in Callers, SF!Return(c) PROVE KeyedInv'
    BY <2>9 DEF SF!Return
  <2>. QED
    BY <2>1, <2>2, <2>3, <2>4, <2>5, <2>6, <2>7, <2>8, <2>9 DEF SF!FlightNext, SF!Do
<1>. QED  BY <1>1, <1>2, PTL DEF SF!FlightSpec

\* Every variable has its type.
LEMMA FlightTypes == SF!FlightSpec => []SF!FlightTypeOK
BY KeyedInvariant, PTL DEF KeyedInv

-----------------------------------------------------------------------------
\* m holds one call per key at most.
Unique == \A f, g \in flight : f.key = g.key => f = g

\* A call that is neither finished nor lost to a panic is led by a caller that
\* has wg.Done still before it; a finished one by a caller about to delete it.
CallsLed ==
  \A f \in flight :
    /\ f.done => FlightPc[f.leader] = "forget" /\ FlightKey[f.leader] = f.key
    /\ ~ f.done /\ ~ f.panicked =>
         FlightPc[f.leader] \in {"run", "settle"} /\ FlightKey[f.leader] = f.key

\* The other way round: leaders find their call in m, waiters an unfinished one.
LeadersPublished ==
  \A c \in Callers :
    /\ FlightPc[c] \in SF!Leading => \E f \in flight : f.key = FlightKey[c] /\ f.leader = c
    /\ FlightPc[c] \in {"run", "settle"} =>
         \E f \in flight : f.key = FlightKey[c] /\ f.leader = c /\ ~ f.done /\ ~ f.panicked
    /\ FlightPc[c] = "forget" => \E f \in flight : f.key = FlightKey[c] /\ f.leader = c /\ f.done
    /\ FlightPc[c] = "wait" => \E f \in flight : f.key = FlightKey[c] /\ ~ f.done

FlightInv == Unique /\ CallsLed /\ LeadersPublished

\* The one call with c's key is the one c leads.
LEMMA OwnCall ==
  ASSUME KeyedInv, FlightInv, NEW c \in Callers, FlightPc[c] \in SF!Leading
  PROVE  \E f \in flight :
           /\ f.key = FlightKey[c] /\ f.leader = c
           /\ SF!Led(c) = {f} /\ SF!FlightsOf(FlightKey[c]) = {f}
BY DEF FlightInv, Unique, LeadersPublished, SF!Led, SF!FlightsOf

LEMMA FlightInvariant == SF!FlightSpec => []FlightInv
<1>1. SF!FlightInit => FlightInv
  BY DEF SF!FlightInit, FlightInv, Unique, CallsLed, LeadersPublished, SF!Leading
<1>2. KeyedInv /\ FlightInv /\ [SF!FlightNext]_SF!flightVars => FlightInv'
  <2>. SUFFICES ASSUME KeyedInv, FlightInv, [SF!FlightNext]_SF!flightVars PROVE FlightInv'
    OBVIOUS
  <2>. USE DEF FlightInv, KeyedInv, SF!FlightTypeOK, SF!Goto, SF!Leave, SF!Leading
  <2>0. \A f \in flight : f.leader \in Callers /\ f.key \in Keys /\ f.done \in BOOLEAN
    BY DEF SF!Call
  <2>1. CASE UNCHANGED SF!flightVars
    BY <2>1 DEF SF!flightVars, Unique, CallsLed, LeadersPublished
  <2>2. ASSUME NEW c \in Callers, NEW k \in Keys, SF!Enter(c, k) PROVE FlightInv'
    BY <2>0, <2>2 DEF SF!Enter, Unique, CallsLed, LeadersPublished
  <2>3. ASSUME NEW c \in Callers, SF!DoJoin(c) PROVE FlightInv'
    BY <2>0, <2>3 DEF SF!DoJoin, SF!FlightsOf, Unique, CallsLed, LeadersPublished
  <2>4. ASSUME NEW c \in Callers, SF!DoLead(c) PROVE FlightInv'
    <3>. DEFINE new == [key |-> FlightKey[c], leader |-> c, done |-> FALSE, val |-> NoResult,
                        panicked |-> FALSE]
    <3>1. flight' = flight \cup {new} /\ FlightKey' = FlightKey /\ FlightPc' = [FlightPc EXCEPT ![c] = "run"]
          /\ FlightPc[c] = "do"
      BY <2>4 DEF SF!DoLead
    <3>2. \A f \in flight : f.key # FlightKey[c]
      BY <2>4 DEF SF!DoLead, SF!FlightsOf
    <3>3. /\ new.key = FlightKey[c] /\ new.leader = c /\ new.done = FALSE
          /\ new.panicked = FALSE
      OBVIOUS
    <3>. HIDE DEF new
    <3>4. Unique'
      BY <3>1, <3>2, <3>3 DEF Unique
    <3>5. CallsLed'
      BY <2>0, <3>1, <3>3 DEF CallsLed
    <3>6. LeadersPublished'
      BY <3>1, <3>3 DEF LeadersPublished
    <3>. QED  BY <3>4, <3>5, <3>6
  <2>5. ASSUME NEW c \in Callers, SF!DoSettle(c) PROVE FlightInv'
    <3>1. PICK f \in flight :
            /\ f.key = FlightKey[c] /\ f.leader = c
            /\ SF!Led(c) = {f} /\ SF!FlightsOf(FlightKey[c]) = {f}
      BY <2>5, OwnCall DEF SF!DoSettle
    <3>. DEFINE new == [f EXCEPT !.done = TRUE, !.val = val[c]]
    <3>2. flight' = (flight \ {f}) \cup {new} /\ FlightKey' = FlightKey
      BY <2>5, <3>1 DEF SF!DoSettle
    <3>3. new.key = FlightKey[c] /\ new.leader = c /\ new.done = TRUE
      BY <3>1 DEF SF!Call
    <3>4. \A g \in flight \ {f} : g.key # FlightKey[c]
      BY <3>1 DEF SF!FlightsOf
    <3>5. \A d \in Callers :
            FlightPc'[d] = IF d = c THEN "forget"
                     ELSE IF FlightPc[d] = "wait" /\ FlightKey[d] = FlightKey[c] THEN "loaded" ELSE FlightPc[d]
      BY <2>5 DEF SF!DoSettle
    <3>6. FlightPc[c] = "settle"
      BY <2>5 DEF SF!DoSettle
    <3>. HIDE DEF new
    <3>7. Unique'
      BY <3>2, <3>3, <3>4 DEF Unique
    <3>8. CallsLed'
      BY <2>0, <3>2, <3>3, <3>4, <3>5, <3>6 DEF CallsLed
    <3>9. LeadersPublished'
      <4>. SUFFICES ASSUME NEW d \in Callers, d # c, FlightPc'[d] = FlightPc[d],
                           FlightPc[d] = "wait" => FlightKey[d] # FlightKey[c]
                    PROVE  /\ FlightPc[d] \in SF!Leading => \E g \in flight' : g.key = FlightKey[d] /\ g.leader = d
                           /\ FlightPc[d] \in {"run", "settle"} =>
                                \E g \in flight' : g.key = FlightKey[d] /\ g.leader = d
                                                     /\ ~ g.done /\ ~ g.panicked
                           /\ FlightPc[d] = "forget" =>
                                \E g \in flight' : g.key = FlightKey[d] /\ g.leader = d /\ g.done
                           /\ FlightPc[d] = "wait" => \E g \in flight' : g.key = FlightKey[d] /\ ~ g.done
        BY <3>2, <3>3, <3>5 DEF LeadersPublished
      <4>1. \A g \in flight :
              (g.leader = d \/ (g.key = FlightKey[d] /\ FlightPc[d] = "wait")) => g \in flight'
        BY <3>1, <3>2
      <4>2. CASE FlightPc[d] \in {"run", "settle"}
        <5>1. PICK g \in flight : g.key = FlightKey[d] /\ g.leader = d /\ ~ g.done /\ ~ g.panicked
          BY <4>2 DEF LeadersPublished
        <5>2. g \in flight'
          BY <4>1, <5>1
        <5>. QED  BY <4>2, <5>1, <5>2, Zenon
      <4>3. CASE FlightPc[d] = "forget"
        <5>1. PICK g \in flight : g.key = FlightKey[d] /\ g.leader = d /\ g.done
          BY <4>3 DEF LeadersPublished
        <5>2. g \in flight'
          BY <4>1, <5>1
        <5>. QED  BY <4>3, <5>1, <5>2, Zenon
      <4>4. CASE FlightPc[d] = "wait"
        <5>1. PICK g \in flight : g.key = FlightKey[d] /\ ~ g.done
          BY <4>4 DEF LeadersPublished
        <5>. QED  BY <4>1, <4>4, <5>1
      <4>. QED  BY <4>2, <4>3, <4>4
    <3>. QED  BY <3>7, <3>8, <3>9
  <2>6. ASSUME NEW c \in Callers, SF!DoForget(c) PROVE FlightInv'
    <3>1. PICK f \in flight :
            /\ f.key = FlightKey[c] /\ f.leader = c
            /\ SF!Led(c) = {f} /\ SF!FlightsOf(FlightKey[c]) = {f}
      BY <2>6, OwnCall DEF SF!DoForget
    <3>2. flight' = flight \ {f} /\ FlightKey' = FlightKey /\ FlightPc' = [FlightPc EXCEPT ![c] = "loaded"]
          /\ FlightPc[c] = "forget"
      BY <2>6, <3>1 DEF SF!DoForget
    <3>3. f.done
      BY <3>1, <3>2 DEF LeadersPublished, Unique
    <3>4. Unique' /\ CallsLed'
      <4>1. \A g \in flight' : g \in flight /\ g.key # FlightKey[c]
        BY <3>1, <3>2 DEF SF!FlightsOf
      <4>3. Unique'
        BY <4>1 DEF Unique
      <4>4. ASSUME NEW g \in flight'
            PROVE  /\ g.done => FlightPc'[g.leader] = "forget" /\ FlightKey'[g.leader] = g.key
                   /\ ~ g.done /\ ~ g.panicked =>
                        FlightPc'[g.leader] \in {"run", "settle"} /\ FlightKey'[g.leader] = g.key
        <5>1. CASE g.leader = c
          BY <3>2, <4>1, <5>1 DEF CallsLed
        <5>2. CASE g.leader # c
          BY <2>0, <3>2, <4>1, <5>2 DEF CallsLed
        <5>. QED  BY <5>1, <5>2
      <4>. QED  BY <4>3, <4>4 DEF CallsLed
    <3>5. LeadersPublished'
      BY <3>1, <3>2, <3>3 DEF LeadersPublished
    <3>. QED  BY <3>4, <3>5
  <2>7. ASSUME NEW c \in Callers, NEW r \in Results, SF!RunReturns(c, r) PROVE FlightInv'
    BY <2>0, <2>7 DEF SF!RunReturns, Unique, CallsLed, LeadersPublished
  <2>8. ASSUME NEW c \in Callers, SF!RunPanics(c) PROVE FlightInv'
    <3>1. PICK f \in flight :
            /\ f.key = FlightKey[c] /\ f.leader = c
            /\ SF!Led(c) = {f} /\ SF!FlightsOf(FlightKey[c]) = {f}
      BY <2>8, OwnCall DEF SF!RunPanics
    <3>. DEFINE new == [f EXCEPT !.panicked = TRUE]
    <3>2. flight' = (flight \ {f}) \cup {new} /\ FlightPc' = [FlightPc EXCEPT ![c] = "idle"]
          /\ FlightKey' = [FlightKey EXCEPT ![c] = NoKey] /\ FlightPc[c] = "run"
      BY <2>8, <3>1 DEF SF!RunPanics
    <3>3. ~ f.done
      BY <3>1, <3>2 DEF CallsLed
    <3>4. new.key = FlightKey[c] /\ new.leader = c /\ new.done = f.done /\ new.panicked = TRUE
      BY <3>1 DEF SF!Call
    <3>5. \A g \in flight \ {f} : g.key # FlightKey[c]
      BY <3>1 DEF SF!FlightsOf
    <3>. HIDE DEF new
    <3>6. Unique'
      BY <3>2, <3>4, <3>5 DEF Unique
    <3>7. CallsLed'
      BY <2>0, <3>2, <3>3, <3>4, <3>5 DEF CallsLed
    <3>8. LeadersPublished'
      BY <3>1, <3>2, <3>3, <3>4 DEF LeadersPublished
    <3>. QED  BY <3>6, <3>7, <3>8
  <2>9. ASSUME NEW c \in Callers, SF!Return(c) PROVE FlightInv'
    BY <2>0, <2>9 DEF SF!Return, Unique, CallsLed, LeadersPublished
  <2>. QED
    BY <2>1, <2>2, <2>3, <2>4, <2>5, <2>6, <2>7, <2>8, <2>9 DEF SF!FlightNext, SF!Do
<1>. QED  BY <1>1, <1>2, KeyedInvariant, PTL DEF SF!FlightSpec

\* For one key, one loader runs at a time.
LEMMA OneLeader == SF!FlightSpec => []SF!OneLoader
<1>1. FlightInv => SF!OneLoader
  BY DEF FlightInv, Unique, LeadersPublished, SF!OneLoader, SF!Leading
<1>. QED  BY <1>1, FlightInvariant, PTL

\* A waiter waits for a call that will be finished, unless its loader panicked.
LEMMA LedWaiters == SF!FlightSpec => []SF!WaitersHaveLeader
<1>1. FlightInv => SF!WaitersHaveLeader
  BY DEF FlightInv, CallsLed, LeadersPublished, SF!WaitersHaveLeader, SF!FlightsOf
<1>. QED  BY <1>1, FlightInvariant, PTL

-----------------------------------------------------------------------------
(* DoWithCache implements SingleFlight *)

\* A step of Do, or the return of the loader, is one of SingleFlight.
LEMMA LoadRefines ==
  ASSUME Types, NEW c \in Callers, Load(c)
  PROVE  SF!FlightNext
<1>. USE LoadingAssumption DEF Types, DoPoints, Leading, Before, After
<1>. USE DEF Goto, SF!Goto, Leave, SF!Leave
<1>1. FlightPc[c] = pc[c] /\ FlightKey[c] = key[c]
  BY DEF Load, Do, DoJoin, DoLead, DoSettle, DoForget, RunReturns, RunPanics, FlightPc, FlightKey
<1>2. CASE DoJoin(c)
  <2>1. /\ FlightPc' = [FlightPc EXCEPT ![c] = pc'[c]]
        /\ FlightKey' = FlightKey
    BY <1>2 DEF DoJoin, FlightPc, FlightKey
  <2>2. SF!DoJoin(c)
    BY <1>1, <1>2, <2>1 DEF DoJoin, SF!DoJoin, FlightsOf, SF!FlightsOf
  <2>. QED  BY <2>2 DEF SF!FlightNext, SF!Do
<1>3. CASE DoLead(c)
  <2>1. /\ FlightPc' = [FlightPc EXCEPT ![c] = "run"]
        /\ FlightKey' = FlightKey
    BY <1>3 DEF DoLead, FlightPc, FlightKey
  <2>2. SF!DoLead(c)
    BY <1>1, <1>3, <2>1 DEF DoLead, SF!DoLead, FlightsOf, SF!FlightsOf
  <2>. QED  BY <2>2 DEF SF!FlightNext, SF!Do
<1>4. CASE DoSettle(c)
  <2>1. \A d \in Callers : /\ FlightPc[d] = "wait" <=> pc[d] = "wait"
                           /\ pc[d] = "wait" => FlightKey[d] = key[d]
    BY DEF FlightPc, FlightKey
  <2>2. /\ FlightKey' = FlightKey
        /\ FlightPc' = [d \in Callers |->
             IF d = c THEN "forget"
             ELSE IF d \in {e \in Callers : pc[e] = "wait" /\ key[e] = key[c]} THEN "loaded"
             ELSE FlightPc[d]]
    BY <1>4 DEF DoSettle, FlightPc, FlightKey
  <2>3. {d \in Callers : FlightPc[d] = "wait" /\ FlightKey[d] = FlightKey[c]}
          = {d \in Callers : pc[d] = "wait" /\ key[d] = key[c]}
    BY <1>1, <2>1
  <2>4. SF!Led(c) = Led(c)
    BY <1>1 DEF Led, SF!Led
  <2>5. SF!DoSettle(c)
    BY <1>1, <1>4, <2>2, <2>3, <2>4 DEF DoSettle, SF!DoSettle
  <2>. QED  BY <2>5 DEF SF!FlightNext, SF!Do
<1>5. CASE DoForget(c)
  <2>1. /\ FlightPc' = [FlightPc EXCEPT ![c] = "loaded"]
        /\ FlightKey' = FlightKey
    BY <1>5 DEF DoForget, FlightPc, FlightKey
  <2>2. SF!DoForget(c)
    BY <1>1, <1>5, <2>1 DEF DoForget, SF!DoForget, FlightsOf, SF!FlightsOf
  <2>. QED  BY <2>2 DEF SF!FlightNext, SF!Do
<1>6. ASSUME NEW r \in Results, RunReturns(c, r) PROVE SF!FlightNext
  <2>1. /\ FlightPc' = [FlightPc EXCEPT ![c] = "settle"]
        /\ FlightKey' = FlightKey
    BY <1>6 DEF RunReturns, FlightPc, FlightKey
  <2>2. SF!RunReturns(c, r)
    BY <1>1, <1>6, <2>1 DEF RunReturns, SF!RunReturns
  <2>. QED  BY <2>2 DEF SF!FlightNext
<1>7. CASE RunPanics(c)
  <2>1. /\ FlightPc' = [FlightPc EXCEPT ![c] = "idle"]
        /\ FlightKey' = [FlightKey EXCEPT ![c] = NoKey]
    BY <1>7 DEF RunPanics, FlightPc, FlightKey
  <2>2. SF!Led(c) = Led(c)
    BY <1>1 DEF Led, SF!Led
  <2>3. SF!RunPanics(c)
    BY <1>1, <1>7, <2>1, <2>2 DEF RunPanics, SF!RunPanics
  <2>. QED  BY <2>3 DEF SF!FlightNext
<1>8. pc[c] = "run" => db[key[c]] \in Results /\ Failed \in Results
  OBVIOUS
<1>. QED
  BY <1>2, <1>3, <1>4, <1>5, <1>6, <1>7, <1>8 DEF Load, Do, RunReturns

\* Every other step of a caller is none of SingleFlight, or leaves it with a result.
LEMMA OthersRefine ==
  ASSUME Types, NEW c \in Callers, Read(c), ~ Load(c)
  PROVE  SF!FlightNext \/ UNCHANGED SF!flightVars
<1>. USE LoadingAssumption, FlightAssumption DEF Types, DoPoints, Leading, Before, After
<1>. USE DEF Goto, SF!Goto, Leave, SF!Leave, flightVars, SF!flightVars
<1>1. CASE ReadStart(c) \/ GetL1(c) \/ DropL1(c) \/ Backfill(c)
  <2>1. UNCHANGED <<flight, val>>
    BY <1>1 DEF ReadStart, GetL1, DropL1, Backfill
  <2>2. FlightPc' = FlightPc /\ FlightKey' = FlightKey
    BY <1>1 DEF ReadStart, GetL1, DropL1, Backfill, FlightPc, FlightKey
  <2>. QED  BY <2>1, <2>2
<1>2. CASE GetL2(c)
  <2>1. UNCHANGED <<flight, val>>
    BY <1>2 DEF GetL2
  <2>2. CASE pc'[c] = "idle"
    <3>1. FlightPc' = FlightPc /\ FlightKey' = FlightKey
      BY <1>2, <2>2 DEF GetL2, FlightPc, FlightKey
    <3>. QED  BY <2>1, <3>1
  <2>3. CASE pc'[c] # "idle"
    <3>1. /\ pc[c] = "getL2" /\ pc' = [pc EXCEPT ![c] = "do"] /\ UNCHANGED key
          /\ key[c] \in Keys
      BY <1>2, <2>3 DEF GetL2
    <3>2. /\ FlightPc' = [FlightPc EXCEPT ![c] = "do"] /\ FlightPc[c] = "idle"
          /\ FlightKey' = [FlightKey EXCEPT ![c] = key[c]]
      BY <3>1 DEF FlightPc, FlightKey
    <3>3. SF!Enter(c, key[c])
      BY <2>1, <3>1, <3>2 DEF SF!Enter
    <3>. QED  BY <3>1, <3>3 DEF SF!FlightNext
  <2>. QED  BY <2>2, <2>3
<1>3. CASE (AfterDo(c) \/ SetL2(c)) /\ pc'[c] # "idle"
  <2>1. UNCHANGED <<flight, val, key>>
    BY <1>3 DEF AfterDo, SetL2
  <2>2. FlightPc' = FlightPc /\ FlightKey' = FlightKey
    BY <1>3 DEF AfterDo, SetL2, FlightPc, FlightKey
  <2>. QED  BY <2>1, <2>2
<1>4. CASE SetL1(c) \/ ((AfterDo(c) \/ SetL2(c)) /\ pc'[c] = "idle")
  <2>1. /\ pc[c] \in {"loaded", "setL2", "setL1"} /\ UNCHANGED flight
        /\ pc' = [pc EXCEPT ![c] = "idle"]
        /\ key' = [key EXCEPT ![c] = NoKey]
        /\ val' = [val EXCEPT ![c] = NoResult]
    BY <1>4 DEF AfterDo, SetL2, SetL1
  <2>2. /\ FlightPc' = [FlightPc EXCEPT ![c] = "idle"] /\ FlightPc[c] = "loaded"
        /\ FlightKey' = [FlightKey EXCEPT ![c] = NoKey]
    BY <2>1 DEF FlightPc, FlightKey
  <2>3. SF!Return(c)
    BY <2>1, <2>2 DEF SF!Return
  <2>. QED  BY <2>3 DEF SF!FlightNext
<1>. QED  BY <1>1, <1>2, <1>3, <1>4 DEF Read

\* The cache's callers use Do as module SingleFlight has it.
THEOREM ImplementsSingleFlight == Spec => SF!FlightSpec
<1>1. Init => SF!FlightInit
  BY DEF Init, FlightInit, SF!FlightInit, FlightPc, FlightKey, Before, After
<1>2. Types /\ [Next]_vars => [SF!FlightNext]_SF!flightVars
  <2>. SUFFICES ASSUME Types, [Next]_vars PROVE [SF!FlightNext]_SF!flightVars
    OBVIOUS
  <2>1. CASE UNCHANGED flightVars
    BY <2>1 DEF flightVars, SF!flightVars, FlightPc, FlightKey
  <2>2. CASE UNCHANGED vars \/ Writer \/ L1Expires \/ L2Expires
    BY <2>1, <2>2
    DEF vars, flightVars, Writer, UpdateDb, DeleteL1, ClearL1, WriteL2, DeleteL2, ClearL2, WriteL1,
        L1Expires, L2Expires
  <2>3. ASSUME NEW c \in Callers, Read(c) PROVE [SF!FlightNext]_SF!flightVars
    BY <2>3, LoadRefines, OthersRefine
  <2>. QED  BY <2>2, <2>3 DEF Next
<1>. QED  BY <1>1, <1>2, TypesInvariant, PTL DEF Spec, SF!FlightSpec

\* In DoWithCache too one loader per key runs at a time (cache.go:285-305).
THEOREM OneLoaderRuns == Spec => []OneLoader
<1>1. Types /\ SF!FlightTypeOK /\ SF!OneLoader => OneLoader
  BY DEF Types, OneLoader, SF!OneLoader, FlightPc, FlightKey, DoPoints, Leading, Before, After
<1>. QED  BY <1>1, FlightTypes, OneLeader, ImplementsSingleFlight, TypesInvariant, PTL

\* A waiter of DoWithCache waits for a call that somebody will finish, unless its loader
\* panicked (cache.go:285-305).
THEOREM WaitersAreLed == Spec => []WaitersHaveLeader
<1>1. Types /\ SF!FlightTypeOK /\ SF!WaitersHaveLeader => WaitersHaveLeader
  <2>. SUFFICES ASSUME Types, SF!FlightTypeOK, SF!WaitersHaveLeader,
                       NEW c \in Callers, pc[c] = "wait"
                PROVE  \E f \in FlightsOf(key[c]) :
                         f.panicked \/ (pc[f.leader] \in {"run", "settle"} /\ key[f.leader] = key[c])
    BY DEF WaitersHaveLeader
  <2>1. FlightPc[c] = "wait" /\ FlightKey[c] = key[c]
    BY DEF FlightPc, FlightKey, Before, After
  <2>2. PICK f \in flight :
          /\ f.key = key[c]
          /\ f.panicked \/ (FlightPc[f.leader] \in {"run", "settle"} /\ FlightKey[f.leader] = key[c])
    BY <2>1 DEF SF!WaitersHaveLeader, SF!FlightsOf
  <2>3. f.leader \in Callers
    BY DEF SF!FlightTypeOK, SF!Call
  <2>4. FlightPc[f.leader] \in {"run", "settle"} =>
          pc[f.leader] = FlightPc[f.leader] /\ key[f.leader] = FlightKey[f.leader]
    BY <2>3 DEF FlightPc, FlightKey, Before, After
  <2>. QED  BY <2>2, <2>4 DEF FlightsOf
<1>. QED  BY <1>1, FlightTypes, LedWaiters, ImplementsSingleFlight, TypesInvariant, PTL

-----------------------------------------------------------------------------
(* What is stored and carried *)

\* A finished call is one that its leader is about to forget.
FlightFacts ==
  /\ flight \subseteq Call
  /\ \A f \in flight : f.done => pc[f.leader] = "forget" /\ key[f.leader] = f.key

LEMMA FlightFactsInvariant == Spec => []FlightFacts
<1>1. Types /\ SF!FlightTypeOK /\ FlightInv => FlightFacts
  <2>. SUFFICES ASSUME Types, SF!FlightTypeOK, FlightInv PROVE FlightFacts
    OBVIOUS
  <2>1. SF!Call = Call
    BY DEF Call, SF!Call
  <2>2. flight \subseteq Call
    BY <2>1 DEF SF!FlightTypeOK
  <2>3. ASSUME NEW f \in flight, f.done PROVE pc[f.leader] = "forget" /\ key[f.leader] = f.key
    <3>1. FlightPc[f.leader] = "forget" /\ FlightKey[f.leader] = f.key
      BY <2>3 DEF FlightInv, CallsLed
    <3>2. f.leader \in Callers
      BY <2>2 DEF Call
    <3>. QED  BY <3>1, <3>2 DEF FlightPc, FlightKey, Before, After
  <2>. QED  BY <2>2, <2>3 DEF FlightFacts
<1>2. SF!FlightSpec => [](SF!FlightTypeOK /\ FlightInv)
  <2>1. SF!FlightSpec => []SF!FlightTypeOK
    BY FlightTypes
  <2>2. SF!FlightSpec => []FlightInv
    BY FlightInvariant
  <2>. QED  BY <2>1, <2>2, PTL
<1>. QED  BY <1>1, <1>2, ImplementsSingleFlight, TypesInvariant, PTL

Pair == [key : Keys, val : Cached]
Entry == [key : Keys, val : Cached, expired : BOOLEAN]

\* Nothing but values that the database may hold, and the marker, get into the
\* caches; the writer has a key while it writes.
DataInv ==
  /\ \A f \in flight : f.done => f.val \in Results
  /\ \A c \in Callers :
       /\ pc[c] \in {"settle", "forget", "loaded"} => val[c] \in Results
       /\ pc[c] \in After => val[c] \in Values
       /\ backfill[c] \in Pair \cup {NoBackfill}
  /\ store \subseteq Entry
  /\ l2 \subseteq Pair
  /\ wpc \in {"idle", "invalidate", "deleteL2", "clearL2", "setL1"}
  /\ wkey \in Keys \cup {NoKey}
  /\ wpc = "idle" <=> wkey = NoKey
  /\ wpc = "setL1" => db[wkey] # Absent

\* What the operations of MemoryCache store.
LEMMA StoreStays ==
  ASSUME store \subseteq Entry,
         \/ \E k \in Keys, v \in Cached : MemSet(k, v)
         \/ \E k \in Keys : MemDelete(k)
         \/ MemClear
         \/ MemCleanup
         \/ \E k \in Keys : MemExpire(k)
  PROVE  store' \subseteq Entry
<1>1. ASSUME NEW k \in Keys, NEW v \in Cached, MemSet(k, v) PROVE store' \subseteq Entry
  <2>1. [key |-> k, val |-> v, expired |-> FALSE] \in Entry
    BY DEF Entry
  <2>2. PICK victims \in SUBSET Stored :
          store' = {e \in store : e.key \notin victims \cup {k}}
                     \cup {[key |-> k, val |-> v, expired |-> FALSE]}
    BY <1>1 DEF MemSet
  <2>. QED  BY <2>1, <2>2
<1>2. ASSUME NEW k \in Keys, MemExpire(k) PROVE store' \subseteq Entry
  <2>1. \A e \in Entry : [e EXCEPT !.expired = (e.key = k) \/ @] \in Entry
    BY DEF Entry
  <2>. QED  BY <1>2, <2>1 DEF MemExpire
<1>3. CASE \E k \in Keys : MemDelete(k)
  BY <1>3 DEF MemDelete
<1>4. CASE MemClear \/ MemCleanup
  BY <1>4 DEF MemClear, MemCleanup
<1>. QED  BY <1>1, <1>2, <1>3, <1>4

\* Every step leaves the L1 store alone, or is one operation of MemoryCache.
LEMMA StoreSteps ==
  ASSUME Types, DataInv, [Next]_vars
  PROVE  \/ UNCHANGED store
         \/ \E k \in Keys, v \in Cached : MemSet(k, v)
         \/ \E k \in Keys : MemDelete(k)
         \/ MemClear
         \/ MemCleanup
         \/ \E k \in Keys : MemExpire(k)
<1>. USE LoadingAssumption DEF cacheVars
<1>1. CASE UNCHANGED vars \/ L2Expires
  BY <1>1 DEF vars, L2Expires
<1>2. ASSUME NEW c \in Callers, Read(c)
      PROVE  \/ UNCHANGED store
             \/ \E k \in Keys, v \in Cached : MemSet(k, v)
             \/ \E k \in Keys : MemDelete(k)
  <2>1. CASE ReadStart(c) \/ GetL1(c) \/ GetL2(c) \/ Load(c) \/ AfterDo(c) \/ SetL2(c)
    BY <2>1 DEF ReadStart, GetL1, GetL2, Load, AfterDo, SetL2
  <2>2. CASE DropL1(c)
    <3>1. key[c] \in Keys /\ MemDelete(key[c])
      BY <2>2 DEF DropL1, Types
    <3>. QED  BY <3>1
  <2>3. CASE Backfill(c)
    <3>1. backfill[c] \in Pair
      BY <2>3 DEF Backfill, DataInv
    <3>2. /\ backfill[c].key \in Keys /\ backfill[c].val \in Cached
          /\ MemSet(backfill[c].key, backfill[c].val)
      BY <2>3, <3>1 DEF Backfill, Pair
    <3>. QED  BY <3>2
  <2>4. CASE SetL1(c)
    <3>1. /\ key[c] \in Keys /\ CacheForm(val[c]) \in Cached
          /\ MemSet(key[c], CacheForm(val[c]))
      BY <2>4 DEF SetL1, Types, DataInv, After, CacheForm, Cached
    <3>. QED  BY <3>1
  <2>. QED  BY <1>2, <2>1, <2>2, <2>3, <2>4 DEF Read
<1>3. CASE Writer
  <2>1. CASE UpdateDb \/ WriteL2 \/ DeleteL2 \/ ClearL2
    BY <2>1 DEF UpdateDb, WriteL2, DeleteL2, ClearL2
  <2>2. CASE DeleteL1 \/ ClearL1
    BY <2>2 DEF DeleteL1, ClearL1, DataInv
  <2>3. CASE WriteL1
    <3>1. wkey \in Keys /\ db[wkey] \in Cached /\ MemSet(wkey, db[wkey])
      BY <2>3 DEF WriteL1, Types, DataInv, Cached
    <3>. QED  BY <3>1
  <2>. QED  BY <1>3, <2>1, <2>2, <2>3 DEF Writer
<1>4. CASE L1Expires
  BY <1>4 DEF L1Expires
<1>. QED  BY <1>1, <1>2, <1>3, <1>4 DEF Next

\* Who holds a result holds one that a loader may return.
LEMMA ResultsStay ==
  ASSUME Types, DataInv, FlightFacts, [Next]_vars
  PROVE  /\ \A f \in flight' : f.done => f.val \in Results
         /\ \A c \in Callers :
              /\ pc'[c] \in {"settle", "forget", "loaded"} => val'[c] \in Results
              /\ pc'[c] \in After => val'[c] \in Values
<1>. DEFINE Goal == /\ \A f \in flight' : f.done => f.val \in Results
                    /\ \A c \in Callers :
                         /\ pc'[c] \in {"settle", "forget", "loaded"} => val'[c] \in Results
                         /\ pc'[c] \in After => val'[c] \in Values
<1>. USE LoadingAssumption DEF Types, DataInv, DoPoints, Leading, Before, After, Goto, Leave
<1>1. CASE UNCHANGED <<flight, pc, val>>
  BY <1>1
<1>2. CASE UNCHANGED vars \/ Writer \/ L1Expires \/ L2Expires
  BY <1>1, <1>2
  DEF vars, flightVars, Writer, UpdateDb, DeleteL1, ClearL1, WriteL2, DeleteL2, ClearL2, WriteL1,
      L1Expires, L2Expires
<1>3. ASSUME NEW c \in Callers, Read(c) PROVE Goal
  <2>1. CASE ReadStart(c) \/ GetL1(c) \/ DropL1(c) \/ GetL2(c) \/ Backfill(c)
    BY <2>1 DEF ReadStart, GetL1, DropL1, GetL2, Backfill, flightVars
  <2>2. CASE AfterDo(c) \/ SetL2(c) \/ SetL1(c)
    BY <2>2 DEF AfterDo, SetL2, SetL1
  <2>3. CASE DoJoin(c)
    <3>1. PICK f \in flight : /\ val' = [val EXCEPT ![c] = f.val]
                              /\ pc' = [pc EXCEPT ![c] = IF f.done THEN "loaded" ELSE "wait"]
                              /\ flight' = flight
      BY <2>3 DEF DoJoin, FlightsOf
    <3>. QED  BY <3>1
  <2>4. CASE DoLead(c)
    BY <2>4 DEF DoLead
  <2>5. CASE DoSettle(c)
    <3>1. \A f \in Led(c) : [f EXCEPT !.done = TRUE, !.val = val[c]].val = val[c]
      BY DEF Led, FlightFacts, Call
    <3>2. \A f \in flight' : f.done => f.val \in Results
      BY <2>5, <3>1 DEF DoSettle
    <3>. QED  BY <2>5, <3>2 DEF DoSettle
  <2>6. CASE DoForget(c)
    BY <2>6 DEF DoForget
  <2>7. CASE RunReturns(c, db[key[c]]) \/ RunReturns(c, Failed)
    BY <2>7 DEF RunReturns
  <2>8. CASE RunPanics(c)
    <3>1. ASSUME NEW f \in Led(c) PROVE ~ [f EXCEPT !.panicked = TRUE].done
      <4>1. f \in Call /\ ~ f.done
        BY <2>8 DEF Led, FlightFacts, RunPanics
      <4>2. [f EXCEPT !.panicked = TRUE].done = f.done
        BY <4>1 DEF Call
      <4>. QED  BY <4>1, <4>2
    <3>2. ASSUME NEW f \in flight', f.done PROVE f \in flight
      <4>1. flight' = (flight \ Led(c)) \cup {[d EXCEPT !.panicked = TRUE] : d \in Led(c)}
        BY <2>8 DEF RunPanics
      <4>2. f \in flight \/ \E d \in Led(c) : f = [d EXCEPT !.panicked = TRUE]
        BY <4>1
      <4>. QED  BY <4>2, <3>1, <3>2
    <3>4. \A f \in flight' : f.done => f.val \in Results
      BY <3>2
    <3>3. pc' = [pc EXCEPT ![c] = "idle"] /\ val' = [val EXCEPT ![c] = NoResult]
      BY <2>8 DEF RunPanics
    <3>. QED  BY <3>3, <3>4
  <2>. QED  BY <1>3, <2>1, <2>2, <2>3, <2>4, <2>5, <2>6, <2>7, <2>8 DEF Read, Load, Do
<1>. QED  BY <1>2, <1>3 DEF Next

\* The caches hold what the loaders and the writer brought.
LEMMA DataInvariant == Spec => []DataInv
<1>1. Init => DataInv
  BY LoadingAssumption DEF Init, FlightInit, MemInit, DataInv, After
<1>2. Types /\ FlightFacts /\ DataInv /\ [Next]_vars => DataInv'
  <2>. SUFFICES ASSUME Types, FlightFacts, DataInv, [Next]_vars PROVE DataInv'
    OBVIOUS
  <2>1. store' \subseteq Entry
    <3>1. store \subseteq Entry
      BY DEF DataInv
    <3>. QED  BY <3>1, StoreSteps, StoreStays
  <2>2. ASSUME NEW k \in Keys, NEW v \in Cached, PutL2(k, v) PROVE l2' \subseteq Pair
    <3>1. [key |-> k, val |-> v] \in Pair
      BY DEF Pair
    <3>. QED  BY <2>2, <3>1 DEF PutL2, DataInv
  <2>3. /\ l2' \subseteq Pair
        /\ \A c \in Callers : backfill'[c] \in Pair \cup {NoBackfill}
    <3>. USE DEF cacheVars, flightVars, writerVars
    <3>. USE DEF DataInv
    <3>1. CASE UNCHANGED vars \/ L1Expires \/ L2Expires
      BY <3>1 DEF vars, L1Expires, L2Expires
    <3>2. ASSUME NEW c \in Callers, Read(c)
          PROVE  /\ l2' \subseteq Pair
                 /\ \A d \in Callers : backfill'[d] \in Pair \cup {NoBackfill}
      <4>1. CASE ReadStart(c) \/ GetL1(c) \/ DropL1(c) \/ Load(c) \/ AfterDo(c) \/ SetL1(c)
        BY <4>1 DEF ReadStart, GetL1, DropL1, Load, AfterDo, SetL1
      <4>2. CASE GetL2(c) \/ Backfill(c)
        <5>1. CASE Backfill(c)
          BY <5>1 DEF Backfill
        <5>2. CASE GetL2(c) /\ \E e \in l2 : backfill' = [backfill EXCEPT ![c] = e]
          BY <5>2 DEF GetL2
        <5>3. CASE GetL2(c) /\ backfill' = backfill
          BY <5>3 DEF GetL2
        <5>. QED  BY <4>2, <5>1, <5>2, <5>3 DEF GetL2, L2Of
      <4>3. CASE SetL2(c)
        <5>1. key[c] \in Keys /\ CacheForm(val[c]) \in Cached /\ backfill' = backfill
          BY <4>3, LoadingAssumption DEF SetL2, Types, After, CacheForm, Cached
        <5>. QED  BY <4>3, <5>1, <2>2 DEF SetL2
      <4>. QED  BY <3>2, <4>1, <4>2, <4>3 DEF Read
    <3>3. CASE Writer
      <4>1. CASE WriteL2
        <5>1. wkey \in Keys /\ db[wkey] \in Cached /\ backfill' = backfill
          BY <4>1, LoadingAssumption DEF WriteL2, Types, Cached
        <5>. QED  BY <4>1, <5>1, <2>2 DEF WriteL2
      <4>2. CASE UpdateDb \/ DeleteL1 \/ ClearL1 \/ DeleteL2 \/ ClearL2 \/ WriteL1
        BY <4>2 DEF UpdateDb, DeleteL1, ClearL1, DeleteL2, ClearL2, WriteL1
      <4>. QED  BY <3>3, <4>1, <4>2 DEF Writer
    <3>. QED  BY <3>1, <3>2, <3>3 DEF Next
  <2>4. /\ wpc' \in {"idle", "invalidate", "deleteL2", "clearL2", "setL1"}
        /\ wkey' \in Keys \cup {NoKey}
        /\ wpc' = "idle" <=> wkey' = NoKey
        /\ wpc' = "setL1" => db'[wkey'] # Absent
    <3>. USE FlightAssumption DEF DataInv
    <3>1. CASE UNCHANGED writerVars
      BY <3>1 DEF writerVars
    <3>2. CASE UNCHANGED vars \/ L1Expires \/ L2Expires
      BY <3>1, <3>2 DEF vars, writerVars, L1Expires, L2Expires
    <3>3. ASSUME NEW c \in Callers, Read(c) PROVE UNCHANGED writerVars
      BY <3>3
      DEF Read, ReadStart, GetL1, DropL1, GetL2, Backfill, Load, AfterDo, SetL2, SetL1
    <3>4. CASE Writer
      BY <3>4 DEF Writer, UpdateDb, DeleteL1, ClearL1, WriteL2, DeleteL2, ClearL2, WriteL1, Written
    <3>. QED  BY <3>1, <3>2, <3>3, <3>4 DEF Next
  <2>5. /\ \A f \in flight' : f.done => f.val \in Results
        /\ \A c \in Callers :
             /\ pc'[c] \in {"settle", "forget", "loaded"} => val'[c] \in Results
             /\ pc'[c] \in After => val'[c] \in Values
    BY ResultsStay
  <2>. QED  BY <2>1, <2>3, <2>4, <2>5 DEF DataInv
<1>. QED  BY <1>1, <1>2, TypesInvariant, FlightFactsInvariant, PTL DEF Spec

-----------------------------------------------------------------------------
(* The size of the cache *)

\* One entry per key, and room for the entries.
SizeInv ==
  /\ \A e, f \in store : e.key = f.key => e = f
  /\ IsFiniteSet(Stored)
  /\ MaxSize > 0 => Cardinality(Stored) <= MaxSize

\* A set of entries with a key of its own each has as many keys as entries.
LEMMA AsManyKeys ==
  ASSUME IsFiniteSet(Stored), \A e, f \in store : e.key = f.key => e = f
  PROVE  IsFiniteSet(store) /\ Cardinality(store) = Cardinality(Stored)
<1>. DEFINE at == [k \in Stored |-> CHOOSE e \in store : e.key = k]
<1>1. \A k \in Stored : at[k] \in store /\ at[k].key = k
  BY DEF Stored
<1>2. \A e \in store : e.key \in Stored /\ at[e.key] = e
  BY <1>1 DEF Stored
<1>3. at \in Bijection(Stored, store)
  <2>1. at \in [Stored -> store]
    BY <1>1
  <2>. HIDE DEF at
  <2>2. at \in Injection(Stored, store)
    BY <1>1, <2>1, Fun_IsInj
  <2>3. at \in Surjection(Stored, store)
    BY <1>2, <2>1, Fun_IsSurj
  <2>. QED  BY <2>2, <2>3 DEF Bijection
<1>4. ExistsBijection(Stored, store)
  BY <1>3 DEF ExistsBijection
<1>. QED  BY <1>4, FS_Bijection

\* Set makes room for the entry that it adds.
LEMMA SetKeepsSize ==
  ASSUME SizeInv, NEW k, NEW v, MemSet(k, v), MaxSize \in Nat
  PROVE  SizeInv'
<1>1. PICK victims \in SUBSET Stored :
        /\ Cardinality(victims) =
             IF MaxSize > 0 /\ Cardinality(Stored) >= MaxSize THEN 1 ELSE 0
        /\ store' = {e \in store : e.key \notin victims \cup {k}}
                      \cup {[key |-> k, val |-> v, expired |-> FALSE]}
  BY DEF MemSet
<1>2. \A e, f \in store' : e.key = f.key => e = f
  <2>1. [key |-> k, val |-> v, expired |-> FALSE].key = k
    OBVIOUS
  <2>2. \A e \in store' : \/ e \in store /\ e.key # k
                          \/ e = [key |-> k, val |-> v, expired |-> FALSE]
    BY <1>1
  <2>. QED  BY <2>1, <2>2 DEF SizeInv
<1>3. Stored' = (Stored \ victims) \cup {k}
  <2>1. Stored' = {e.key : e \in store'}
    BY DEF Stored
  <2>2. [key |-> k, val |-> v, expired |-> FALSE].key = k
    OBVIOUS
  <2>. QED  BY <1>1, <2>1, <2>2 DEF Stored
<1>. DEFINE rest == Stored \ victims
<1>4. IsFiniteSet(Stored) /\ IsFiniteSet(victims) /\ Stored \cap victims = victims
  BY FS_Subset DEF SizeInv
<1>5. /\ IsFiniteSet(rest) /\ Cardinality(rest) = Cardinality(Stored) - Cardinality(victims)
      /\ Cardinality(rest) \in Nat /\ Cardinality(Stored) \in Nat
  BY <1>4, FS_Difference, FS_CardinalityType
<1>6. IsFiniteSet(rest \cup {k}) /\ Cardinality(rest \cup {k}) <= Cardinality(rest) + 1
  <2>1. /\ IsFiniteSet(rest \cup {k})
        /\ Cardinality(rest \cup {k}) =
             IF k \in rest THEN Cardinality(rest) ELSE Cardinality(rest) + 1
    BY <1>5, FS_AddElement
  <2>. QED  BY <1>5, <2>1
<1>. HIDE DEF rest
<1>7. ASSUME MaxSize > 0 PROVE Cardinality(rest \cup {k}) <= MaxSize
  <2>1. Cardinality(Stored) <= MaxSize
    BY <1>7 DEF SizeInv
  <2>2. Cardinality(rest \cup {k}) \in Nat
    BY <1>6, FS_CardinalityType
  <2>. QED  BY <1>1, <1>5, <1>6, <1>7, <2>1, <2>2
<1>. QED  BY <1>2, <1>3, <1>6, <1>7 DEF SizeInv, rest

\* The other operations add no key.
LEMMA OthersKeepSize ==
  ASSUME SizeInv, store \subseteq Entry, MaxSize \in Nat,
         \/ \E k \in Keys : MemDelete(k)
         \/ MemClear
         \/ MemCleanup
         \/ \E k \in Keys : MemExpire(k)
  PROVE  SizeInv'
<1>1. /\ Stored' \subseteq Stored
      /\ \A e, f \in store' : e.key = f.key => e = f
  <2>1. Stored' = {e.key : e \in store'}
    BY DEF Stored
  <2>2. CASE (\E k \in Keys : MemDelete(k)) \/ MemClear \/ MemCleanup
    <3>1. store' \subseteq store
      BY <2>2 DEF MemDelete, MemClear, MemCleanup
    <3>. QED  BY <2>1, <3>1 DEF SizeInv, Stored
  <2>3. ASSUME NEW k \in Keys, MemExpire(k)
        PROVE  /\ Stored' \subseteq Stored
               /\ \A e, f \in store' : e.key = f.key => e = f
    <3>1. \A e \in Entry : [e EXCEPT !.expired = (e.key = k) \/ @].key = e.key
      BY DEF Entry
    <3>2. store' = {[e EXCEPT !.expired = (e.key = k) \/ @] : e \in store}
      BY <2>3 DEF MemExpire
    <3>3. \A e \in store' : \E d \in store :
            e = [d EXCEPT !.expired = (d.key = k) \/ @] /\ d \in Entry
      BY <3>2
    <3>4. \A e, f \in store' : e.key = f.key => e = f
      <4>. SUFFICES ASSUME NEW e \in store', NEW f \in store', e.key = f.key PROVE e = f
        OBVIOUS
      <4>1. PICK d \in store : e = [d EXCEPT !.expired = (d.key = k) \/ @] /\ d \in Entry
        BY <3>3
      <4>2. PICK g \in store : f = [g EXCEPT !.expired = (g.key = k) \/ @] /\ g \in Entry
        BY <3>3
      <4>3. d = g
        BY <4>1, <4>2, <3>1 DEF SizeInv
      <4>. QED  BY <4>1, <4>2, <4>3
    <3>5. ASSUME NEW e \in store' PROVE e.key \in Stored
      <4>1. PICK d \in store : e = [d EXCEPT !.expired = (d.key = k) \/ @] /\ d \in Entry
        BY <3>3
      <4>2. e.key = d.key
        BY <4>1, <3>1
      <4>. QED  BY <4>2 DEF Stored
    <3>6. Stored' \subseteq Stored
      BY <2>1, <3>5
    <3>. QED  BY <3>4, <3>6
  <2>4. CASE \E k \in Keys : MemDelete(k)
    BY <2>2, <2>4
  <2>5. CASE \E k \in Keys : MemExpire(k)
    BY <2>3, <2>5
  <2>. QED  BY <2>2, <2>4, <2>5
<1>2. /\ IsFiniteSet(Stored') /\ Cardinality(Stored') <= Cardinality(Stored)
      /\ Cardinality(Stored') \in Nat /\ Cardinality(Stored) \in Nat
  BY <1>1, FS_Subset, FS_CardinalityType DEF SizeInv
<1>. QED  BY <1>1, <1>2 DEF SizeInv

\* MemoryCache never holds more than MaxSize entries, or two for a key, whatever reads,
\* writes, expiry and cleanup do to it (cache.go:185-268).
THEOREM CacheStaysBounded == Spec => []CacheBounded
<1>1. Init => SizeInv
  <2>1. store = {} => Stored = {}
    BY DEF Stored
  <2>. QED  BY <2>1, FS_EmptySet, CacheAssumption DEF Init, MemInit, SizeInv
<1>2. Types /\ DataInv /\ SizeInv /\ [Next]_vars => SizeInv'
  <2>. SUFFICES ASSUME Types, DataInv, SizeInv, [Next]_vars PROVE SizeInv'
    OBVIOUS
  <2>1. CASE UNCHANGED store
    BY <2>1 DEF SizeInv, Stored
  <2>2. store \subseteq Entry
    BY DEF DataInv
  <2>. QED  BY <2>1, <2>2, StoreSteps, SetKeepsSize, OthersKeepSize, CacheAssumption
<1>3. SizeInv => CacheBounded
  BY AsManyKeys DEF SizeInv, CacheBounded
<1>. QED  BY <1>1, <1>2, <1>3, TypesInvariant, DataInvariant, PTL DEF Spec

-----------------------------------------------------------------------------
(* Coherence *)

\* The results under way for a key, and the back-fills, carry what the database holds.
Carries(k) ==
  /\ \A f \in flight : f.key = k /\ f.done => f.val \in {db[k], Failed}
  /\ \A c \in Callers :
       /\ key[c] = k /\ pc[c] \in {"settle", "forget", "loaded"} => val[c] \in {db[k], Failed}
       /\ key[c] = k /\ pc[c] \in After => val[c] = db[k]
       /\ backfill[c] # NoBackfill /\ backfill[c].key = k => backfill[c].val = CacheForm(db[k])

\* A level may hold something else only until the writer has been there.
L1Coherent(k) ==
  wkey # k \/ wpc \in {"deleteL2", "clearL2"} => \A e \in EntriesOf(k) : e.val = CacheForm(db[k])

L2Coherent(k) ==
  wkey # k \/ wpc = "setL1" => \A e \in L2Of(k) : e.val = CacheForm(db[k])

CohInv == \A k \in Keys \ raced : Carries(k) /\ L1Coherent(k) /\ L2Coherent(k)

\* A key stays out of the race, or the step says that it raced.
LEMMA RacedGrows ==
  ASSUME Types, DataInv, [Next]_vars
  PROVE  raced \subseteq raced'
<1>1. CASE UNCHANGED vars \/ L1Expires \/ L2Expires
  BY <1>1 DEF vars, L1Expires, L2Expires
<1>2. ASSUME NEW c \in Callers, Read(c) PROVE raced \subseteq raced'
  BY <1>2 DEF Read, ReadStart, GetL1, DropL1, GetL2, Backfill, Load, AfterDo, SetL2, SetL1
<1>3. CASE Writer
  BY <1>3 DEF Writer, UpdateDb, DeleteL1, ClearL1, WriteL2, DeleteL2, ClearL2, WriteL1, Written
<1>. QED  BY <1>1, <1>2, <1>3 DEF Next

\* The database changes only in UpdateDb.
LEMMA OnlyUpdateDb ==
  ASSUME [Next]_vars
  PROVE  UpdateDb \/ UNCHANGED db
<1>. USE DEF writerVars
<1>1. CASE UNCHANGED vars \/ L1Expires \/ L2Expires
  BY <1>1 DEF vars, L1Expires, L2Expires
<1>2. ASSUME NEW c \in Callers, Read(c) PROVE UNCHANGED db
  BY <1>2 DEF Read, ReadStart, GetL1, DropL1, GetL2, Backfill, Load, AfterDo, SetL2, SetL1
<1>3. CASE Writer
  BY <1>3 DEF Writer, UpdateDb, DeleteL1, ClearL1, WriteL2, DeleteL2, ClearL2, WriteL1
<1>. QED  BY <1>1, <1>2, <1>3 DEF Next

\* An update of a key that nothing carries.
LEMMA UpdateKeepsCoherent ==
  ASSUME Types, DataInv, FlightFacts, UpdateDb,
         NEW k \in Keys \ raced', Carries(k), L1Coherent(k), L2Coherent(k)
  PROVE  Carries(k)' /\ L1Coherent(k)' /\ L2Coherent(k)'
<1>1. PICK u \in Keys, v \in Values :
        /\ db' = [db EXCEPT ![u] = v]
        /\ wkey' = u
        /\ raced' = IF Carried(u) THEN raced \cup {u} ELSE raced
  BY DEF UpdateDb
<1>2. UNCHANGED <<flight, pc, key, val, backfill, store, l2>> /\ wpc' = "invalidate"
  BY DEF UpdateDb, flightVars, cacheVars
<1>3. /\ EntriesOf(k)' = EntriesOf(k) /\ L2Of(k)' = L2Of(k)
      /\ wkey # k
  BY <1>2, FlightAssumption DEF EntriesOf, L2Of, UpdateDb, DataInv
<1>4. CASE u # k
  <2>1. db'[k] = db[k] /\ CacheForm(db'[k]) = CacheForm(db[k])
    BY <1>1, <1>4 DEF Types
  <2>2. Carries(k)'
    BY <1>2, <2>1 DEF Carries, CacheForm
  <2>3. L1Coherent(k)'
    BY <1>3, <2>1 DEF L1Coherent, CacheForm
  <2>4. L2Coherent(k)'
    BY <1>3, <2>1 DEF L2Coherent, CacheForm
  <2>. QED  BY <2>2, <2>3, <2>4
<1>5. CASE u = k
  <2>1. ~ Carried(k)
    BY <1>1, <1>5
  <2>2. \A f \in flight : ~ (f.key = k /\ f.done)
    <3>1. \A f \in flight : f.leader \in Callers
      BY DEF FlightFacts, Call
    <3>. QED  BY <2>1, <3>1 DEF Carried, FlightFacts
  <2>3. \A c \in Callers : ~ (backfill[c] # NoBackfill /\ backfill[c].key = k)
    BY <2>1 DEF Carried, DataInv, Pair
  <2>4. Carries(k)'
    BY <1>2, <2>1, <2>2, <2>3 DEF Carries, Carried, After
  <2>. QED  BY <1>1, <1>2, <1>5, <2>4 DEF L1Coherent, L2Coherent
<1>. QED  BY <1>4, <1>5

\* Who reads the database, or a cache that agrees with it, carries what it holds.
LEMMA CarriesStays ==
  ASSUME Types, DataInv, FlightFacts, [Next]_vars, UNCHANGED db,
         NEW k \in Keys \ raced', Carries(k), L2Coherent(k)
  PROVE  Carries(k)'
<1>. USE LoadingAssumption DEF Types, DoPoints, Leading, Before, After, Goto, Leave
<1>1. CASE UNCHANGED <<flight, pc, key, val, backfill>>
  BY <1>1 DEF Carries, CacheForm
<1>2. CASE UNCHANGED vars \/ Writer \/ L1Expires \/ L2Expires
  BY <1>1, <1>2
  DEF vars, flightVars, Writer, UpdateDb, DeleteL1, ClearL1, WriteL2, DeleteL2, ClearL2, WriteL1,
      L1Expires, L2Expires
<1>3. ASSUME NEW c \in Callers, Read(c) PROVE Carries(k)'
  <2>1. CASE ReadStart(c) \/ GetL1(c) \/ DropL1(c) \/ AfterDo(c) \/ SetL2(c) \/ SetL1(c)
    <3>1. UNCHANGED <<flight, backfill>>
      BY <2>1 DEF ReadStart, GetL1, DropL1, AfterDo, SetL2, SetL1
    <3>. QED  BY <2>1, <3>1 DEF Carries, CacheForm, ReadStart, GetL1, DropL1, AfterDo, SetL2, SetL1
  <2>2. CASE Backfill(c)
    <3>1. UNCHANGED <<flight, pc, key, val>> /\ backfill' = [backfill EXCEPT ![c] = NoBackfill]
      BY <2>2 DEF Backfill, flightVars
    <3>2. \A d \in Callers : backfill'[d] = NoBackfill \/ backfill'[d] = backfill[d]
      BY <3>1 DEF DataInv
    <3>. QED  BY <3>1, <3>2 DEF Carries, CacheForm
  <2>3. CASE GetL2(c)
    <3>1. CASE backfill' = backfill
      BY <2>3, <3>1 DEF GetL2, Carries, CacheForm
    <3>2. CASE backfill' # backfill
      <4>1. PICK e \in L2Of(key[c]) :
              /\ backfill' = [backfill EXCEPT ![c] = e]
              /\ raced' = IF wkey = e.key THEN raced \cup {e.key} ELSE raced
              /\ Leave(c) /\ UNCHANGED flight
        BY <2>3, <3>2 DEF GetL2
      <4>2. \A d \in Callers : backfill'[d] = backfill[d] \/ backfill'[d] = e
        BY <4>1
      <4>3. e.key = k => e.val = CacheForm(db[k])
        BY <4>1 DEF L2Coherent, L2Of
      <4>4. \A d \in Callers : backfill'[d] # NoBackfill /\ backfill'[d].key = k
                                => backfill'[d].val = CacheForm(db[k])
        BY <4>2, <4>3 DEF Carries
      <4>. QED  BY <4>1, <4>4 DEF Carries, CacheForm
    <3>. QED  BY <3>1, <3>2
  <2>4. CASE Load(c)
    <3>. DEFINE FlightPart == \A f \in flight' : f.key = k /\ f.done => f.val \in {db[k], Failed}
                CallerPart == \A d \in Callers :
                  /\ key'[d] = k /\ pc'[d] \in {"settle", "forget", "loaded"}
                       => val'[d] \in {db[k], Failed}
                  /\ key'[d] = k /\ pc'[d] \in After => val'[d] = db[k]
    <3>1. ASSUME DoJoin(c) PROVE FlightPart /\ CallerPart
      <4>1. PICK f \in FlightsOf(key[c]) : /\ val' = [val EXCEPT ![c] = f.val]
                                           /\ pc' = [pc EXCEPT ![c] = IF f.done THEN "loaded" ELSE "wait"]
                                           /\ UNCHANGED <<flight, key>>
        BY <3>1 DEF DoJoin
      <4>2. f.key = k /\ f.done => f.val \in {db[k], Failed}
        BY DEF Carries, FlightsOf
      <4>3. f.key = key[c]
        BY DEF FlightsOf
      <4>. QED  BY <4>1, <4>2, <4>3 DEF Carries
    <3>2. ASSUME DoLead(c) PROVE FlightPart /\ CallerPart
      BY <3>2 DEF DoLead, Carries
    <3>3. ASSUME DoSettle(c) PROVE FlightPart /\ CallerPart
      <4>1. ASSUME NEW f \in flight', f.key = k, f.done PROVE f.val \in {db[k], Failed}
        <5>1. CASE f \in flight
          BY <4>1, <5>1 DEF Carries
        <5>2. CASE \E g \in Led(c) : f = [g EXCEPT !.done = TRUE, !.val = val[c]]
          <6>1. PICK g \in Led(c) : f = [g EXCEPT !.done = TRUE, !.val = val[c]]
            BY <5>2
          <6>2. f.val = val[c] /\ f.key = g.key /\ g.key = key[c]
            BY <6>1 DEF Led, FlightFacts, Call
          <6>. QED  BY <3>3, <4>1, <6>2 DEF DoSettle, Carries
        <5>. QED  BY <3>3, <5>1, <5>2 DEF DoSettle
      <4>2. CallerPart
        BY <3>3 DEF DoSettle, Carries
      <4>. QED  BY <4>1, <4>2
    <3>4. ASSUME DoForget(c) PROVE FlightPart /\ CallerPart
      BY <3>4 DEF DoForget, Carries
    <3>5. ASSUME RunReturns(c, db[key[c]]) \/ RunReturns(c, Failed) PROVE FlightPart /\ CallerPart
      BY <3>5 DEF RunReturns, Carries
    <3>6. ASSUME RunPanics(c) PROVE FlightPart /\ CallerPart
      <4>1. ASSUME NEW f \in flight', f.key = k, f.done PROVE f.val \in {db[k], Failed}
        <5>1. CASE f \in flight
          BY <4>1, <5>1 DEF Carries
        <5>2. CASE \E g \in Led(c) : f = [g EXCEPT !.panicked = TRUE]
          <6>1. PICK g \in Led(c) : f = [g EXCEPT !.panicked = TRUE]
            BY <5>2
          <6>2. f.val = g.val /\ f.key = g.key /\ f.done = g.done /\ g \in flight
            BY <6>1 DEF Led, FlightFacts, Call
          <6>. QED  BY <4>1, <6>2 DEF Carries
        <5>. QED  BY <3>6, <5>1, <5>2 DEF RunPanics
      <4>2. pc' = [pc EXCEPT ![c] = "idle"] /\ val' = [val EXCEPT ![c] = NoResult]
            /\ key' = [key EXCEPT ![c] = NoKey]
        BY <3>6 DEF RunPanics
      <4>. QED  BY <4>1, <4>2 DEF Carries
    <3>7. FlightPart /\ CallerPart
      BY <2>4, <3>1, <3>2, <3>3, <3>4, <3>5, <3>6 DEF Load, Do
    <3>8. UNCHANGED backfill
      BY <2>4 DEF Load
    <3>. QED  BY <3>7, <3>8 DEF Carries, CacheForm
  <2>. QED  BY <1>3, <2>1, <2>2, <2>3, <2>4 DEF Read
<1>. QED  BY <1>2, <1>3 DEF Next

\* MemoryCache changes no value: an entry is one that was there, or the one being set.
LEMMA EntriesStay ==
  ASSUME store \subseteq Entry, NEW k \in Keys,
         \/ UNCHANGED store
         \/ \E u \in Keys, v \in Cached : MemSet(u, v) /\ u # k
         \/ \E u \in Keys : MemDelete(u)
         \/ MemClear
         \/ MemCleanup
         \/ \E u \in Keys : MemExpire(u)
  PROVE  \A e \in EntriesOf(k)' : \E d \in EntriesOf(k) : e.val = d.val
<1>1. CASE UNCHANGED store \/ MemClear \/ MemCleanup \/ \E u \in Keys : MemDelete(u)
  <2>1. store' \subseteq store
    BY <1>1 DEF MemClear, MemCleanup, MemDelete
  <2>. QED  BY <2>1 DEF EntriesOf
<1>2. ASSUME NEW u \in Keys, NEW v \in Cached, MemSet(u, v), u # k
      PROVE  \A e \in EntriesOf(k)' : \E d \in EntriesOf(k) : e.val = d.val
  <2>1. [key |-> u, val |-> v, expired |-> FALSE].key = u
    OBVIOUS
  <2>2. \A e \in store' : e \in store \/ e = [key |-> u, val |-> v, expired |-> FALSE]
    BY <1>2 DEF MemSet
  <2>. QED  BY <1>2, <2>1, <2>2 DEF EntriesOf
<1>3. ASSUME NEW u \in Keys, MemExpire(u)
      PROVE  \A e \in EntriesOf(k)' : \E d \in EntriesOf(k) : e.val = d.val
  <2>. SUFFICES ASSUME NEW e \in store', e.key = k
                PROVE  \E d \in store : d.key = k /\ e.val = d.val
    BY DEF EntriesOf
  <2>1. PICK d \in store : e = [d EXCEPT !.expired = (d.key = u) \/ @]
    BY <1>3 DEF MemExpire
  <2>2. e.val = d.val /\ e.key = d.key
    BY <2>1 DEF Entry
  <2>. QED  BY <2>2
<1>. QED  BY <1>1, <1>2, <1>3

\* What is set is what the key has.
LEMMA EntriesSet ==
  ASSUME NEW k, NEW v, MemSet(k, v)
  PROVE  \A e \in EntriesOf(k)' : e.val = v
<1>1. [key |-> k, val |-> v, expired |-> FALSE].val = v
  OBVIOUS
<1>. QED  BY <1>1 DEF MemSet, EntriesOf

LEMMA L1CoherentStays ==
  ASSUME Types, DataInv, [Next]_vars, UNCHANGED db,
         NEW k \in Keys \ raced', Carries(k), L1Coherent(k)
  PROVE  L1Coherent(k)'
<1>. USE LoadingAssumption, FlightAssumption
<1>. DEFINE Agree == \A e \in EntriesOf(k)' : e.val = CacheForm(db[k])
<1>1. store \subseteq Entry
  BY DEF DataInv
<1>2. SUFFICES ASSUME wkey' # k \/ wpc' \in {"deleteL2", "clearL2"} PROVE Agree
  BY DEF L1Coherent, CacheForm
<1>3. ASSUME wkey # k \/ wpc \in {"deleteL2", "clearL2"},
             \A e \in EntriesOf(k)' : \E d \in EntriesOf(k) : e.val = d.val
      PROVE  Agree
  BY <1>3 DEF L1Coherent
<1>4. CASE UNCHANGED vars \/ L2Expires
  <2>1. UNCHANGED <<store, wkey, wpc>>
    BY <1>4 DEF vars, L2Expires, writerVars
  <2>. QED  BY <1>1, <1>2, <1>3, <2>1, EntriesStay
<1>5. CASE L1Expires
  <2>1. UNCHANGED <<wkey, wpc>> /\ ((\E u \in Keys : MemExpire(u)) \/ MemCleanup)
    BY <1>5 DEF L1Expires, writerVars
  <2>. QED  BY <1>1, <1>2, <1>3, <2>1, EntriesStay
<1>6. ASSUME NEW c \in Callers, Read(c) PROVE Agree
  <2>1. UNCHANGED <<wkey, wpc>>
    BY <1>6
    DEF Read, ReadStart, GetL1, DropL1, GetL2, Backfill, Load, AfterDo, SetL2, SetL1, writerVars
  <2>2. CASE UNCHANGED store
    BY <1>1, <1>2, <1>3, <2>1, <2>2, EntriesStay
  <2>3. CASE ReadStart(c) \/ GetL1(c) \/ GetL2(c) \/ Load(c) \/ AfterDo(c) \/ SetL2(c)
    BY <2>2, <2>3 DEF ReadStart, GetL1, GetL2, Load, AfterDo, SetL2, cacheVars
  <2>4. CASE DropL1(c)
    <3>1. key[c] \in Keys /\ MemDelete(key[c])
      BY <2>4 DEF DropL1, Types
    <3>. QED  BY <1>1, <1>2, <1>3, <2>1, <3>1, EntriesStay
  <2>5. ASSUME NEW u \in Keys, NEW v \in Cached, MemSet(u, v), u = k => v = CacheForm(db[k])
        PROVE  Agree
    <3>1. CASE u = k
      BY <2>5, <3>1, EntriesSet
    <3>2. CASE u # k
      BY <1>1, <1>2, <1>3, <2>1, <2>5, <3>2, EntriesStay
    <3>. QED  BY <3>1, <3>2
  <2>6. CASE Backfill(c)
    <3>1. backfill[c] \in Pair /\ backfill[c] # NoBackfill
      BY <2>6 DEF Backfill, DataInv
    <3>2. /\ backfill[c].key \in Keys /\ backfill[c].val \in Cached
          /\ MemSet(backfill[c].key, backfill[c].val)
          /\ backfill[c].key = k => backfill[c].val = CacheForm(db[k])
      BY <2>6, <3>1 DEF Backfill, Pair, Carries
    <3>. QED  BY <3>2, <2>5
  <2>7. CASE SetL1(c)
    <3>1. /\ key[c] \in Keys /\ CacheForm(val[c]) \in Cached
          /\ MemSet(key[c], CacheForm(val[c]))
          /\ key[c] = k => val[c] = db[k]
      BY <2>7 DEF SetL1, Types, DataInv, After, CacheForm, Cached, Carries
    <3>. QED  BY <3>1, <2>5
  <2>. QED  BY <1>6, <2>3, <2>4, <2>6, <2>7 DEF Read
<1>7. CASE Writer
  <2>1. CASE UpdateDb
    <3>1. UNCHANGED store /\ wkey # k
      BY <2>1 DEF UpdateDb, cacheVars, DataInv
    <3>. QED  BY <1>1, <1>3, <3>1, EntriesStay
  <2>2. CASE DeleteL1
    <3>1. wkey \in Keys /\ MemDelete(wkey) /\ UNCHANGED wkey
      BY <2>2 DEF DeleteL1, DataInv
    <3>2. CASE wkey = k
      BY <3>1, <3>2 DEF MemDelete, EntriesOf
    <3>3. CASE wkey # k
      BY <1>1, <1>3, <3>1, <3>3, EntriesStay
    <3>. QED  BY <3>2, <3>3
  <2>3. CASE ClearL1
    BY <2>3 DEF ClearL1, MemClear, EntriesOf
  <2>4. CASE WriteL2 \/ DeleteL2 \/ ClearL2
    <3>1. UNCHANGED store
      BY <2>4 DEF WriteL2, DeleteL2, ClearL2
    <3>2. wkey # k \/ wpc \in {"deleteL2", "clearL2"}
      BY <1>2, <2>4 DEF WriteL2, DeleteL2, ClearL2, Written
    <3>. QED  BY <1>1, <1>3, <3>1, <3>2, EntriesStay
  <2>5. CASE WriteL1
    <3>1. wkey \in Keys /\ db[wkey] \in Cached /\ MemSet(wkey, db[wkey])
      BY <2>5 DEF WriteL1, Types, DataInv, Cached
    <3>2. CASE wkey = k
      <4>1. CacheForm(db[k]) = db[k]
        BY <2>5, <3>2 DEF WriteL1, DataInv, CacheForm
      <4>. QED  BY <3>1, <3>2, <4>1, EntriesSet
    <3>3. CASE wkey # k
      BY <1>1, <1>3, <3>1, <3>3, EntriesStay
    <3>. QED  BY <3>2, <3>3
  <2>. QED  BY <1>7, <2>1, <2>2, <2>3, <2>4, <2>5 DEF Writer
<1>. QED  BY <1>4, <1>5, <1>6, <1>7 DEF Next

LEMMA L2CoherentStays ==
  ASSUME Types, DataInv, [Next]_vars, UNCHANGED db,
         NEW k \in Keys \ raced', Carries(k), L2Coherent(k)
  PROVE  L2Coherent(k)'
<1>. USE LoadingAssumption, FlightAssumption
<1>. DEFINE Agree == \A e \in L2Of(k)' : e.val = CacheForm(db[k])
<1>1. SUFFICES ASSUME wkey' # k \/ wpc' = "setL1" PROVE Agree
  BY DEF L2Coherent, CacheForm
<1>2. ASSUME wkey # k \/ wpc = "setL1", l2' \subseteq l2 PROVE Agree
  BY <1>2 DEF L2Coherent, L2Of
<1>3. ASSUME NEW u, NEW v, PutL2(u, v), u # k, wkey # k \/ wpc = "setL1" PROVE Agree
  <2>1. [key |-> u, val |-> v].key = u
    OBVIOUS
  <2>2. L2Of(k)' \subseteq L2Of(k)
    BY <1>3, <2>1 DEF PutL2, L2Of
  <2>. QED  BY <1>3, <2>2 DEF L2Coherent
<1>4. ASSUME PutL2(k, CacheForm(db[k])) PROVE Agree
  <2>1. [key |-> k, val |-> CacheForm(db[k])].val = CacheForm(db[k])
    OBVIOUS
  <2>. QED  BY <1>4, <2>1 DEF PutL2, L2Of
<1>5. CASE UNCHANGED vars \/ L1Expires \/ L2Expires
  <2>1. UNCHANGED <<wkey, wpc>> /\ l2' \subseteq l2
    BY <1>5 DEF vars, L1Expires, L2Expires, writerVars
  <2>. QED  BY <1>1, <1>2, <2>1
<1>6. ASSUME NEW c \in Callers, Read(c) PROVE Agree
  <2>1. UNCHANGED <<wkey, wpc>>
    BY <1>6
    DEF Read, ReadStart, GetL1, DropL1, GetL2, Backfill, Load, AfterDo, SetL2, SetL1, writerVars
  <2>2. CASE l2' \subseteq l2
    BY <1>1, <1>2, <2>1, <2>2
  <2>3. CASE \/ ReadStart(c) \/ GetL1(c) \/ DropL1(c) \/ GetL2(c) \/ Backfill(c)
             \/ Load(c) \/ AfterDo(c) \/ SetL1(c)
    BY <2>2, <2>3
    DEF ReadStart, GetL1, DropL1, GetL2, Backfill, Load, AfterDo, SetL1, cacheVars
  <2>4. CASE SetL2(c)
    <3>1. key[c] = k => val[c] = db[k]
      BY <2>4 DEF SetL2, After, Carries
    <3>2. l2' = l2 \/ PutL2(key[c], CacheForm(val[c]))
      BY <2>4 DEF SetL2
    <3>. QED  BY <1>1, <1>3, <1>4, <2>1, <2>2, <3>1, <3>2
  <2>. QED  BY <1>6, <2>3, <2>4 DEF Read
<1>7. CASE Writer
  <2>1. CASE UpdateDb
    BY <1>2, <2>1 DEF UpdateDb, cacheVars, DataInv
  <2>2. CASE DeleteL1 \/ ClearL1
    BY <1>1, <1>2, <2>2 DEF DeleteL1, ClearL1
  <2>3. CASE WriteL2
    <3>1. CASE wkey = k /\ PutL2(wkey, db[wkey])
      <4>1. CacheForm(db[k]) = db[k]
        BY <2>3, <3>1 DEF WriteL2, CacheForm
      <4>. QED  BY <3>1, <4>1, <1>4
    <3>2. CASE wkey # k
      BY <1>2, <1>3, <2>3, <3>2 DEF WriteL2
    <3>3. wkey = k => PutL2(wkey, db[wkey])
      BY <2>3 DEF WriteL2, Written
    <3>. QED  BY <3>1, <3>2, <3>3
  <2>4. CASE DeleteL2
    <3>1. CASE l2' = l2 \ L2Of(wkey)
      BY <1>2, <2>4, <3>1 DEF L2Of
    <3>2. CASE l2' # l2 \ L2Of(wkey)
      BY <1>2, <2>4, <3>2 DEF DeleteL2, Written
    <3>. QED  BY <3>1, <3>2
  <2>5. CASE ClearL2
    <3>1. CASE l2' = {}
      BY <3>1 DEF L2Of
    <3>2. CASE l2' # {}
      BY <1>2, <2>5, <3>2 DEF ClearL2, Written
    <3>. QED  BY <3>1, <3>2
  <2>6. CASE WriteL1
    <3>1. l2' = l2 /\ wpc = "setL1"
      BY <2>6 DEF WriteL1
    <3>. QED  BY <1>2, <3>1
  <2>. QED  BY <1>7, <2>1, <2>2, <2>3, <2>4, <2>5, <2>6 DEF Writer
<1>. QED  BY <1>5, <1>6, <1>7 DEF Next

\* Both levels agree with the database on every key that no update is under way on and
\* that no update raced for: Set writes L2 before L1, Delete and Clear the other way
\* round, and the back-fill only repeats what L2 had (cache.go:50-93, 309-340).
THEOREM CoherenceHolds == Spec => []CoherentUnlessRaced
<1>1. Init => CohInv
  BY LoadingAssumption
  DEF Init, FlightInit, MemInit, CohInv, Carries, L1Coherent, L2Coherent, EntriesOf, L2Of, After
<1>2. Types /\ DataInv /\ FlightFacts /\ CohInv /\ [Next]_vars => CohInv'
  <2>. SUFFICES ASSUME Types, DataInv, FlightFacts, CohInv, [Next]_vars, NEW k \in Keys \ raced'
                PROVE  Carries(k)' /\ L1Coherent(k)' /\ L2Coherent(k)'
    BY DEF CohInv
  <2>1. Carries(k) /\ L1Coherent(k) /\ L2Coherent(k)
    BY RacedGrows DEF CohInv
  <2>. QED  BY <2>1, OnlyUpdateDb, UpdateKeepsCoherent, CarriesStays, L1CoherentStays, L2CoherentStays
<1>3. CohInv => CoherentUnlessRaced
  BY DEF CohInv, L1Coherent, L2Coherent, CoherentUnlessRaced
<1>. QED  BY <1>1, <1>2, <1>3, TypesInvariant, DataInvariant, FlightFactsInvariant, PTL DEF Spec
=============================================================================
