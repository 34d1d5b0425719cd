------------------------------ MODULE LiveProofs -----------------------------
(***************************************************************************)
(* The safety of the components that MCLive checks side by side, for any   *)
(* number of hooks and events and any finite set of requests.  A behaviour *)
(* of MCLive is one of each component.                                     *)
(***************************************************************************)
EXTENDS MCLive, Sequences, FiniteSetTheorems, TLAPS

-----------------------------------------------------------------------------
(* core/sse/sse.go: a stream in order and whole *)

Kinds == {"none", "stream", "interval", "direct"}

\* The places and the events have their types.
StreamTypes ==
  /\ kind \in Kinds
  /\ user \in {"select", "sending", "ended"}
  /\ loop \in {"select", "ended"}
  /\ produced \in Nat
  /\ ch \in Seq(Nat)
  /\ written \in Seq(Nat)

\* The events written, and behind them those in the channel, are numbered without a gap.
InOrder ==
  /\ \A i \in 1..Len(written) : written[i] = i
  /\ kind # "direct" => \A i \in 1..Len(ch) : ch[i] = Len(written) + i

\* Every event is written, in the channel or in the hand of the goroutine that sends it,
\* unless that goroutine has ended with its context done.
NoneLost ==
  kind \in {"stream", "interval"} =>
    /\ user = "sending" => Len(written) + Len(ch) + 1 = produced
    /\ user = "select" => Len(written) + Len(ch) = produced
    /\ user = "ended" => (ctxDone \/ Len(written) + Len(ch) = produced)

\* Before the request there is nothing, and a handler that writes by itself writes every
\* event until its writer is closed.
Alone ==
  /\ kind = "none" => produced = 0 /\ user = "ended" /\ loop = "ended" /\ ~ctxDone /\ ~chClosed /\ ~swClosed
                      /\ ch = <<>> /\ written = <<>>
  /\ kind = "direct" => ch = <<>> /\ user # "sending" /\ loop = "ended" /\ ~chClosed
                        /\ (swClosed \/ Len(written) = produced)

\* The channel is closed by the goroutine's end, and until the client leaves the context of
\* a stream ends with the loop, which has drained the channel.
Drained ==
  /\ chClosed => user = "ended"
  /\ kind = "stream" /\ ~left /\ loop = "select" => ~ctxDone
  /\ kind = "stream" /\ ~left /\ loop = "ended" => user = "ended" /\ Len(written) = produced

StreamInv == StreamTypes /\ InOrder /\ NoneLost /\ Alone /\ Drained

\* The invariant holds at first, whatever is left of the other parts.
LEMMA StreamStarts == SSE!Init => StreamInv
<1>. SUFFICES ASSUME SSE!Init PROVE StreamInv
  OBVIOUS
<1>1. StreamTypes
  BY DEF SSE!Init, StreamTypes, Kinds
<1>2. InOrder
  BY DEF SSE!Init, InOrder
<1>3. NoneLost
  BY DEF SSE!Init, NoneLost
<1>4. Drained
  BY DEF SSE!Init, Drained
<1>5. Alone
  BY DEF SSE!Init, Alone
<1>. QED  BY <1>1, <1>2, <1>3, <1>4, <1>5 DEF StreamInv

\* The goroutine that makes the events keeps it.
LEMMA StreamUser ==
  ASSUME StreamInv, SSE!TakeEvent \/ SSE!User
  PROVE  StreamInv'
<1>. USE DEF StreamInv, StreamTypes, InOrder, NoneLost, Alone, Drained, Kinds
<1>1. CASE SSE!TakeEvent
  <2>10. StreamTypes'
    BY <1>1 DEF SSE!TakeEvent
  <2>20. InOrder'
    BY <1>1 DEF SSE!TakeEvent
  <2>30. NoneLost'
    BY <1>1 DEF SSE!TakeEvent
  <2>35. Alone'
    BY <1>1 DEF SSE!TakeEvent
  <2>40. Drained'
    BY <1>1 DEF SSE!TakeEvent
  <2>. QED  BY <2>10, <2>20, <2>30, <2>35, <2>40
<1>2. CASE SSE!PutEvent
  <2>1. Len(ch') = Len(ch) + 1 /\ ch' \in Seq(Nat) /\ kind # "direct"
    <3>1. ch \in Seq(Nat) /\ produced \in Nat /\ ch' = Append(ch, produced)
      BY <1>2 DEF SSE!PutEvent
    <3>2. kind # "direct"
      BY <1>2 DEF SSE!PutEvent
    <3>. QED  BY <3>1, <3>2
  <2>2. \A i \in 1..Len(ch') : ch'[i] = Len(written) + i
    <3>1. ch \in Seq(Nat) /\ written \in Seq(Nat) /\ produced \in Nat /\ ch' = Append(ch, produced)
      BY <1>2 DEF SSE!PutEvent
    <3>2. user = "sending" /\ kind \in {"stream", "interval"}
      BY <1>2 DEF SSE!PutEvent
    <3>3. produced = Len(written) + Len(ch) + 1
      BY <3>1, <3>2
    <3>4. \A i \in 1..Len(ch) : ch[i] = Len(written) + i
      BY <3>2
    <3>. HIDE DEF StreamInv
    <3>. QED  BY ONLY <3>1, <3>3, <3>4
  <2>10. StreamTypes'
    BY <1>2, <2>1, <2>2 DEF SSE!PutEvent
  <2>20. InOrder'
    BY <1>2, <2>1, <2>2 DEF SSE!PutEvent
  <2>30. NoneLost'
    BY <1>2, <2>1, <2>2 DEF SSE!PutEvent
  <2>35. Alone'
    BY <1>2, <2>1, <2>2 DEF SSE!PutEvent
  <2>40. Drained'
    BY <1>2, <2>1, <2>2 DEF SSE!PutEvent
  <2>. QED  BY <2>10, <2>20, <2>30, <2>35, <2>40
<1>3. CASE SSE!UserReturn
  <2>10. StreamTypes'
    BY <1>3 DEF SSE!UserReturn
  <2>20. InOrder'
    BY <1>3 DEF SSE!UserReturn
  <2>30. NoneLost'
    BY <1>3 DEF SSE!UserReturn
  <2>35. Alone'
    BY <1>3 DEF SSE!UserReturn
  <2>40. Drained'
    BY <1>3 DEF SSE!UserReturn
  <2>. QED  BY <2>10, <2>20, <2>30, <2>35, <2>40
<1>. QED  BY <1>1, <1>2, <1>3 DEF SSE!User

\* The event loop keeps it.
LEMMA StreamLoop ==
  ASSUME StreamInv, SSE!Loop
  PROVE  StreamInv'
<1>. USE DEF StreamInv, StreamTypes, InOrder, NoneLost, Alone, Drained, Kinds
<1>1. CASE SSE!LoopEvent
  <2>1. ch \in Seq(Nat) /\ ch # <<>> /\ Head(ch) = ch[1] /\ kind \in {"stream", "interval"}
    BY <1>1 DEF SSE!LoopEvent
  <2>2. /\ Len(ch') = Len(ch) - 1 /\ ch' \in Seq(Nat)
        /\ \A i \in 1..Len(ch') : ch'[i] = ch[i + 1]
    BY <1>1, <2>1 DEF SSE!LoopEvent
  <2>3. /\ Len(written') = Len(written) + 1 /\ written' \in Seq(Nat)
        /\ \A i \in 1..Len(written) : written'[i] = written[i]
        /\ written'[Len(written) + 1] = ch[1]
    BY <1>1, <2>1 DEF SSE!LoopEvent
  <2>4. InOrder'
    BY <1>1, <2>1, <2>2, <2>3 DEF SSE!LoopEvent
  <2>10. StreamTypes'
    BY <1>1, <2>1, <2>2, <2>3 DEF SSE!LoopEvent
  <2>30. NoneLost'
    <3>1. Len(written') + Len(ch') = Len(written) + Len(ch)
      BY <2>1, <2>2, <2>3
    <3>. QED  BY <1>1, <3>1 DEF SSE!LoopEvent
  <2>35. Alone'
    BY <1>1, <2>1, <2>2, <2>3 DEF SSE!LoopEvent
  <2>40. Drained'
    BY <1>1, <2>1, <2>2, <2>3 DEF SSE!LoopEvent
  <2>. QED  BY <2>10, <2>4, <2>30, <2>35, <2>40
<1>2. CASE SSE!LoopEnd
  BY <1>2 DEF SSE!LoopEnd
<1>3. CASE SSE!LoopGone
  BY <1>3 DEF SSE!LoopGone
<1>. QED  BY <1>1, <1>2, <1>3 DEF SSE!Loop

\* The handler that writes by itself keeps it.
LEMMA StreamDirect ==
  ASSUME StreamInv, SSE!DirectSend \/ SSE!DirectReturn \/ SSE!DirectGone
  PROVE  StreamInv'
<1>. USE DEF StreamInv, StreamTypes, InOrder, NoneLost, Alone, Drained, Kinds
<1>1. CASE SSE!DirectSend
  <2>1. kind = "direct" /\ UNCHANGED kind
    BY <1>1 DEF SSE!DirectSend
  <2>2. CASE swClosed
    BY <1>1, <2>1, <2>2 DEF SSE!DirectSend
  <2>3. CASE ~swClosed
    <3>1. /\ Len(written') = Len(written) + 1 /\ written' \in Seq(Nat)
          /\ \A i \in 1..Len(written) : written'[i] = written[i]
          /\ written'[Len(written) + 1] = Len(written) + 1
      BY <1>1, <2>1, <2>3 DEF SSE!DirectSend
    <3>. QED  BY <1>1, <2>1, <2>3, <3>1 DEF SSE!DirectSend
  <2>. QED  BY <2>2, <2>3
<1>2. CASE SSE!DirectReturn
  BY <1>2 DEF SSE!DirectReturn
<1>3. CASE SSE!DirectGone
  BY <1>3 DEF SSE!DirectGone
<1>. QED  BY <1>1, <1>2, <1>3

\* Every step of the stream keeps the invariant.
LEMMA StreamStep == StreamInv /\ [SSE!Next]_(SSE!vars) => StreamInv'
<1>. SUFFICES ASSUME StreamInv, [SSE!Next]_(SSE!vars) PROVE StreamInv'
  OBVIOUS
<1>1. CASE UNCHANGED SSE!vars
  BY <1>1 DEF SSE!vars, StreamInv, StreamTypes, InOrder, NoneLost, Alone, Drained
<1>2. ASSUME NEW k \in {"stream", "interval", "direct"}, SSE!Serve(k) PROVE StreamInv'
  BY <1>2 DEF SSE!Serve, StreamInv, StreamTypes, InOrder, NoneLost, Alone, Drained, Kinds
<1>3. CASE SSE!Disconnect
  BY <1>3 DEF SSE!Disconnect, StreamInv, StreamTypes, InOrder, NoneLost, Alone, Drained, Kinds
<1>. QED  BY <1>1, <1>2, <1>3, StreamUser, StreamLoop, StreamDirect DEF SSE!Next

\* A behaviour of MCLive is one of the stream.
LEMMA StreamRuns == Spec => SSE!Spec
<1>1. Init => SSE!Init
  BY DEF Init
<1>2. [Next]_vars => [SSE!Next]_(SSE!vars)
  BY DEF Next, vars, sseVars, SSE!vars
<1>. QED  BY <1>1, <1>2, PTL DEF Spec, SSE!Spec

\* The client of an SSE endpoint receives the events in order and without a gap, and one
\* that stays until a stream's end receives all of them (sse.go:289).
THEOREM StreamsArriveIntact == Spec => []StreamIntact
<1>1. StreamInv => StreamIntact
  <2>. SUFFICES ASSUME StreamInv PROVE StreamIntact
    OBVIOUS
  <2>1. written = [i \in 1..Len(written) |-> i]
    BY DEF StreamInv, StreamTypes, InOrder
  <2>. QED  BY <2>1 DEF StreamIntact, SSE!StreamIntact, StreamInv, Drained
<1>. QED  BY <1>1, StreamStarts, StreamStep, StreamRuns, PTL DEF SSE!Spec

-----------------------------------------------------------------------------
(* core/lifecycle/lifecycle.go: what a Run that returns nil has done *)

Stages == {"idle", "startFn", "OnStart", "select", "Shutdown", "OnStop", "cancelled", "done", "failed"}

Stops == [hook : Nat, live : BOOLEAN]

\* The goroutines' places, and the hooks they have run, have their types.
LifeTypes ==
  /\ doing \in [LC!Goroutines -> Stages]
  /\ hook \in [LC!Goroutines -> Nat]
  /\ started \in Seq(Nat)
  /\ stopped \in [LC!Goroutines -> Seq(Stops)]

\* Run starts the hooks in their order.
InStartOrder ==
  /\ \A i \in 1..Len(started) : started[i] = i
  /\ doing["main"] \in {"idle", "startFn"} => Len(started) = 0
  /\ doing["main"] = "OnStart" => Len(started) = hook["main"] - 1 /\ hook["main"] \in 1..(Hooks + 1)
  /\ doing["main"] \in {"select", "Shutdown", "OnStop", "cancelled", "done"} => Len(started) = Hooks

\* It stops them in the reverse order.
InStopOrder ==
  /\ \A i \in 1..Len(stopped["main"]) : stopped["main"][i].hook = Hooks + 1 - i
  /\ doing["main"] \in {"idle", "startFn", "OnStart", "select", "Shutdown"} => Len(stopped["main"]) = 0
  /\ doing["main"] = "OnStop" => Len(stopped["main"]) = Hooks - hook["main"] /\ hook["main"] \in 0..Hooks
  /\ doing["main"] \in {"cancelled", "done"} => Len(stopped["main"]) = Hooks

\* The context is cancelled after that, unless another goroutine does it before.
CancelledLast ==
  /\ doing["main"] \in {"cancelled", "done"} => cancelled
  /\ doing["other"] = "idle" =>
       /\ doing["main"] \notin {"cancelled", "done"} => ~cancelled
       /\ \A i \in 1..Len(stopped["main"]) : stopped["main"][i].live

LifeInv == LifeTypes /\ InStartOrder /\ InStopOrder /\ CancelledLast

\* What Append does to a sequence.
LEMMA Appended ==
  ASSUME NEW S, NEW s \in Seq(S), NEW x \in S
  PROVE  /\ Append(s, x) \in Seq(S)
         /\ Len(Append(s, x)) = Len(s) + 1
         /\ \A i \in 1..Len(s) : Append(s, x)[i] = s[i]
         /\ Append(s, x)[Len(s) + 1] = x
OBVIOUS

\* The invariant holds at first.
LEMMA LifeStarts == LC!Init => LifeInv
<1>. SUFFICES ASSUME LC!Init PROVE LifeInv
  OBVIOUS
<1>1. LifeTypes
  <2>1. <<>> \in Seq(Stops) /\ <<>> \in Seq(Nat)
    OBVIOUS
  <2>. QED  BY <2>1 DEF LC!Init, LifeTypes, Stages
<1>2. InStartOrder /\ InStopOrder /\ CancelledLast
  BY DEF LC!Init, LC!Goroutines, InStartOrder, InStopOrder, CancelledLast
<1>. QED  BY <1>1, <1>2 DEF LifeInv

\* Run's way to its select keeps it.
LEMMA LifeRun ==
  ASSUME LifeInv, LC!Run \/ LC!StartFn \/ LC!OnStart \/ LC!Notify \/ LC!Wake
  PROVE  LifeInv'
<1>. USE HooksAssumption DEF LifeInv, LC!Goto, LC!Goroutines
<1>. HIDE DEF Stops
<1>1. CASE LC!Run
  <2>1. LifeTypes' /\ doing'["main"] = "startFn" /\ doing'["other"] = doing["other"] /\ doing["main"] = "idle"
        /\ UNCHANGED <<hook, started, stopped, cancelled>>
    BY <1>1 DEF LC!Run, LifeTypes, Stages
  <2>. QED  BY <2>1 DEF InStartOrder, InStopOrder, CancelledLast
<1>2. CASE LC!StartFn
  <2>1. LifeTypes'
    BY <1>2 DEF LC!StartFn, LifeTypes, Stages
  <2>2. /\ doing["main"] = "startFn" /\ doing'["other"] = doing["other"]
        /\ (doing'["main"] = "failed" \/ (doing'["main"] = "OnStart" /\ hook'["main"] = 1))
        /\ UNCHANGED <<started, stopped, cancelled>>
    <3>1. doing \in [{"main", "other"} -> Stages] /\ hook \in [{"main", "other"} -> Nat]
      BY DEF LifeTypes
    <3>2. /\ doing["main"] = "startFn" /\ UNCHANGED <<started, stopped, cancelled>>
          /\ \/ doing' = [doing EXCEPT !["main"] = "OnStart"] /\ hook' = [hook EXCEPT !["main"] = 1]
             \/ doing' = [doing EXCEPT !["main"] = "failed"]
      BY <1>2, Zenon DEF LC!StartFn
    <3>. QED  BY ONLY <3>1, <3>2
  <2>. QED  BY <2>1, <2>2 DEF InStartOrder, InStopOrder, CancelledLast
<1>3. CASE LC!OnStart
  <2>1. /\ doing["main"] = "OnStart" /\ doing'["other"] = doing["other"]
        /\ hook["main"] <= Hooks /\ hook["main"] \in Nat /\ started \in Seq(Nat)
        /\ UNCHANGED <<stopped, cancelled>>
    BY <1>3 DEF LC!OnStart, LifeTypes, Stages
  <2>2. CASE /\ started' = Append(started, hook["main"])
             /\ hook' = [hook EXCEPT !["main"] = @ + 1]
             /\ UNCHANGED doing
    <3>1. LifeTypes' /\ hook'["main"] = hook["main"] + 1
      BY <2>1, <2>2 DEF LifeTypes
    <3>2. InStartOrder'
      BY <2>1, <2>2, <3>1, Appended DEF InStartOrder
    <3>. QED  BY <2>1, <2>2, <3>1, <3>2 DEF InStopOrder, CancelledLast
  <2>3. CASE LC!Goto("main", "failed") /\ UNCHANGED <<hook, started>>
    <3>1. LifeTypes' /\ doing'["main"] = "failed"
      BY <2>1, <2>3 DEF LifeTypes, Stages
    <3>. QED  BY <2>1, <2>3, <3>1 DEF InStartOrder, InStopOrder, CancelledLast
  <2>. QED  BY <1>3, <2>2, <2>3 DEF LC!OnStart
<1>4. CASE LC!Notify
  <2>1. LifeTypes' /\ doing'["main"] = "select" /\ doing'["other"] = doing["other"] /\ doing["main"] = "OnStart"
        /\ UNCHANGED <<hook, started, stopped, cancelled>> /\ hook["main"] > Hooks /\ hook["main"] \in Nat
    BY <1>4 DEF LC!Notify, LifeTypes, Stages
  <2>. QED  BY <2>1 DEF InStartOrder, InStopOrder, CancelledLast
<1>5. CASE LC!Wake
  <2>1. LifeTypes' /\ doing'["main"] = "Shutdown" /\ doing'["other"] = doing["other"] /\ doing["main"] = "select"
        /\ UNCHANGED <<hook, started, stopped, cancelled>>
    BY <1>5 DEF LC!Wake, LifeTypes, Stages
  <2>. QED  BY <2>1 DEF InStartOrder, InStopOrder, CancelledLast
<1>. QED  BY <1>1, <1>2, <1>3, <1>4, <1>5

\* The Shutdown that Run calls keeps it.
LEMMA LifeMain ==
  ASSUME LifeInv, LC!InShutdown("main")
  PROVE  LifeInv'
<1>. USE HooksAssumption DEF LifeInv, LC!Goto, LC!Goroutines
<1>. HIDE DEF Stops
<1>1. CASE LC!Shutdown("main")
  <2>1. LifeTypes'
    BY <1>1 DEF LC!Shutdown, LifeTypes, Stages
  <2>2. /\ doing["main"] = "Shutdown" /\ doing'["main"] = "OnStop" /\ hook'["main"] = Hooks
        /\ doing'["other"] = doing["other"] /\ UNCHANGED <<started, stopped, cancelled>>
    BY <1>1 DEF LC!Shutdown, LifeTypes, Stages
  <2>. QED  BY <2>1, <2>2 DEF InStartOrder, InStopOrder, CancelledLast
<1>2. CASE LC!OnStop("main")
  <2>. DEFINE rec == [hook |-> hook["main"], live |-> ~cancelled]
  <2>1. /\ doing["main"] = "OnStop" /\ hook["main"] > 0 /\ hook["main"] \in Nat
        /\ UNCHANGED <<started, cancelled>>
        /\ stopped["main"] \in Seq(Stops) /\ rec \in Stops
        /\ rec.hook = hook["main"] /\ (rec.live <=> ~cancelled)
    BY <1>2 DEF LC!OnStop, LifeTypes, Stages, Stops
  <2>2. stopped' = [stopped EXCEPT !["main"] = Append(@, rec)]
    BY <1>2 DEF LC!OnStop
  <2>. HIDE DEF rec
  <2>3. /\ stopped'["main"] = Append(stopped["main"], rec)
        /\ stopped' \in [{"main", "other"} -> Seq(Stops)]
    BY <2>1, <2>2, Appended DEF LifeTypes
  <2>4. /\ Len(stopped'["main"]) = Len(stopped["main"]) + 1
        /\ \A i \in 1..Len(stopped["main"]) : stopped'["main"][i] = stopped["main"][i]
        /\ stopped'["main"][Len(stopped["main"]) + 1] = rec
        /\ Len(stopped["main"]) \in Nat
    BY <2>1, <2>3, Appended
  <2>5. \/ hook' = [hook EXCEPT !["main"] = @ - 1] /\ UNCHANGED doing
        \/ LC!Goto("main", "failed") /\ UNCHANGED hook
    BY <1>2 DEF LC!OnStop
  <2>6. LifeTypes'
    BY <2>1, <2>3, <2>5 DEF LifeTypes, Stages
  <2>7. /\ doing'["other"] = doing["other"]
        /\ (doing'["main"] = "failed" \/ (doing'["main"] = "OnStop" /\ hook'["main"] = hook["main"] - 1))
    <3>1. doing \in [{"main", "other"} -> Stages] /\ hook \in [{"main", "other"} -> Nat]
      BY DEF LifeTypes
    <3>. QED  BY ONLY <2>1, <2>5, <3>1 DEF LC!Goto
  <2>8. InStartOrder'
    BY <2>1, <2>7 DEF InStartOrder
  <2>9. InStopOrder'
    <3>1. \A i \in 1..Len(stopped'["main"]) : stopped'["main"][i].hook = Hooks + 1 - i
      <4>1. /\ \A i \in 1..Len(stopped["main"]) : stopped["main"][i].hook = Hooks + 1 - i
            /\ Len(stopped["main"]) = Hooks - hook["main"]
        BY <2>1 DEF InStopOrder
      <4>2. \A i \in 1..Len(stopped'["main"]) : i \in 1..Len(stopped["main"]) \/ i = Len(stopped["main"]) + 1
        BY <2>4
      <4>3. rec.hook = Hooks + 1 - (Len(stopped["main"]) + 1)
        BY <2>1, <2>4, <4>1
      <4>. QED  BY <2>4, <4>1, <4>2, <4>3, Zenon
    <3>2. Len(stopped["main"]) = Hooks - hook["main"] /\ hook["main"] \in 0..Hooks
      BY <2>1 DEF InStopOrder
    <3>3. doing'["main"] = "OnStop" =>
            Len(stopped'["main"]) = Hooks - hook'["main"] /\ hook'["main"] \in 0..Hooks
      <4>1. hook["main"] > 0 /\ hook["main"] \in Nat
        BY <2>1
      <4>2. Len(stopped'["main"]) = Len(stopped["main"]) + 1
        BY <2>4
      <4>. QED  BY ONLY <2>7, <3>2, <4>1, <4>2, HooksAssumption
    <3>4. doing'["main"] \in {"failed", "OnStop"}
      BY <2>1, <2>7
    <3>. QED  BY <3>1, <3>3, <3>4 DEF InStopOrder
  <2>10. CancelledLast'
    <3>1. doing'["main"] \notin {"cancelled", "done"} /\ doing["main"] \notin {"cancelled", "done"}
      BY <2>1, <2>7
    <3>2. ASSUME doing["other"] = "idle"
          PROVE  ~cancelled /\ \A i \in 1..Len(stopped'["main"]) : stopped'["main"][i].live
      <4>1. ~cancelled /\ \A i \in 1..Len(stopped["main"]) : stopped["main"][i].live
        BY <3>1, <3>2, Zenon DEF CancelledLast
      <4>2. \A i \in 1..Len(stopped'["main"]) : i \in 1..Len(stopped["main"]) \/ i = Len(stopped["main"]) + 1
        BY <2>4
      <4>3. rec.live
        BY <2>1, <4>1, Zenon
      <4>. QED  BY <2>4, <4>1, <4>2, <4>3, Zenon
    <3>. QED  BY <2>1, <2>7, <3>1, <3>2, Zenon DEF CancelledLast
  <2>. QED  BY <2>6, <2>8, <2>9, <2>10
<1>3. CASE LC!Cancel("main")
  <2>1. LifeTypes'
    BY <1>3 DEF LC!Cancel, LifeTypes, Stages
  <2>2. /\ doing["main"] = "OnStop" /\ doing'["main"] = "cancelled" /\ hook["main"] = 0 /\ cancelled'
        /\ doing'["other"] = doing["other"] /\ UNCHANGED <<started, stopped, hook>>
    BY <1>3 DEF LC!Cancel, LifeTypes, Stages
  <2>. QED  BY <2>1, <2>2 DEF InStartOrder, InStopOrder, CancelledLast
<1>4. CASE LC!Return("main")
  <2>1. LifeTypes'
    BY <1>4 DEF LC!Return, LifeTypes, Stages
  <2>2. /\ doing["main"] = "cancelled" /\ doing'["main"] = "done"
        /\ doing'["other"] = doing["other"] /\ UNCHANGED <<started, stopped, hook, cancelled>>
    BY <1>4 DEF LC!Return, LifeTypes, Stages
  <2>. QED  BY <2>1, <2>2 DEF InStartOrder, InStopOrder, CancelledLast
<1>. QED  BY <1>1, <1>2, <1>3, <1>4 DEF LC!InShutdown

\* The other goroutine's Stop or Shutdown, and a signal, keep it.
LEMMA LifeOther ==
  ASSUME LifeInv, LC!InShutdown("other") \/ LC!Signal \/ LC!Stop \/ LC!CallShutdown
  PROVE  LifeInv'
<1>. USE HooksAssumption DEF LifeInv, LC!Goto, LC!Goroutines
<1>. HIDE DEF Stops
<1>1. LifeTypes'
  <2>1. CASE LC!OnStop("other")
    <3>. DEFINE rec == [hook |-> hook["other"], live |-> ~cancelled]
    <3>1. rec \in Stops /\ stopped["other"] \in Seq(Stops)
      BY DEF LifeTypes, Stops
    <3>2. stopped' = [stopped EXCEPT !["other"] = Append(@, rec)]
      BY <2>1 DEF LC!OnStop
    <3>. HIDE DEF rec
    <3>3. stopped' \in [{"main", "other"} -> Seq(Stops)]
      BY <3>1, <3>2, Appended DEF LifeTypes
    <3>. QED  BY <2>1, <3>3 DEF LC!OnStop, LifeTypes, Stages
  <2>2. CASE LC!Shutdown("other") \/ LC!Cancel("other") \/ LC!Return("other")
    BY <2>2 DEF LC!Shutdown, LC!Cancel, LC!Return, LifeTypes, Stages
  <2>3. CASE LC!Signal \/ LC!Stop \/ LC!CallShutdown
    BY <2>3 DEF LC!Signal, LC!Stop, LC!CallShutdown, LifeTypes, Stages
  <2>. QED  BY <2>1, <2>2, <2>3 DEF LC!InShutdown
<1>2. /\ doing'["main"] = doing["main"] /\ hook'["main"] = hook["main"]
      /\ stopped'["main"] = stopped["main"] /\ UNCHANGED started
  BY DEF LC!InShutdown, LC!Shutdown, LC!OnStop, LC!Cancel, LC!Return, LC!Signal, LC!Stop,
         LC!CallShutdown, LifeTypes
<1>3. (doing["main"] = "select" /\ UNCHANGED <<cancelled, doing>>) \/ (doing'["other"] # "idle" /\ (cancelled => cancelled'))
  BY DEF LC!InShutdown, LC!Shutdown, LC!OnStop, LC!Cancel, LC!Return, LC!Signal, LC!Stop,
         LC!CallShutdown, LifeTypes
<1>4. CancelledLast'
  BY <1>2, <1>3 DEF CancelledLast
<1>. QED  BY <1>1, <1>2, <1>4 DEF InStartOrder, InStopOrder

\* Every step of Run and of the other goroutine keeps the invariant.
LEMMA LifeStep == LifeInv /\ [LC!Next]_(LC!vars) => LifeInv'
<1>. SUFFICES ASSUME LifeInv, [LC!Next]_(LC!vars) PROVE LifeInv'
  OBVIOUS
<1>1. CASE UNCHANGED LC!vars
  BY <1>1, Zenon DEF LC!vars, LifeInv, LifeTypes, InStartOrder, InStopOrder, CancelledLast
<1>. QED  BY <1>1, LifeRun, LifeMain, LifeOther DEF LC!Next, LC!Main

\* A behaviour of MCLive is one of the lifecycle.
LEMMA LifeRuns == Spec => LC!Spec
<1>1. Init => LC!Init
  BY DEF Init
<1>2. [Next]_vars => [LC!Next]_(LC!vars)
  BY DEF Next, vars, lifeVars, LC!vars
<1>. QED  BY <1>1, <1>2, PTL DEF Spec, LC!Spec

\* A Run that returns nil has run every hook's OnStop, in the reverse order of the OnStarts,
\* and then cancelled the context, which no one but Stop or another Shutdown does before
\* (lifecycle.go:149, 159).
THEOREM NilRunsHaveStopped == Spec => []NilMeansStopped
<1>1. LifeInv => NilMeansStopped
  <2>. SUFFICES ASSUME LifeInv, doing["main"] = "done"
                PROVE  /\ cancelled
                       /\ [i \in 1..Len(stopped["main"]) |-> stopped["main"][i].hook] = LC!Reverse(started)
                       /\ Len(started) = Hooks
                       /\ doing["other"] = "idle" => \A i \in 1..Hooks : stopped["main"][i].live
    BY DEF NilMeansStopped, LC!NilMeansStopped
  <2>1. Len(started) = Hooks /\ Len(stopped["main"]) = Hooks
    BY DEF LifeInv, InStartOrder, InStopOrder
  <2>2. cancelled /\ (doing["other"] = "idle" => \A i \in 1..Hooks : stopped["main"][i].live)
    BY <2>1 DEF LifeInv, CancelledLast
  <2>3. \A i \in 1..Hooks : stopped["main"][i].hook = started[(Hooks - i) + 1]
    BY <2>1, HooksAssumption DEF LifeInv, InStartOrder, InStopOrder
  <2>. QED  BY <2>1, <2>2, <2>3, Zenon DEF LC!Reverse
<1>. QED  BY <1>1, LifeStarts, LifeStep, LifeRuns, PTL DEF LC!Spec

-----------------------------------------------------------------------------
(* core/middleware/middleware.go: panics and the gauge *)

Wares == {"Recovery", "Timeout", "Metrics"}
Ways == {"down", "wait", "up"}
Outcomes == {"none", "ok", "error", "panic"}
Gs == MW!Goroutines
Places == 1..Len(chain)

\* The variables have their types, and a chain holds a middleware once.
ChainTypes ==
  /\ chain \in Seq(Wares)
  /\ \A i, j \in Places : chain[i] = chain[j] => i = j
  /\ frame \in [Gs -> Nat]
  /\ way \in [Gs -> Ways]
  /\ result \in [Gs -> Outcomes]
  /\ \A r \in Requests : done[r] # <<>> => Head(done[r]) \in Outcomes \ {"panic"}
  /\ DOMAIN done = Requests
  /\ inFlight \in Int

\* A goroutine moves in the chain, and a panic on its way up has passed no Recovery.
InChain(g) ==
  /\ frame[g] <= Len(chain) + 1
  /\ frame[g] \in {0, Len(chain) + 1} => way[g] = "down"
  /\ way[g] = "wait" => chain[frame[g]] = "Timeout"
  /\ way[g] = "up" /\ result[g] = "panic" => \A i \in Places : chain[i] = "Recovery" => i <= frame[g]

\* Timeout's goroutine stays inside the Timeout, and runs while its request waits there or
\* is on its way up, or has been answered.
InTimeout(r) ==
  /\ way[MW!Worker(r)] # "wait"
  /\ frame[MW!Worker(r)] # 0 =>
       /\ \E t \in Places : /\ chain[t] = "Timeout"
                            /\ frame[MW!Worker(r)] >= t
                            /\ frame[MW!Worker(r)] = t => way[MW!Worker(r)] = "up"
       /\ way[MW!Own(r)] = "down" => r \in answered
  /\ frame[MW!Own(r)] # 0 => r \notin answered

\* Before Wrap no request runs.
NotServing == ~serving => inFlight = 0 /\ \A g \in Gs : frame[g] = 0

\* The goroutines the gauge should count.
Crowd == {g \in Gs : MW!InMetrics(g)}

Gauged == MW!Before("Recovery", "Metrics") => inFlight = Cardinality(Crowd)

Sound ==
  /\ ChainTypes
  /\ \A g \in Gs : InChain(g)
  /\ \A r \in Requests : InTimeout(r)
  /\ NotServing
  /\ MW!KillsOnlyPastTimeout

ChainInv == Sound /\ Gauged

\* The invariant holds at first.
LEMMA ChainStarts == MW!Init => ChainInv
<1>. SUFFICES ASSUME MW!Init PROVE ChainInv
  OBVIOUS
<1>1. chain = <<>> /\ Places = {} /\ Len(chain) = 0
  BY DEF MW!Init, Places
<1>2. ChainTypes
  BY <1>1 DEF MW!Init, ChainTypes, Gs, Ways, Outcomes
<1>3. \A g \in Gs : InChain(g)
  BY <1>1 DEF MW!Init, InChain, Gs
<1>4. ASSUME NEW r \in Requests PROVE InTimeout(r)
  BY <1>1 DEF MW!Init, InTimeout, MW!Goroutines, MW!Own, MW!Worker
<1>5. NotServing
  BY DEF MW!Init, NotServing, Gs
<1>6. Gauged
  <2>1. ~MW!Before("Recovery", "Metrics")
    BY <1>1 DEF MW!Before
  <2>. QED  BY <2>1 DEF Gauged
<1>7. MW!KillsOnlyPastTimeout
  BY DEF MW!Init, MW!KillsOnlyPastTimeout
<1>. QED  BY <1>2, <1>3, <1>4, <1>5, <1>6, <1>7 DEF ChainInv, Sound

\* Adding to the chain keeps it: nothing runs yet.
LEMMA ChainUse ==
  ASSUME ChainInv, ~crashed, NEW mw \in Wares, MW!Use(mw)
  PROVE  ChainInv'
<1>. USE DEF ChainInv, Sound
<1>1. /\ ~serving /\ UNCHANGED <<serving, frame, way, result, done, answered, inFlight, crashed>>
      /\ chain' = Append(chain, mw) /\ \A i \in Places : chain[i] # mw
  BY DEF MW!Use, MW!ToSet, Places, ChainTypes
<1>2. \A g \in Gs : frame[g] = 0 /\ inFlight = 0
  BY <1>1 DEF NotServing
<1>3. /\ chain' \in Seq(Wares) /\ Len(chain') = Len(chain) + 1 /\ Len(chain) \in Nat
      /\ \A i \in Places : chain'[i] = chain[i]
      /\ chain'[Len(chain) + 1] = mw
  <2>1. chain \in Seq(Wares)
    BY DEF ChainTypes
  <2>. HIDE DEF Wares
  <2>. QED  BY <1>1, <2>1, Appended DEF Places
<1>4. ChainTypes'
  <2>1. \A i, j \in Places' : chain'[i] = chain'[j] => i = j
    BY <1>1, <1>3 DEF Places, ChainTypes
  <2>2. UNCHANGED Gs
    BY DEF Gs, MW!Goroutines
  <2>. QED  BY <1>1, <1>3, <2>1, <2>2 DEF ChainTypes
<1>5. ASSUME NEW g \in Gs PROVE InChain(g)'
  <2>1. frame'[g] = 0 /\ way'[g] = "down"
    BY <1>1, <1>2 DEF InChain
  <2>. QED  BY <1>3, <2>1 DEF InChain
<1>6. ASSUME NEW r \in Requests PROVE InTimeout(r)'
  BY <1>1, <1>2 DEF InTimeout, Gs, MW!Goroutines, MW!Own, MW!Worker
<1>7. NotServing'
  BY <1>1, <1>2 DEF NotServing, Gs
<1>8. Gauged'
  <2>1. \A g \in Gs : ~MW!InMetrics(g)'
    BY <1>1, <1>2, <1>3 DEF MW!InMetrics
  <2>2. Crowd' = {}
    BY <2>1 DEF Crowd, Gs, MW!Goroutines
  <2>. QED  BY <1>1, <1>2, <2>2, FS_EmptySet DEF Gauged, NotServing
<1>9. MW!KillsOnlyPastTimeout'
  BY <1>1 DEF MW!KillsOnlyPastTimeout
<1>. QED  BY <1>4, <1>5, <1>6, <1>7, <1>8, <1>9

\* Goroutines other than g stay where they are.
Others(g) ==
  \A h \in Gs \ {g} : frame'[h] = frame[h] /\ way'[h] = way[h] /\ result'[h] = result[h]

\* A goroutine goes down a frame.
LEMMA Descends ==
  ASSUME Sound, ~crashed, NEW g \in Gs,
         frame[g] \in Places, chain[frame[g]] # "Timeout", way[g] = "down",
         MW!Down(g), UNCHANGED <<chain, serving, done, answered, crashed>>, inFlight' \in Int
  PROVE  /\ Sound' /\ Others(g)
         /\ frame'[g] = frame[g] + 1 /\ way'[g] = "down"
<1>. USE DEF Sound
<1>1. /\ frame \in [Gs -> Nat] /\ frame' = [frame EXCEPT ![g] = @ + 1] /\ UNCHANGED <<way, result>>
      /\ UNCHANGED Gs
  BY DEF MW!Down, ChainTypes, Gs, MW!Goroutines
<1>2. /\ frame' \in [Gs -> Nat] /\ frame'[g] = frame[g] + 1
      /\ \A h \in Gs \ {g} : frame'[h] = frame[h]
  BY <1>1
<1>3. Others(g)
  BY <1>1, <1>2 DEF Others
<1>4. ChainTypes'
  BY <1>1, <1>2 DEF ChainTypes, Places
<1>5. ASSUME NEW h \in Gs PROVE InChain(h)'
  <2>1. CASE h = g
    BY <1>1, <1>2, <2>1 DEF InChain, Places, ChainTypes
  <2>2. CASE h # g
    BY <1>1, <1>2, <2>2 DEF InChain, Places
  <2>. QED  BY <2>1, <2>2
<1>6. ASSUME NEW r \in Requests PROVE InTimeout(r)'
  <2>1. MW!Own(r) \in Gs /\ MW!Worker(r) \in Gs
    BY DEF Gs, MW!Goroutines, MW!Own, MW!Worker
  <2>2. frame'[MW!Own(r)] # 0 <=> frame[MW!Own(r)] # 0
    BY <1>1, <1>2, <2>1 DEF Places
  <2>3. frame'[MW!Worker(r)] # 0 <=> frame[MW!Worker(r)] # 0
    BY <1>1, <1>2, <2>1 DEF Places
  <2>4. ASSUME frame[MW!Worker(r)] # 0
        PROVE  \E t \in Places : /\ chain[t] = "Timeout"
                                 /\ frame'[MW!Worker(r)] >= t
                                 /\ frame'[MW!Worker(r)] = t => way[MW!Worker(r)] = "up"
    BY <1>1, <1>2, <2>1, <2>4 DEF InTimeout, Places
  <2>. QED  BY <1>1, <2>2, <2>3, <2>4 DEF InTimeout, Places
<1>7. NotServing'
  BY DEF NotServing, Places
<1>8. MW!KillsOnlyPastTimeout'
  BY DEF MW!KillsOnlyPastTimeout
<1>. QED  BY <1>1, <1>2, <1>3, <1>4, <1>5, <1>6, <1>7, <1>8

\* A goroutine leaves a frame with x, which is no panic that passed a Recovery.
LEMMA Ascends ==
  ASSUME Sound, ~crashed, NEW g \in Gs, NEW x \in Outcomes,
         frame[g] \in 1..(Len(chain) + 1),
         \/ frame[g] = Len(chain) + 1
         \/ way[g] = "up" /\ chain[frame[g]] # "Timeout"
         \/ way[g] = "wait",
         x = "panic" => \A i \in Places : chain[i] = "Recovery" => i < frame[g],
         MW!Up(g, x), MW!Answers(g), UNCHANGED <<chain, serving, crashed>>, inFlight' \in Int,
         DOMAIN done' = Requests, \A r \in Requests : done'[r] = <<>> \/ done'[r] = done[r]
  PROVE  /\ Sound' /\ Others(g)
         /\ frame'[g] = frame[g] - 1 /\ way'[g] = (IF frame[g] = 1 THEN "down" ELSE "up")
<1>. USE DEF Sound
<1>1. /\ frame \in [Gs -> Nat] /\ frame' = [frame EXCEPT ![g] = @ - 1]
      /\ way \in [Gs -> Ways] /\ way' = [way EXCEPT ![g] = IF frame[g] = 1 THEN "down" ELSE "up"]
      /\ result \in [Gs -> Outcomes] /\ result' = [result EXCEPT ![g] = x]
      /\ UNCHANGED Gs
  BY DEF MW!Up, ChainTypes, Gs, MW!Goroutines
<1>2. /\ frame' \in [Gs -> Nat] /\ frame'[g] = frame[g] - 1
      /\ way' \in [Gs -> Ways] /\ way'[g] = (IF frame[g] = 1 THEN "down" ELSE "up")
      /\ result' \in [Gs -> Outcomes] /\ result'[g] = x
      /\ \A h \in Gs \ {g} : frame'[h] = frame[h] /\ way'[h] = way[h] /\ result'[h] = result[h]
  BY <1>1 DEF Ways
<1>3. Others(g)
  BY <1>2 DEF Others
<1>4. ChainTypes'
  BY <1>1, <1>2 DEF ChainTypes, Places
<1>5. ASSUME NEW h \in Gs PROVE InChain(h)'
  <2>1. CASE h = g
    BY <1>1, <1>2, <2>1 DEF InChain, Places, ChainTypes
  <2>2. CASE h # g
    BY <1>1, <1>2, <2>2 DEF InChain, Places
  <2>. QED  BY <2>1, <2>2
<1>6. ASSUME NEW r \in Requests PROVE InTimeout(r)'
  <2>. DEFINE o == MW!Own(r)
              w == MW!Worker(r)
  <2>1. o \in Gs /\ w \in Gs /\ o # w /\ o[1] = r
    BY DEF Gs, MW!Goroutines, MW!Own, MW!Worker
  <2>2. /\ way[w] # "wait"
        /\ frame[w] # 0 => /\ \E t \in Places : /\ chain[t] = "Timeout"
                                                /\ frame[w] >= t
                                                /\ frame[w] = t => way[w] = "up"
                           /\ way[o] = "down" => r \in answered
        /\ frame[o] # 0 => r \notin answered
    BY DEF InTimeout
  <2>. SUFFICES /\ way'[w] # "wait"
                /\ frame'[w] # 0 => /\ \E t \in Places : /\ chain[t] = "Timeout"
                                                         /\ frame'[w] >= t
                                                         /\ frame'[w] = t => way'[w] = "up"
                                    /\ way'[o] = "down" => r \in answered'
                /\ frame'[o] # 0 => r \notin answered'
    BY DEF InTimeout, Places
  <2>. HIDE DEF o, w
  <2>3. CASE g = o
    <3>1. r \in answered' <=> (r \in answered \/ frame[o] = 1)
      BY <2>1, <2>3 DEF MW!Answers
    <3>2. frame'[w] = frame[w] /\ way'[w] = way[w] /\ frame'[o] = frame[o] - 1
          /\ way'[o] = (IF frame[o] = 1 THEN "down" ELSE "up") /\ frame[o] \in Nat /\ frame[o] # 0
      BY <1>1, <1>2, <2>1, <2>3
    <3>. QED  BY <2>2, <3>1, <3>2
  <2>4. CASE g = w
    <3>1. PICK t \in Places : chain[t] = "Timeout" /\ frame[w] >= t /\ (frame[w] = t => way[w] = "up")
      BY <2>2, <2>4
    <3>2. frame[w] \in Nat /\ t \in Nat /\ t > 0 /\ frame[w] > t
      BY <1>1, <2>1, <2>2, <2>4, <3>1 DEF Places, ChainTypes
    <3>3. UNCHANGED answered /\ way'[w] = "up" /\ frame'[w] = frame[w] - 1
      BY <1>2, <2>4, <3>2 DEF MW!Answers
    <3>4. frame'[w] >= t
      BY <3>2, <3>3
    <3>5. frame'[o] = frame[o] /\ way'[o] = way[o]
      BY <1>2, <2>1, <2>4
    <3>6. frame[w] # 0
      BY <3>2
    <3>. QED  BY <2>2, <3>1, <3>3, <3>4, <3>5, <3>6
  <2>5. CASE g # o /\ g # w
    <3>1. r \in answered' <=> r \in answered
      <4>1. g[1] # r
        BY <2>5 DEF Gs, MW!Goroutines, MW!Own, MW!Worker, o, w
      <4>. QED  BY <4>1 DEF MW!Answers
    <3>2. frame'[w] = frame[w] /\ way'[w] = way[w] /\ frame'[o] = frame[o] /\ way'[o] = way[o]
      BY <1>2, <2>1, <2>5
    <3>. QED  BY <2>2, <3>1, <3>2
  <2>. QED  BY <2>3, <2>4, <2>5
<1>7. NotServing'
  BY DEF NotServing
<1>8. MW!KillsOnlyPastTimeout'
  BY DEF MW!KillsOnlyPastTimeout
<1>. QED  BY <1>2, <1>3, <1>4, <1>5, <1>6, <1>7, <1>8


\* Goroutine g has entered the frame of index m and not left it.
Inside(g, m) == frame[g] > m \/ (frame[g] = m /\ way[g] = "up")

\* The instance's cardinality is that of FiniteSets.
LEMMA SameCardinality == \A S : MW!Cardinality(S) = Cardinality(S)
BY DEF MW!Cardinality, Cardinality

\* There are finitely many goroutines.
LEMMA FiniteCrowd == IsFiniteSet(Gs) /\ \A T \in SUBSET Gs : IsFiniteSet(T)
<1>1. IsFiniteSet({"request", "worker"})
  <2>1. IsFiniteSet({"request"})
    BY FS_Singleton, Zenon
  <2>2. IsFiniteSet({"request"} \cup {"worker"})
    BY <2>1, FS_AddElement, Zenon
  <2>3. {"request"} \cup {"worker"} = {"request", "worker"}
    OBVIOUS
  <2>. QED  BY <2>2, <2>3, Zenon
<1>2. IsFiniteSet(Gs)
  BY <1>1, RequestsAssumption, FS_Product DEF Gs, MW!Goroutines
<1>. QED  BY <1>2, FS_Subset

\* A goroutine that stays on its side of Metrics is counted as before.
LEMMA SameSide ==
  ASSUME UNCHANGED chain, NEW g \in Gs,
         \A m \in Places : chain[m] = "Metrics" => (Inside(g, m)' <=> Inside(g, m))
  PROVE  MW!InMetrics(g)' <=> MW!InMetrics(g)
BY DEF MW!InMetrics, MW!Before, Places, Inside

\* If all are, the gauge may stay as it is.
LEMMA SameCrowd ==
  ASSUME Gauged, UNCHANGED <<chain, inFlight>>,
         \A g \in Gs : MW!InMetrics(g)' <=> MW!InMetrics(g)
  PROVE  Gauged'
<1>1. Crowd' = Crowd
  BY DEF Crowd, Gs, MW!Goroutines
<1>. QED  BY <1>1 DEF Gauged, MW!Before

\* It may also when all stay on their side of Metrics.
LEMMA SameGauge ==
  ASSUME Gauged, UNCHANGED <<chain, inFlight>>,
         \A g \in Gs, m \in Places : chain[m] = "Metrics" => (Inside(g, m)' <=> Inside(g, m))
  PROVE  Gauged'
BY SameSide, SameCrowd

\* A goroutine in the frame of Metrics counts once it has been through Inc.
LEMMA AtMetrics ==
  ASSUME Sound, NEW g \in Gs, frame[g] \in Places, chain[frame[g]] = "Metrics"
  PROVE  /\ MW!InMetrics(g) <=> way[g] = "up"
         /\ (UNCHANGED chain /\ frame'[g] = frame[g] + 1 => MW!InMetrics(g)')
         /\ (UNCHANGED chain /\ frame'[g] = frame[g] - 1 => ~MW!InMetrics(g)')
<1>1. chain \in Seq(Wares) /\ (\A i, j \in Places : chain[i] = chain[j] => i = j) /\ DOMAIN chain = Places
  BY DEF Sound, ChainTypes, Places
<1>2. \A m \in DOMAIN chain : chain[m] = "Metrics" => m = frame[g]
  BY <1>1
<1>3. g[2] = "worker" => MW!Before("Metrics", "Timeout")
  <2>. SUFFICES ASSUME g[2] = "worker" PROVE MW!Before("Metrics", "Timeout")
    OBVIOUS
  <2>1. PICK r \in Requests : g = MW!Worker(r)
    BY DEF Gs, MW!Goroutines, MW!Worker
  <2>2. frame[MW!Worker(r)] # 0
    BY <2>1 DEF Places
  <2>3. PICK t \in Places : chain[t] = "Timeout" /\ frame[g] >= t
    BY <2>1, <2>2 DEF Sound, InTimeout
  <2>4. frame[g] > t
    BY <2>3 DEF Places
  <2>. QED  BY <1>1, <2>3, <2>4 DEF MW!Before
<1>. QED  BY <1>1, <1>2, <1>3 DEF MW!InMetrics, MW!Before, Places

\* Metrics' Inc keeps the gauge right.
LEMMA OneMore ==
  ASSUME Gauged, Sound, UNCHANGED chain, NEW g \in Gs, Others(g),
         ~MW!InMetrics(g), MW!InMetrics(g)', inFlight' = inFlight + 1
  PROVE  Gauged'
<1>1. \A h \in Gs \ {g} : MW!InMetrics(h)' <=> MW!InMetrics(h)
  BY SameSide DEF Others, Inside
<1>2. Crowd' = Crowd \cup {g} /\ g \notin Crowd /\ Crowd \in SUBSET Gs
  BY <1>1 DEF Crowd, Gs, MW!Goroutines
<1>3. Cardinality(Crowd') = Cardinality(Crowd) + 1
  BY <1>2, FiniteCrowd, FS_AddElement
<1>. QED  BY <1>3 DEF Gauged, MW!Before

\* So does its Dec.
LEMMA OneLess ==
  ASSUME Gauged, Sound, UNCHANGED chain, NEW g \in Gs, Others(g),
         MW!InMetrics(g), ~MW!InMetrics(g)', inFlight' = inFlight - 1
  PROVE  Gauged'
<1>1. \A h \in Gs \ {g} : MW!InMetrics(h)' <=> MW!InMetrics(h)
  BY SameSide DEF Others, Inside
<1>2. Crowd' = Crowd \ {g} /\ g \in Crowd /\ Crowd \in SUBSET Gs
  BY <1>1 DEF Crowd, Gs, MW!Goroutines
<1>3. Cardinality(Crowd') = Cardinality(Crowd) - 1
  BY <1>2, FiniteCrowd, FS_RemoveElement
<1>. QED  BY <1>3 DEF Gauged, MW!Before


\* What goroutine g does in the frames that are not Timeout's keeps the invariant.
LEMMA ChainStepOf ==
  ASSUME ChainInv, ~crashed, NEW g \in Gs, MW!Step(g)
  PROVE  ChainInv'
<1>. USE DEF ChainInv
<1>0. /\ chain \in Seq(Wares) /\ DOMAIN chain = Places /\ frame[g] \in Nat /\ way[g] \in Ways
      /\ result[g] \in Outcomes /\ inFlight \in Int /\ DOMAIN done = Requests
      /\ \A i, j \in Places : chain[i] = chain[j] => i = j
  BY DEF Sound, ChainTypes, Places
<1>1. CASE MW!Handler(g)
  <2>1. PICK x \in {"ok", "error", "panic"} : MW!Up(g, x)
    BY <1>1 DEF MW!Handler
  <2>2. Sound' /\ Others(g) /\ frame'[g] = frame[g] - 1 /\ way'[g] = (IF frame[g] = 1 THEN "down" ELSE "up")
    <3>1. /\ frame[g] = Len(chain) + 1 /\ MW!Answers(g)
          /\ UNCHANGED <<chain, serving, done, inFlight, crashed>>
      BY <1>1 DEF MW!Handler
    <3>2. frame[g] \in 1..(Len(chain) + 1) /\ x \in Outcomes /\ (\A i \in Places : i < frame[g])
      BY <1>0, <3>1 DEF Places, Outcomes
    <3>. QED  BY <1>0, <2>1, <3>1, <3>2, Ascends
  <2>3. \A m \in Places : Inside(g, m) /\ Inside(g, m)'
    <3>1. frame[g] = Len(chain) + 1 /\ Len(chain) \in Nat
      BY <1>0, <1>1 DEF MW!Handler
    <3>. QED  BY ONLY <2>2, <3>1 DEF Inside, Places
  <2>4. \A h \in Gs, m \in Places : Inside(h, m)' <=> Inside(h, m)
    BY <2>2, <2>3 DEF Others, Inside
  <2>. QED  BY <1>1, <2>2, <2>4, SameGauge DEF MW!Handler
<1>2. CASE MW!RecoveryNext(g)
  <2>1. Sound' /\ Others(g) /\ frame'[g] = frame[g] + 1 /\ way'[g] = "down"
    BY <1>0, <1>2, Descends DEF MW!RecoveryNext, MW!Entering
  <2>2. \A m \in Places : chain[m] = "Metrics" => (Inside(g, m)' <=> Inside(g, m))
    BY <1>0, <1>2, <2>1 DEF MW!RecoveryNext, MW!Entering, Inside, Places
  <2>3. \A h \in Gs, m \in Places : chain[m] = "Metrics" => (Inside(h, m)' <=> Inside(h, m))
    BY <2>1, <2>2 DEF Others, Inside
  <2>. QED  BY <1>2, <2>1, <2>3, SameGauge DEF MW!RecoveryNext
<1>3. CASE MW!Recovery(g)
  <2>1. Sound' /\ Others(g) /\ frame'[g] = frame[g] - 1 /\ way'[g] = (IF frame[g] = 1 THEN "down" ELSE "up")
    <3>1. (IF result[g] = "panic" THEN "error" ELSE result[g]) \in Outcomes \ {"panic"}
      BY <1>0 DEF Outcomes
    <3>2. /\ frame[g] \in Places /\ chain[frame[g]] = "Recovery" /\ way[g] = "up" /\ MW!Answers(g)
          /\ MW!Up(g, IF result[g] = "panic" THEN "error" ELSE result[g])
          /\ UNCHANGED <<chain, serving, done, inFlight, crashed>>
      BY <1>0, <1>3 DEF MW!Recovery, MW!Leaving
    <3>3. frame[g] \in 1..(Len(chain) + 1)
      BY <1>0, <3>2 DEF Places
    <3>. QED  BY <1>0, <3>1, <3>2, <3>3, Ascends
  <2>2. \A m \in Places : chain[m] = "Metrics" => (Inside(g, m)' <=> Inside(g, m))
    BY <1>0, <1>3, <2>1 DEF MW!Recovery, MW!Leaving, Inside, Places
  <2>3. \A h \in Gs, m \in Places : chain[m] = "Metrics" => (Inside(h, m)' <=> Inside(h, m))
    BY <2>1, <2>2 DEF Others, Inside
  <2>. QED  BY <1>3, <2>1, <2>3, SameGauge DEF MW!Recovery
<1>4. CASE MW!MetricsNext(g)
  <2>1. /\ frame[g] \in Places /\ chain[frame[g]] = "Metrics" /\ way[g] = "down" /\ MW!Down(g)
        /\ inFlight' = inFlight + 1 /\ UNCHANGED <<chain, serving, done, answered, crashed>>
    BY <1>0, <1>4 DEF MW!MetricsNext, MW!Entering
  <2>2. Sound' /\ Others(g) /\ frame'[g] = frame[g] + 1 /\ way'[g] = "down"
    BY <1>0, <2>1, Descends
  <2>3. ~MW!InMetrics(g) /\ MW!InMetrics(g)'
    BY <2>1, <2>2, AtMetrics
  <2>. QED  BY <2>1, <2>2, <2>3, OneMore
<1>5. CASE MW!Metrics(g)
  <2>1. /\ frame[g] \in Places /\ chain[frame[g]] = "Metrics" /\ way[g] = "up" /\ MW!Up(g, result[g])
        /\ MW!Answers(g) /\ UNCHANGED <<chain, serving, done, crashed>>
        /\ inFlight' = (IF result[g] = "panic" THEN inFlight ELSE inFlight - 1)
    BY <1>0, <1>5 DEF MW!Metrics, MW!Leaving
  <2>2. result[g] = "panic" => \A i \in Places : chain[i] = "Recovery" => i < frame[g]
    BY <1>0, <2>1 DEF Sound, InChain, Places
  <2>3. Sound' /\ Others(g) /\ frame'[g] = frame[g] - 1
    <3>1. frame[g] \in 1..(Len(chain) + 1) /\ inFlight' \in Int
      BY <1>0, <2>1 DEF Places
    <3>. QED  BY <1>0, <2>1, <2>2, <3>1, Ascends
  <2>4. MW!InMetrics(g) /\ ~MW!InMetrics(g)'
    BY <2>1, <2>3, AtMetrics
  <2>5. CASE result[g] = "panic"
    <3>1. ~MW!Before("Recovery", "Metrics")
      BY <1>0, <2>1, <2>2, <2>5 DEF MW!Before, Places
    <3>. QED  BY <2>1, <2>3, <3>1 DEF Gauged, MW!Before
  <2>6. CASE result[g] # "panic"
    BY <2>1, <2>3, <2>4, <2>6, OneLess
  <2>. QED  BY <2>5, <2>6
<1>. QED  BY <1>1, <1>2, <1>3, <1>4, <1>5 DEF MW!Step

\* Timeout's select keeps it.
LEMMA ChainSelect ==
  ASSUME ChainInv, ~crashed, NEW r \in Requests, MW!TimeoutSelect(r)
  PROVE  ChainInv'
<1>. DEFINE g == MW!Own(r)
<1>. USE DEF ChainInv
<1>1. /\ g \in Gs /\ chain \in Seq(Wares) /\ DOMAIN chain = Places /\ frame[g] \in Nat
      /\ inFlight \in Int /\ DOMAIN done = Requests
  BY DEF Sound, ChainTypes, Places, Gs, MW!Goroutines, MW!Own
<1>2. frame[g] \in Places /\ chain[frame[g]] = "Timeout" /\ way[g] = "wait"
  BY <1>1 DEF MW!TimeoutSelect, Sound, InChain, Places
<1>3. PICK x \in Outcomes \ {"panic"} : MW!Up(g, x)
  BY <1>1 DEF MW!TimeoutSelect, Sound, ChainTypes, Outcomes
<1>4. /\ MW!Answers(g) /\ UNCHANGED <<chain, serving, inFlight, crashed>>
      /\ \/ done' = [done EXCEPT ![r] = <<>>]
         \/ UNCHANGED done
  BY DEF MW!TimeoutSelect
<1>. HIDE DEF g
<1>5. Sound' /\ Others(g) /\ frame'[g] = frame[g] - 1 /\ way'[g] = (IF frame[g] = 1 THEN "down" ELSE "up")
  <2>1. frame[g] \in 1..(Len(chain) + 1)
    BY <1>1, <1>2 DEF Places
  <2>2. DOMAIN done' = Requests /\ \A q \in Requests : done'[q] = <<>> \/ done'[q] = done[q]
    BY <1>1, <1>4
  <2>. QED  BY <1>1, <1>2, <1>3, <1>4, <2>1, <2>2, Ascends
<1>6. \A m \in Places : chain[m] = "Metrics" => (Inside(g, m)' <=> Inside(g, m))
  BY <1>1, <1>2, <1>5 DEF Inside, Places
<1>7. \A h \in Gs, m \in Places : chain[m] = "Metrics" => (Inside(h, m)' <=> Inside(h, m))
  BY <1>5, <1>6 DEF Others, Inside
<1>. QED  BY <1>4, <1>5, <1>7, SameGauge


\* Only a goroutine inside Timeout may count there.
LEMMA NotCounted ==
  ASSUME chain \in Seq(Wares), \A i, j \in Places : chain[i] = chain[j] => i = j,
         NEW r \in Requests, NEW t \in Places, chain[t] = "Timeout",
         frame[MW!Worker(r)] <= t \/ (frame[MW!Worker(r)] = t + 1 /\ way[MW!Worker(r)] = "down"),
         frame[MW!Worker(r)] \in Nat
  PROVE  ~MW!InMetrics(MW!Worker(r))
<1>. SUFFICES ASSUME NEW m \in DOMAIN chain, chain[m] = "Metrics", Inside(MW!Worker(r), m),
                     MW!Before("Metrics", "Timeout")
              PROVE  FALSE
  BY DEF MW!InMetrics, MW!Worker, Inside
<1>1. m > t
  BY DEF MW!Before, Places
<1>. QED  BY <1>1 DEF Inside, Places

\* Timeout's starting a goroutine keeps it.
LEMMA ChainGo ==
  ASSUME ChainInv, ~crashed, NEW r \in Requests, MW!TimeoutGo(r)
  PROVE  ChainInv'
<1>. DEFINE o == MW!Own(r)
            w == MW!Worker(r)
<1>. USE DEF ChainInv, Sound
<1>1. /\ o \in Gs /\ w \in Gs /\ o # w
      /\ frame \in [Gs -> Nat] /\ way \in [Gs -> Ways] /\ chain \in Seq(Wares) /\ DOMAIN chain = Places
      /\ \A i, j \in Places : chain[i] = chain[j] => i = j
  BY DEF ChainTypes, Places, Gs, MW!Goroutines, MW!Own, MW!Worker
<1>2. /\ frame[o] \in Places /\ chain[frame[o]] = "Timeout" /\ way[o] = "down"
      /\ way' = [way EXCEPT ![o] = "wait"] /\ frame' = [frame EXCEPT ![w] = frame[o] + 1]
      /\ UNCHANGED <<chain, serving, result, done, answered, inFlight, crashed>>
  BY <1>1 DEF MW!TimeoutGo, MW!Entering
<1>3. frame[w] = 0 /\ way[w] = "down" /\ r \notin answered /\ frame[o] # 0
  BY <1>1, <1>2 DEF InTimeout, InChain, Places
<1>4. /\ frame' \in [Gs -> Nat] /\ way' \in [Gs -> Ways] /\ UNCHANGED Gs
      /\ frame'[o] = frame[o] /\ way'[o] = "wait" /\ frame'[w] = frame[o] + 1 /\ way'[w] = "down"
      /\ \A h \in Gs \ {o, w} : frame'[h] = frame[h] /\ way'[h] = way[h]
  BY <1>1, <1>2, <1>3 DEF Ways, Places, Gs, MW!Goroutines
<1>5. ChainTypes'
  BY <1>1, <1>2, <1>4 DEF ChainTypes, Places
<1>6. ASSUME NEW h \in Gs PROVE InChain(h)'
  <2>1. CASE h \in Gs \ {o, w}
    <3>. HIDE DEF o, w
    <3>. QED  BY <1>1, <1>2, <1>4, <2>1 DEF InChain, Places
  <2>2. CASE h = o
    <3>. HIDE DEF o, w
    <3>. QED  BY <1>1, <1>2, <1>4, <2>2 DEF InChain, Places
  <2>3. CASE h = w
    <3>. HIDE DEF o, w
    <3>. QED  BY <1>1, <1>2, <1>4, <2>3 DEF InChain, Places
  <2>. QED  BY <2>1, <2>2, <2>3
<1>7. ASSUME NEW q \in Requests PROVE InTimeout(q)'
  <2>1. CASE q = r
    <3>1. \E t \in Places : chain[t] = "Timeout" /\ frame'[w] >= t /\ frame'[w] # t
      BY <1>2, <1>4 DEF Places
    <3>. QED  BY <1>2, <1>3, <1>4, <2>1, <3>1 DEF InTimeout, Places
  <2>2. CASE q # r
    <3>1. MW!Own(q) \in Gs \ {o, w} /\ MW!Worker(q) \in Gs \ {o, w}
      BY <2>2 DEF Gs, MW!Goroutines, MW!Own, MW!Worker
    <3>. HIDE DEF o, w
    <3>. QED  BY <1>2, <1>4, <3>1 DEF InTimeout, Places
  <2>. QED  BY <2>1, <2>2
<1>8. NotServing'
  BY <1>1, <1>2 DEF NotServing, Places
<1>9. Gauged'
  <2>1. ~MW!InMetrics(w)
    BY <1>1, <1>2, <1>3, NotCounted DEF Places
  <2>2. ~MW!InMetrics(w)'
    <3>. SUFFICES ASSUME NEW m \in DOMAIN chain, chain[m] = "Metrics", MW!Before("Metrics", "Timeout"),
                         frame'[w] > m \/ (frame'[w] = m /\ way'[w] = "up")
                  PROVE  FALSE
      BY <1>2 DEF MW!InMetrics, MW!Before, MW!Worker
    <3>1. m > frame[o]
      BY <1>1, <1>2 DEF MW!Before, Places
    <3>. QED  BY <1>1, <1>2, <1>4, <3>1 DEF Places
  <2>3. \A h \in Gs \ {w} : MW!InMetrics(h)' <=> MW!InMetrics(h)
    <3>. HIDE DEF o, w
    <3>1. \A h \in Gs \ {w}, m \in Places : chain[m] = "Metrics" => (Inside(h, m)' <=> Inside(h, m))
      BY <1>1, <1>2, <1>4 DEF Inside, Places
    <3>. QED  BY <1>2, <3>1, SameSide
  <2>. HIDE DEF w
  <2>. QED  BY <1>2, <2>1, <2>2, <2>3, SameCrowd
<1>10. MW!KillsOnlyPastTimeout'
  BY <1>2 DEF MW!KillsOnlyPastTimeout
<1>. QED  BY <1>5, <1>6, <1>7, <1>8, <1>9, <1>10

\* A request's arrival keeps it.
LEMMA ChainArrive ==
  ASSUME ChainInv, ~crashed, NEW r \in Requests, MW!Arrive(r)
  PROVE  ChainInv'
<1>. DEFINE o == MW!Own(r)
<1>. USE DEF ChainInv, Sound
<1>1. /\ o \in Gs /\ frame \in [Gs -> Nat] /\ chain \in Seq(Wares)
      /\ \A q \in Requests : MW!Worker(q) \in Gs \ {o} /\ (q # r => MW!Own(q) \in Gs \ {o})
  BY DEF ChainTypes, Gs, MW!Goroutines, MW!Own, MW!Worker
<1>2. /\ serving /\ frame[o] = 0 /\ r \notin answered
      /\ frame' = [frame EXCEPT ![o] = 1]
      /\ UNCHANGED <<chain, serving, way, result, done, answered, inFlight, crashed>>
  BY DEF MW!Arrive
<1>3. /\ frame' \in [Gs -> Nat] /\ frame'[o] = 1 /\ way[o] = "down" /\ UNCHANGED Gs
      /\ \A h \in Gs \ {o} : frame'[h] = frame[h]
  BY <1>1, <1>2 DEF InChain, Gs, MW!Goroutines
<1>4. ChainTypes'
  BY <1>2, <1>3 DEF ChainTypes, Places
<1>5. ASSUME NEW h \in Gs PROVE InChain(h)'
  <2>. HIDE DEF o
  <2>. QED  BY <1>1, <1>2, <1>3 DEF InChain, Places
<1>6. ASSUME NEW q \in Requests PROVE InTimeout(q)'
  <2>1. CASE q = r
    BY <1>1, <1>2, <1>3, <2>1 DEF InTimeout, Places
  <2>2. CASE q # r
    <3>. HIDE DEF o
    <3>. QED  BY <1>1, <1>2, <1>3, <2>2 DEF InTimeout, Places
  <2>. QED  BY <2>1, <2>2
<1>7. NotServing' /\ MW!KillsOnlyPastTimeout'
  BY <1>2 DEF NotServing, MW!KillsOnlyPastTimeout
<1>8. Gauged'
  <2>. HIDE DEF o
  <2>1. \A h \in Gs, m \in Places : chain[m] = "Metrics" => (Inside(h, m)' <=> Inside(h, m))
    BY <1>1, <1>2, <1>3 DEF Inside, Places
  <2>. QED  BY <1>2, <2>1, SameGauge
<1>. QED  BY <1>4, <1>5, <1>6, <1>7, <1>8

\* The end of Timeout's goroutine, or of the process, keeps it.
LEMMA ChainDone ==
  ASSUME ChainInv, ~crashed, NEW r \in Requests, MW!TimeoutDone(r)
  PROVE  ChainInv'
<1>. DEFINE w == MW!Worker(r)
<1>. USE DEF ChainInv, Sound
<1>1. /\ w \in Gs /\ frame \in [Gs -> Nat] /\ way \in [Gs -> Ways] /\ chain \in Seq(Wares)
      /\ result[w] \in Outcomes /\ DOMAIN chain = Places
      /\ \A i, j \in Places : chain[i] = chain[j] => i = j
      /\ \A q \in Requests : MW!Own(q) \in Gs \ {w} /\ (q # r => MW!Worker(q) \in Gs \ {w})
  BY DEF ChainTypes, Places, Gs, MW!Goroutines, MW!Own, MW!Worker
<1>2. /\ frame[w] \in Places /\ chain[frame[w]] = "Timeout" /\ way[w] = "up"
      /\ UNCHANGED <<chain, serving, result, answered, inFlight>>
  BY <1>1 DEF MW!TimeoutDone, MW!Leaving
<1>3. CASE result[w] = "panic"
  <2>1. crashed' /\ UNCHANGED <<frame, way, done>>
    BY <1>3 DEF MW!TimeoutDone
  <2>2. \A i \in Places : chain[i] = "Recovery" => i <= frame[w]
    BY <1>1, <1>2, <1>3 DEF InChain
  <2>3. MW!KillsOnlyPastTimeout'
    <3>1. "Timeout" \in MW!ToSet(chain)
      BY <1>1, <1>2 DEF MW!ToSet
    <3>2. ~MW!Before("Recovery", "Timeout")
      BY <1>1, <1>2, <2>2 DEF MW!Before, Places
    <3>. QED  BY <1>2, <3>1, <3>2 DEF MW!KillsOnlyPastTimeout, MW!Before
  <2>4. ChainTypes' /\ NotServing'
    BY <1>2, <2>1 DEF ChainTypes, NotServing, Places, Gs, MW!Goroutines
  <2>5. (\A h \in Gs : InChain(h)') /\ (\A q \in Requests : InTimeout(q)')
    BY <1>2, <2>1 DEF InChain, InTimeout, Places
  <2>6. Gauged'
    BY <1>2, <2>1, SameGauge DEF Inside
  <2>. QED  BY <2>3, <2>4, <2>5, <2>6 DEF Gs, MW!Goroutines
<1>4. CASE result[w] # "panic"
  <2>1. /\ done' = [done EXCEPT ![r] = <<result[w]>>] /\ frame' = [frame EXCEPT ![w] = 0]
        /\ way' = [way EXCEPT ![w] = "down"] /\ UNCHANGED crashed
    BY <1>4 DEF MW!TimeoutDone
  <2>2. /\ frame' \in [Gs -> Nat] /\ way' \in [Gs -> Ways] /\ frame'[w] = 0 /\ way'[w] = "down"
        /\ \A h \in Gs \ {w} : frame'[h] = frame[h] /\ way'[h] = way[h]
        /\ UNCHANGED Gs
    BY <1>1, <2>1 DEF Ways, Gs, MW!Goroutines
  <2>3. ChainTypes'
    <3>1. DOMAIN done' = Requests /\ \A q \in Requests : done'[q] # <<>> => Head(done'[q]) \in Outcomes \ {"panic"}
      BY <1>1, <1>4, <2>1 DEF ChainTypes
    <3>. QED  BY <1>2, <2>2, <3>1 DEF ChainTypes, Places
  <2>4. ASSUME NEW h \in Gs PROVE InChain(h)'
    <3>. HIDE DEF w
    <3>. QED  BY <1>1, <1>2, <2>2 DEF InChain, Places
  <2>5. ASSUME NEW q \in Requests PROVE InTimeout(q)'
    <3>1. CASE q = r
      BY <1>1, <1>2, <2>2, <3>1 DEF InTimeout, Places
    <3>2. CASE q # r
      <4>. HIDE DEF w
      <4>. QED  BY <1>1, <1>2, <2>2, <3>2 DEF InTimeout, Places
    <3>. QED  BY <3>1, <3>2
  <2>6. NotServing' /\ MW!KillsOnlyPastTimeout'
    BY <1>1, <1>2, <2>1 DEF NotServing, MW!KillsOnlyPastTimeout, Places
  <2>7. Gauged'
    <3>1. ~MW!InMetrics(w)
      BY <1>1, <1>2, NotCounted
    <3>2. ~MW!InMetrics(w)'
      BY <1>1, <1>2, <2>2 DEF MW!InMetrics, Places
    <3>3. \A h \in Gs \ {w} : MW!InMetrics(h)' <=> MW!InMetrics(h)
      BY <1>2, <2>2, SameSide DEF Inside
    <3>. HIDE DEF w
    <3>. QED  BY <1>2, <3>1, <3>2, <3>3, SameCrowd
  <2>. QED  BY <2>3, <2>4, <2>5, <2>6, <2>7
<1>. QED  BY <1>3, <1>4

\* Every step of the chain keeps the invariant.
LEMMA ChainStep == ChainInv /\ [MW!Next]_(MW!vars) => ChainInv'
<1>. SUFFICES ASSUME ChainInv, [MW!Next]_(MW!vars) PROVE ChainInv'
  OBVIOUS
<1>1. ASSUME UNCHANGED <<chain, frame, way, result, done, answered, inFlight, crashed>>,
             serving' = serving \/ serving'
      PROVE  ChainInv'
  <2>1. ChainTypes' /\ NotServing' /\ MW!KillsOnlyPastTimeout'
    BY <1>1 DEF ChainInv, Sound, ChainTypes, NotServing, Places, Gs, MW!Goroutines,
       MW!KillsOnlyPastTimeout, MW!Before
  <2>2. (\A h \in Gs' : InChain(h)') /\ (\A q \in Requests : InTimeout(q)')
    BY <1>1 DEF ChainInv, Sound, InChain, InTimeout, Places, Gs, MW!Goroutines
  <2>3. Gauged'
    BY <1>1, SameGauge DEF Inside, ChainInv
  <2>. QED  BY <2>1, <2>2, <2>3 DEF ChainInv, Sound
<1>2. CASE UNCHANGED MW!vars
  BY <1>1, <1>2 DEF MW!vars
<1>3. CASE MW!Wrap
  BY <1>1, <1>3 DEF MW!Wrap
<1>4. ASSUME ~crashed, NEW r \in Requests, MW!Request(r) \/ MW!Works(r) PROVE ChainInv'
  <2>1. MW!Own(r) \in Gs /\ MW!Worker(r) \in Gs
    BY DEF Gs, MW!Goroutines, MW!Own, MW!Worker
  <2>. QED  BY <1>4, <2>1, ChainStepOf, ChainSelect, ChainGo, ChainDone DEF MW!Request, MW!Works
<1>. QED  BY <1>2, <1>3, <1>4, ChainUse, ChainArrive DEF MW!Next, Wares

\* A behaviour of MCLive is one of the chain.
LEMMA ChainRuns == Spec => MW!Spec
<1>1. Init => MW!Init
  BY DEF Init
<1>2. [Next]_vars => [MW!Next]_(MW!vars)
  BY DEF Next, vars, mwVars, MW!vars
<1>. QED  BY <1>1, <1>2, PTL DEF Spec, MW!Spec

\* A panicking handler ends the process only under a Timeout with no Recovery inside it
\* (middleware.go:114, 226).
THEOREM OnlyTimeoutKills == Spec => []KillsOnlyPastTimeout
<1>1. ChainInv => KillsOnlyPastTimeout
  BY DEF ChainInv, Sound, KillsOnlyPastTimeout
<1>. QED  BY <1>1, ChainStarts, ChainStep, ChainRuns, PTL DEF MW!Spec

\* With a Recovery inside Metrics the in-flight gauge counts the handlers at work
\* (middleware.go:247-252).
THEOREM GaugeIsRight == Spec => []GaugeCounts
<1>1. ChainInv => GaugeCounts
  BY SameCardinality DEF ChainInv, Gauged, Crowd, Gs, GaugeCounts, MW!GaugeCounts
<1>. QED  BY <1>1, ChainStarts, ChainStep, ChainRuns, PTL DEF MW!Spec
=============================================================================
