----------------------------- MODULE SseChannel -----------------------------
(***************************************************************************)
(* One request to an SSE endpoint of core/sse/sse.go: the event loop of    *)
(* NewChannelHandler, the goroutine it starts for NewStreamHandler or      *)
(* NewIntervalHandler, the channel between them, and the client, which may *)
(* disconnect.  NewHandler's way, a handler that writes by itself beside a *)
(* goroutine that closes the writer, is the third kind.  Heartbeats and    *)
(* writes to a client that has gone change nothing that is modelled.       *)
(***************************************************************************)
EXTENDS Naturals, Sequences

CONSTANTS
  BufferSize,  \* capacity of the channel
  MaxEvents    \* bound: events produced

VARIABLES
  kind,        \* the handler, "none" until the request arrives
  user,        \* its goroutine: "select", "sending" an event, or "ended"
  produced,    \* events it has made, numbered from 1
  ch,          \* the channel's buffer
  chClosed,    \* close(ch) was called
  loop,        \* the event loop: "select" or "ended"
  ctxDone,     \* the request's context is done
  swClosed,    \* Writer.closed
  written,     \* events written to the response
  left         \* ghost: the client disconnected

vars == <<kind, user, produced, ch, chClosed, loop, ctxDone, swClosed, written, left>>

Init ==
  /\ kind = "none"
  /\ user = "ended"
  /\ produced = 0
  /\ ch = <<>>
  /\ chClosed = FALSE
  /\ loop = "ended"
  /\ ctxDone = FALSE
  /\ swClosed = FALSE
  /\ written = <<>>
  /\ left = FALSE

Serve(k) ==
  /\ kind = "none"
  /\ kind' = k
  /\ user' = "select"
  /\ loop' = IF k = "direct" THEN "ended" ELSE "select"
  /\ UNCHANGED <<produced, ch, chClosed, ctxDone, swClosed, written, left>>

\* The source of a stream, or the ticker, has an event.
TakeEvent ==
  /\ kind \in {"stream", "interval"}
  /\ user = "select"
  /\ produced < MaxEvents
  /\ produced' = produced + 1
  /\ user' = "sending"
  /\ UNCHANGED <<kind, ch, chClosed, loop, ctxDone, swClosed, written, left>>

PutEvent ==
  /\ user = "sending"
  /\ Len(ch) < BufferSize
  /\ ch' = Append(ch, produced)
  /\ user' = "select"
  /\ UNCHANGED <<kind, produced, chClosed, loop, ctxDone, swClosed, written, left>>

\* Mutation: the send is not in a select with the context.
UserReturn_BlockedSend ==
  /\ kind \in {"stream", "interval"}
  /\ user = "select"
  /\ ctxDone \/ kind = "stream"
  /\ user' = "ended"
  /\ chClosed' = TRUE
  /\ UNCHANGED <<kind, produced, ch, loop, ctxDone, swClosed, written, left>>

\* The goroutine returns, and its deferred close(ch) runs: when its context
\* is done, in a stream also while it is sending, or when its source ended.
UserReturn ==
  /\ kind \in {"stream", "interval"}
  /\ \/ user = "select" /\ (ctxDone \/ kind = "stream")
     \/ user = "sending" /\ ctxDone /\ kind = "stream"
  /\ user' = "ended"
  /\ chClosed' = TRUE
  /\ UNCHANGED <<kind, produced, ch, loop, ctxDone, swClosed, written, left>>

LoopEvent ==
  /\ loop = "select"
  /\ ch # <<>>
  /\ written' = Append(written, Head(ch))
  /\ ch' = Tail(ch)
  /\ UNCHANGED <<kind, user, produced, chClosed, loop, ctxDone, swClosed, left>>

\* Mutation: the end of the handler ends the loop at once.
LoopEnd_Undrained ==
  /\ loop = "select"
  /\ chClosed
  /\ loop' = "ended"
  /\ ctxDone' = TRUE
  /\ UNCHANGED <<kind, user, produced, ch, chClosed, swClosed, written, left>>

\* A closed channel is received from once it is empty.  net/http ends the
\* context of a request whose handler returned.
LoopEnd ==
  /\ loop = "select"
  /\ chClosed
  /\ ch = <<>>
  /\ loop' = "ended"
  /\ ctxDone' = TRUE
  /\ UNCHANGED <<kind, user, produced, ch, chClosed, swClosed, written, left>>

LoopGone ==
  /\ loop = "select"
  /\ ctxDone
  /\ swClosed' = TRUE
  /\ loop' = "ended"
  /\ UNCHANGED <<kind, user, produced, ch, chClosed, ctxDone, written, left>>

\* NewHandler: events go out until the writer is closed; the handler that
\* gets an error from SendEvent need not stop.
DirectSend ==
  /\ kind = "direct"
  /\ user = "select"
  /\ produced < MaxEvents
  /\ produced' = produced + 1
  /\ written' = IF swClosed THEN written ELSE Append(written, produced')
  /\ UNCHANGED <<kind, user, ch, chClosed, loop, ctxDone, swClosed, left>>

DirectReturn ==
  /\ kind = "direct"
  /\ user = "select"
  /\ user' = "ended"
  /\ swClosed' = TRUE
  /\ ctxDone' = TRUE
  /\ UNCHANGED <<kind, produced, ch, chClosed, loop, written, left>>

DirectGone ==
  /\ kind = "direct"
  /\ ctxDone
  /\ ~swClosed
  /\ swClosed' = TRUE
  /\ UNCHANGED <<kind, user, produced, ch, chClosed, loop, ctxDone, written, left>>

Disconnect ==
  /\ kind # "none"
  /\ ~ctxDone
  /\ ctxDone' = TRUE
  /\ left' = TRUE
  /\ UNCHANGED <<kind, user, produced, ch, chClosed, loop, swClosed, written>>

User == PutEvent \/ UserReturn

Loop == LoopEvent \/ LoopEnd \/ LoopGone

Next ==
  \/ \E k \in {"stream", "interval", "direct"} : Serve(k)
  \/ TakeEvent
  \/ User
  \/ Loop
  \/ DirectSend
  \/ DirectReturn
  \/ DirectGone
  \/ Disconnect

Spec == Init /\ [][Next]_vars

\* The goroutines run when they can, and a select keeps choosing among the
\* cases that stay ready; no source need ever have an event, or end.
Fairness ==
  /\ WF_vars(PutEvent) /\ SF_vars(ctxDone /\ UserReturn)
  /\ WF_vars(Loop) /\ SF_vars(LoopGone)

-----------------------------------------------------------------------------

(***************************************************************************)
(* The client receives the events in the order they were made and without  *)
(* a gap, and when it stays until a stream's end it has received all of    *)
(* them: closing the channel loses nothing still in it (sse.go:289).       *)
(***************************************************************************)
StreamIntact ==
  /\ written = [i \in 1..Len(written) |-> i]
  /\ kind = "stream" /\ loop = "ended" /\ ~left => Len(written) = produced

(***************************************************************************)
(* When the client disconnects, the loop and the goroutine of a stream     *)
(* both end, even one blocked on a full channel (sse.go:358).  The         *)
(* goroutine of NewIntervalHandler sends without a select, and one blocked *)
(* so stays for ever.                                                      *)
(***************************************************************************)
StreamEnds == left /\ kind = "stream" ~> loop = "ended" /\ user = "ended"
=============================================================================
