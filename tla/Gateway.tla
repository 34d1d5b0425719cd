------------------------------- MODULE Gateway -------------------------------
(***************************************************************************)
(* The API gateway that nx writes (generator/gateway_generator.go): the    *)
(* pipeline of ProxyHandler.ServeHTTP, with the MultiLevel limiter of      *)
(* core/ratelimit in front of it.  Two routes lead to one upstream.        *)
(* Requests are goroutines of net/http; a client sends its next request    *)
(* when it has the answer to the last, and no token is added meanwhile, so *)
(* the burst bounds what the upstream sees.                                *)
(***************************************************************************)
EXTENDS WindowBreaker

CONSTANTS
  Requests,
  GlobalBurst, ServiceBurst

VARIABLES
  step,       \* request -> the step of the pipeline it is at
  global,     \* tokens of MultiLevel.global
  services,   \* route -> tokens of its bucket in MultiLevel.services
  breaker,    \* the upstream's entry in ProxyHandler.breakers
  slot,       \* the bucket that time points at
  reached,    \* ghost: the upstream has answered a request
  straddled   \* ghost: a bucket began between a request's two reports

vars == <<step, global, services, breaker, slot, reached, straddled>>

Routes == {"users", "orders"}

\* NewProxyHandler gives routes with the same upstream one breaker.
Init ==
  /\ step = [r \in Requests |-> "idle"]
  /\ global = GlobalBurst
  /\ services = [rt \in Routes |-> ServiceBurst]
  /\ breaker = NewBreaker
  /\ slot = 0
  /\ reached = FALSE
  /\ straddled = FALSE

Goto(r, s) == step' = [step EXCEPT ![r] = s]

\* The early returns differ only in their codes: 8003, 8001, 8002, 8000.
Answer(r) == Goto(r, "idle")

\* Which route matches is left open until AllowService, which first asks for
\* it.  A request that none matches (1003) leaves no trace.
FindRoute(r) ==
  /\ step[r] = "idle"
  /\ Goto(r, "global")
  /\ UNCHANGED <<global, services, breaker, slot, reached, straddled>>

AllowGlobal(r) ==
  /\ step[r] = "global"
  /\ \/ global > 0 /\ global' = global - 1 /\ Goto(r, "service")
     \/ global = 0 /\ Answer(r) /\ UNCHANGED global
  /\ UNCHANGED <<services, breaker, slot, reached, straddled>>

\* A refusal here keeps the global token.  No method has a bucket.
AllowService(r) ==
  /\ step[r] = "service"
  /\ \E route \in Routes :
       \/ /\ services[route] > 0
          /\ services' = [services EXCEPT ![route] = @ - 1]
          /\ Goto(r, "shed")
       \/ services[route] = 0 /\ Answer(r) /\ UNCHANGED services
  /\ UNCHANGED <<global, breaker, slot, reached, straddled>>

\* The shedder's answer is left open (see Shedder).
Shed(r) ==
  /\ step[r] = "shed"
  /\ \/ Goto(r, "breaker")
     \/ Answer(r)
  /\ UNCHANGED <<global, services, breaker, slot, reached, straddled>>

AskBreaker(r) ==
  /\ step[r] = "breaker"
  /\ \/ Allows(breaker) /\ breaker' = Allowed(breaker) /\ Goto(r, "discover")
     \/ ~Allows(breaker) /\ Answer(r) /\ UNCHANGED breaker
  /\ UNCHANGED <<global, services, slot, reached, straddled>>

\* Nothing is reported to the breaker when there is no instance to call.
Discover(r) ==
  /\ step[r] = "discover"
  /\ \/ Goto(r, "proxy")
     \/ Answer(r)
  /\ UNCHANGED <<global, services, breaker, slot, reached, straddled>>

BadUrl(r) ==
  /\ step[r] = "proxy"
  /\ breaker' = OnFailure(breaker, slot)
  /\ Answer(r)
  /\ UNCHANGED <<global, services, slot, reached, straddled>>

\* Any answer of the upstream counts, whatever its status.
Proxied(r) ==
  /\ step[r] = "proxy"
  /\ reached' = TRUE
  /\ Goto(r, "served")
  /\ UNCHANGED <<global, services, breaker, slot, straddled>>

\* The upstream breaks off inside the body: the proxy panics past the report.
Aborted(r) ==
  /\ step[r] = "proxy"
  /\ reached' = TRUE
  /\ Answer(r)
  /\ UNCHANGED <<global, services, breaker, slot, straddled>>

\* The ErrorHandler: the upstream could not be reached.
ProxyError(r) ==
  /\ step[r] = "proxy"
  /\ breaker' = OnFailure(breaker, slot)
  /\ Goto(r, "failed")
  /\ UNCHANGED <<global, services, slot, reached, straddled>>

\* After the proxy returns, also from its ErrorHandler.
ReportSuccess(r) ==
  /\ step[r] \in {"served", "failed"}
  /\ breaker' = OnSuccess(breaker, slot)
  /\ Goto(r, "idle")
  /\ UNCHANGED <<global, services, slot, reached, straddled>>

NextBucket ==
  /\ slot' = (slot + 1) % BucketCount
  /\ straddled' = (straddled \/ \E r \in Requests : step[r] = "failed")
  /\ UNCHANGED <<step, global, services, breaker, reached>>

SleepOver ==
  /\ breaker.state = "Open" /\ ~breaker.slept
  /\ breaker' = [breaker EXCEPT !.slept = TRUE]
  /\ UNCHANGED <<step, global, services, slot, reached, straddled>>

ServeHTTP(r) ==
  \/ FindRoute(r) \/ AllowGlobal(r) \/ AllowService(r) \/ Shed(r) \/ AskBreaker(r) \/ Discover(r)
  \/ BadUrl(r) \/ Proxied(r) \/ Aborted(r) \/ ProxyError(r) \/ ReportSuccess(r)

Next == (\E r \in Requests : ServeHTTP(r)) \/ NextBucket \/ SleepOver

Spec == Init /\ [][Next]_vars

-----------------------------------------------------------------------------

(***************************************************************************)
(* An upstream that answers nobody is cut off by the error that makes      *)
(* MinRequests reports, though each error is reported as a failure and     *)
(* then as a success (gateway_generator.go:434, 446): the failure is       *)
(* always ahead of its success.  A bucket that begins between the two      *)
(* undoes this, and so does one real answer, and from then on a dead       *)
(* upstream may keep its breaker closed.                                   *)
(***************************************************************************)
DeadUpstreamTrips ==
  [][\A r \in Requests :
       /\ step[r] = "proxy" /\ step'[r] = "failed"
       /\ ~reached /\ ~straddled
       /\ Total(breaker)' >= MinRequests
       => breaker'.state = "Open"]_vars
=============================================================================
