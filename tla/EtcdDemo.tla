------------------------------ MODULE EtcdDemo ------------------------------
(***************************************************************************)
(* The system of examples/etcd-demo: a gin gateway that passes requests on *)
(* through a PooledClient, and processes of a service that keep what they  *)
(* create in memory (payment-service; user-service is the same program     *)
(* with two users in it from the start, home-service answers a constant).  *)
(*                                                                         *)
(* A request has a goroutine of net/http, main, that waits in the Timeout  *)
(* middleware, and the worker that Timeout starts, which runs the handler. *)
(* Both hold the request's gin.Context, which gin takes back, and gives to *)
(* a later request, when main returns.                                     *)
(*                                                                         *)
(* How the pool comes by its list is in EtcdRegistry and PooledClient:     *)
(* here an attempt goes to any process that listens, or fails.  What its   *)
(* breaker answers is left open.  Left out are a worker that is only       *)
(* starting when Timeout's five seconds are over, and what a worker that   *)
(* outlives its request does to gin's count of the handlers run.           *)
(***************************************************************************)
EXTENDS Naturals, Sequences, FiniteSets

CONSTANTS
  Requests,
  Servers,    \* processes of the service; a restarted one is another one
  Retries,    \* proxy.retries of etc/gateway.yaml
  FirstId,    \* of the repository: 0 for payments, 1 for users
  Preloaded   \* records in a new repository: 0 payments, 2 users

VARIABLES
  server,   \* process -> where its main is
  store,    \* process -> its repository, or the one it had
  gate,     \* the gateway: "booting", "up", or "unrouted", up without the service
  kind,     \* request -> what it asks for, "none" before it arrives
  wanted,   \* request -> the receipt it asks about
  context,  \* request -> its gin.Context, named after the first request to hold it
  main,     \* request -> its goroutine of net/http
  worker,   \* request -> the goroutine of Timeout
  tries,    \* request -> attempt of CallRaw
  reply,    \* request -> the response CallRaw returned
  wire,     \* requests that the pool has sent and no process has served
  answers   \* request -> what was written to its client, each by whose worker

serverVars == <<server, store>>
requestVars == <<kind, wanted, context, main>>
workerVars == <<worker, tries, reply>>
vars == <<server, store, gate, kind, wanted, context, main,
          worker, tries, reply, wire, answers>>

-----------------------------------------------------------------------------

Said(what) == [what |-> what, at |-> "gateway", id |-> 0, order |-> "none"]

\* NewMemoryPaymentRepo, NewMemoryUserRepo
NewRepo == [nextID |-> FirstId + Preloaded,
            rows |-> [id \in FirstId .. FirstId + Preloaded - 1 |-> "preloaded"]]

Init ==
  /\ server = [s \in Servers |-> "off"]
  /\ store = [s \in Servers |-> NewRepo]
  /\ gate = "booting"
  /\ kind = [r \in Requests |-> "none"]
  /\ wanted = [r \in Requests |-> Said("nothing")]
  /\ context = [r \in Requests |-> "none"]
  /\ main = [r \in Requests |-> "idle"]
  /\ worker = [r \in Requests |-> "idle"]
  /\ tries = [r \in Requests |-> 0]
  /\ reply = [r \in Requests |-> Said("nothing")]
  /\ wire = {}
  /\ answers = [r \in Requests |-> <<>>]

-----------------------------------------------------------------------------
(* A process of the service *)

ServerBecomes(s, state) == server' = [server EXCEPT ![s] = state]

\* The process registers, and listens soon after.
Start(s) ==
  /\ server[s] = "off"
  /\ ServerBecomes(s, "listening")
  /\ UNCHANGED <<store, wire>>

\* A crash, or a signal: Deregister, and os.Exit right after it, handlers at work
\* or not.
Exit(s) ==
  /\ server[s] = "listening"
  /\ ServerBecomes(s, "gone")
  /\ wire' = {m \in wire : m.to # s}
  /\ UNCHANGED store

\* The bug of a counter that is read and not moved on.
Create_SameId(repo, order) ==
  [repo EXCEPT !.rows = [id \in DOMAIN @ \cup {repo.nextID} |->
                           IF id = repo.nextID THEN order ELSE @[id]]]

\* MemoryPaymentRepo.Create, under mu.
Create(repo, order) ==
  [nextID |-> repo.nextID + 1,
   rows |-> [id \in DOMAIN repo.rows \cup {repo.nextID} |->
               IF id = repo.nextID THEN order ELSE repo.rows[id]]]

\* FindByID for the id of a receipt
FindByID(repo, id) ==
  IF id \in DOMAIN repo.rows
  THEN [what |-> "found", order |-> repo.rows[id]]
  ELSE [what |-> "missing", order |-> "none"]

\* The handlers, for requests that bind and have an amount: the others are
\* refused and leave no trace.
Handled(s, r) ==
  IF kind[r] = "create"
  THEN [what |-> "created", at |-> s, id |-> store[s].nextID, order |-> r]
  ELSE LET row == FindByID(store[s], wanted[r].id)
       IN [what |-> row.what, at |-> s, id |-> wanted[r].id, order |-> row.order]

\* A process serves a request that reached it, whether the worker still waits for
\* the response or not; one that is lost on its way is Lose and this.
Serve(m) ==
  /\ server[m.to] = "listening"
  /\ store' = IF kind[m.by] = "create"
              THEN [store EXCEPT ![m.to] = Create(@, m.by)] ELSE store
  /\ wire' = wire \ {m}
  /\ IF worker[m.by] = "sent" /\ tries[m.by] = m.try
     THEN /\ worker' = [worker EXCEPT ![m.by] = "got"]
          /\ reply' = [reply EXCEPT ![m.by] = Handled(m.to, m.by)]
          /\ UNCHANGED tries
     ELSE UNCHANGED workerVars
  /\ UNCHANGED server

-----------------------------------------------------------------------------
(* The gateway *)

\* Start of the pooled client, whose failure is only logged: the service has no
\* client for as long as the gateway lives.
Boot == gate = "booting" /\ gate' \in {"up", "unrouted"}

\* The request that holds a gin.Context
Holds(r, g) == main[r] = "waiting" /\ context[r] = g

Receipts == {a \in UNION {{answers[r][i] : i \in DOMAIN answers[r]} : r \in Requests} :
               a.what = "created"}

\* A request arrives, gets a gin.Context, a new one or one that was given back,
\* and Timeout starts its worker.
Arrive(r) ==
  /\ gate # "booting"
  /\ kind[r] = "none"
  /\ \/ kind' = [kind EXCEPT ![r] = "create"] /\ UNCHANGED wanted
     \/ \E a \in Receipts :
          /\ kind' = [kind EXCEPT ![r] = "get"]
          /\ wanted' = [wanted EXCEPT ![r] = a]
  /\ \E g \in {r} \cup {context[q] : q \in {p \in Requests : main[p] = "returned"}} :
       /\ \A other \in Requests : ~Holds(other, g)
       /\ context' = [context EXCEPT ![r] = g]
  /\ main' = [main EXCEPT ![r] = "waiting"]
  /\ worker' = [worker EXCEPT ![r] = "handler"]
  /\ UNCHANGED <<tries, reply, wire, answers>>

\* An answer, written by r's worker, or by its main
By(r, a) == [by |-> r, what |-> a.what, at |-> a.at, id |-> a.id, order |-> a.order]

\* What a worker writes to its gin.Context goes to the client of the request
\* that holds it now, if one does.
Write(r, answer) ==
  answers' = [q \in Requests |->
    IF Holds(q, context[r]) THEN Append(answers[q], By(r, answer)) ELSE answers[q]]

WorkerBecomes(r, state) == worker' = [worker EXCEPT ![r] = state]

\* The handler's own answer, and the end of the worker
Fail(r) ==
  /\ Write(r, Said("502"))
  /\ WorkerBecomes(r, "done")
  /\ UNCHANGED <<requestVars, tries, reply, wire>>

\* No client for the upstream, or the breaker refuses; else CallRaw's loop.
Handle(r) ==
  /\ worker[r] = "handler"
  /\ \/ Fail(r)
     \/ /\ gate = "up"
        /\ WorkerBecomes(r, "sending")
        /\ UNCHANGED <<requestVars, tries, reply, wire, answers>>

\* The bug of a loop that does not count an attempt that was cut short.
Retry_Uncounted(r) ==
  /\ WorkerBecomes(r, "sending")
  /\ UNCHANGED <<requestVars, tries, reply, wire, answers>>

\* An attempt has failed.  The next one follows after the delay; a context that
\* is done, as it is once main has returned, may end the loop before.
Retry(r) ==
  \/ /\ tries[r] < Retries
     /\ tries' = [tries EXCEPT ![r] = @ + 1]
     /\ WorkerBecomes(r, "sending")
     /\ UNCHANGED <<requestVars, reply, wire, answers>>
  \/ /\ tries[r] = Retries \/ main[r] # "waiting"
     /\ Fail(r)

\* doCallRaw to a process of the list.  The attempt fails when the list is empty,
\* the process does not listen, the context is done, or for any other reason.
Send(r) ==
  /\ worker[r] = "sending"
  /\ \/ Retry(r)
     \/ /\ main[r] = "waiting"
        /\ \E s \in Servers :
             /\ server[s] = "listening"
             /\ wire' = wire \cup {[by |-> r, try |-> tries[r], to |-> s]}
        /\ WorkerBecomes(r, "sent")
        /\ UNCHANGED <<requestVars, tries, reply, answers>>

\* The exchange fails under way, the process having served it or not.
Lose(r) ==
  /\ worker[r] = "sent"
  /\ Retry(r)

\* The response is passed on.
Pass(r) ==
  /\ worker[r] = "got"
  /\ Write(r, reply[r])
  /\ WorkerBecomes(r, "done")
  /\ reply' = [reply EXCEPT ![r] = Said("nothing")]
  /\ UNCHANGED <<requestVars, tries, wire>>

\* Timeout's select: the worker is done, and main returns,
Return(r) ==
  /\ main[r] = "waiting"
  /\ worker[r] = "done"
  /\ main' = [main EXCEPT ![r] = "returned"]
  /\ UNCHANGED <<kind, wanted, context, workerVars, wire, answers>>

\* The bug of a timeout that ends the request without an answer.
Timeout_Silent(r) ==
  /\ main[r] = "waiting"
  /\ worker[r] # "handler"
  /\ main' = [main EXCEPT ![r] = "returned"]
  /\ UNCHANGED <<kind, wanted, context, workerVars, wire, answers>>

\* or the time is over: 504, and main returns.
Timeout(r) ==
  /\ main[r] = "waiting"
  /\ worker[r] # "handler"
  /\ answers' = [answers EXCEPT ![r] = Append(@, By(r, Said("504")))]
  /\ main' = [main EXCEPT ![r] = "returned"]
  /\ UNCHANGED <<kind, wanted, context, workerVars, wire>>

-----------------------------------------------------------------------------
Process(s) ==
  \/ Start(s)
  \/ Exit(s)

Worker(r) ==
  \/ Handle(r)
  \/ Send(r)
  \/ Lose(r)
  \/ Pass(r)

Next ==
  \/ /\ \E s \in Servers : Process(s)
     /\ UNCHANGED <<gate, requestVars, workerVars, answers>>
  \/ /\ \E m \in wire : Serve(m)
     /\ UNCHANGED <<gate, requestVars, answers>>
  \/ /\ Boot
     /\ UNCHANGED <<serverVars, requestVars, workerVars, wire, answers>>
  \/ /\ \E r \in Requests : Arrive(r) \/ Worker(r) \/ Return(r) \/ Timeout(r)
     /\ UNCHANGED <<serverVars, gate>>

Spec == Init /\ [][Next]_vars

-----------------------------------------------------------------------------

OwnAnswers(r) == {answers[r][i] : i \in {j \in DOMAIN answers[r] : answers[r][j].by = r}}

(***************************************************************************)
(* A receipt is good at the process that gave it: the record it names is   *)
(* the request's, and stays so, and a later request that asks that process *)
(* for it is shown that record (memory.go:24, handler.go:29 of             *)
(* payment-service).  Another process may not know the id, or have given   *)
(* it to somebody else's record: the ids are per process, and the gateway  *)
(* takes the processes in turn.                                            *)
(***************************************************************************)
ReceiptsHold ==
  \A r \in Requests : \A a \in OwnAnswers(r) :
    /\ a.what = "created" => store[a.at].rows[a.id] = r
    /\ a.what \in {"found", "missing"} /\ a.at = wanted[r].at =>
         a.what = "found" /\ a.order = wanted[r].order

(***************************************************************************)
(* A client is sent the answer to somebody else's request only by a worker *)
(* that outlived its own, which its client was told with a 504             *)
(* (gateway/internal/middleware/middleware.go:53): gin has given the       *)
(* gin.Context that the worker still writes to to another request.         *)
(***************************************************************************)
OthersAnswersOnlyLate ==
  \A r \in Requests : \A i \in DOMAIN answers[r] :
    LET by == answers[r][i].by IN by # r => \E a \in OwnAnswers(by) : a.what = "504"

\* The records of request r, whatever the process
Created(r) ==
  {e \in UNION {{s} \X DOMAIN store[s].rows : s \in Servers} : store[e[1]].rows[e[2]] = r}

(***************************************************************************)
(* A request creates at most one record per attempt, whatever became of    *)
(* the responses, and there are at most Retries + 1 attempts               *)
(* (pooled_client.go:254).  It may create that many: the service does not  *)
(* recognise a repeated request, and one answered 502 or 504 may have      *)
(* created records all the same.                                           *)
(***************************************************************************)
ChargesBounded ==
  \A r \in Requests : Cardinality(Created(r)) <= tries[r] + 1 /\ tries[r] <= Retries
=============================================================================
