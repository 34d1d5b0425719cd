---------------------------- MODULE LibraryProofs ----------------------------
(***************************************************************************)
(* What components that share nothing guarantee for any parameters.  A     *)
(* behaviour of MCLibrary is one of each component: it runs one of them, and *)
(* the others stand still.                                                 *)
(***************************************************************************)
EXTENDS MCLibrary, Sequences, FiniteSetTheorems, TLAPS

\* An interval from 1 has as many elements as its end says.
LEMMA Interval == \A n \in Nat : IsFiniteSet(1..n) /\ Cardinality(1..n) = n
BY FS_Interval

-----------------------------------------------------------------------------
(* examples/etcd-demo: every variable has its type *)

Whats == {"nothing", "502", "504", "created", "found", "missing"}
Places == Servers \cup {"gateway"}
Owners == Requests \cup {"preloaded"}

Reply == [what : Whats, at : Places, id : Nat, order : Owners \cup {"none"}]
Answer == [by : Requests, what : Whats, at : Places, id : Nat, order : Owners \cup {"none"}]
Message == [by : Requests, try : Nat, to : Servers]

\* The ids of a repository are those up to its next one.
IsRepo(repo) ==
  /\ repo.nextID \in Nat
  /\ DOMAIN repo.rows = FirstId .. repo.nextID - 1
  /\ FirstId <= repo.nextID
  /\ \A id \in DOMAIN repo.rows : repo.rows[id] \in Owners

DemoTypes ==
  /\ server = [s \in Servers |-> server[s]]
  /\ store = [s \in Servers |-> store[s]]
  /\ \A s \in Servers : IsRepo(store[s])
  /\ kind \in [Requests -> {"none", "create", "get"}]
  /\ wanted = [r \in Requests |-> wanted[r]]
  /\ \A r \in Requests : wanted[r] \in Reply \cup Answer
  /\ context = [r \in Requests |-> context[r]]
  /\ main \in [Requests -> {"idle", "waiting", "returned"}]
  /\ worker \in [Requests -> {"idle", "handler", "sending", "sent", "got", "done"}]
  /\ tries \in [Requests -> 0 .. Retries]
  /\ reply \in [Requests -> Reply]
  /\ wire \subseteq Message
  /\ answers \in [Requests -> Seq(Answer)]
  /\ \A r \in Requests : kind[r] = "none" => worker[r] = "idle"
  /\ \A m \in wire : kind[m.by] # "none"

\* What a step of a worker does.
Begins(r) ==
  /\ worker[r] = "handler"
  /\ worker' = [worker EXCEPT ![r] = "sending"]
  /\ UNCHANGED <<kind, wanted, context, main, tries, reply, wire, answers>>

Sends(r) ==
  /\ worker[r] = "sending"
  /\ main[r] = "waiting"
  /\ worker' = [worker EXCEPT ![r] = "sent"]
  /\ \E s \in Servers : wire' = wire \cup {[by |-> r, try |-> tries[r], to |-> s]}
  /\ UNCHANGED <<kind, wanted, context, main, tries, reply, answers>>

TriesAgain(r) ==
  /\ worker[r] \in {"sending", "sent"}
  /\ tries[r] < Retries
  /\ tries' = [tries EXCEPT ![r] = @ + 1]
  /\ worker' = [worker EXCEPT ![r] = "sending"]
  /\ UNCHANGED <<kind, wanted, context, main, reply, wire, answers>>

GivesUp(r) ==
  /\ worker[r] \in {"handler", "sending", "sent"}
  /\ Demo!Write(r, Demo!Said("502"))
  /\ worker' = [worker EXCEPT ![r] = "done"]
  /\ UNCHANGED <<kind, wanted, context, main, tries, reply, wire>>

\* A worker's step is one of these, or passes the response on.
LEMMA WorkerSteps ==
  ASSUME NEW r, Demo!Worker(r)
  PROVE  Begins(r) \/ Sends(r) \/ TriesAgain(r) \/ GivesUp(r) \/ Demo!Pass(r)
<1>. USE DEF Demo!WorkerBecomes, Demo!requestVars
<1>1. CASE Demo!Handle(r)
  BY <1>1 DEF Demo!Handle, Demo!Fail, Begins, GivesUp
<1>2. ASSUME worker[r] \in {"sending", "sent"}, Demo!Retry(r)
      PROVE  TriesAgain(r) \/ GivesUp(r)
  BY <1>2 DEF Demo!Retry, Demo!Fail, TriesAgain, GivesUp
<1>3. CASE Demo!Send(r)
  BY <1>2, <1>3 DEF Demo!Send, Sends
<1>4. CASE Demo!Lose(r)
  BY <1>2, <1>4 DEF Demo!Lose
<1>. QED  BY <1>1, <1>3, <1>4 DEF Demo!Worker

\* The answers grow: one that is new is a, of r, to a client that holds r's gin.Context.
Grown(r, a) ==
  /\ \A q \in Requests : \A i \in DOMAIN answers[q] :
       i \in DOMAIN answers'[q] /\ answers'[q][i] = answers[q][i]
  /\ \A q \in Requests : \A i \in DOMAIN answers'[q] :
       i \in DOMAIN answers[q] \/ (answers'[q][i] = Demo!By(r, a) /\ Demo!Holds(q, context[r]))

LEMMA WriteGrows ==
  ASSUME DemoTypes, NEW r \in Requests, NEW a \in Reply, Demo!Write(r, a)
  PROVE  /\ answers' \in [Requests -> Seq(Answer)]
         /\ Grown(r, a)
<1>1. Demo!By(r, a) \in Answer
  BY DEF Demo!By, Reply, Answer
<1>2. \A q \in Requests : answers[q] \in Seq(Answer)
  BY DEF DemoTypes
<1>3. answers' = [q \in Requests |->
        IF Demo!Holds(q, context[r]) THEN Append(answers[q], Demo!By(r, a)) ELSE answers[q]]
  BY DEF Demo!Write
<1>4. answers' \in [Requests -> Seq(Answer)]
  BY <1>1, <1>2, <1>3
<1>. HIDE DEF Answer
<1>5. ASSUME NEW q \in Requests
      PROVE  /\ \A i \in DOMAIN answers[q] :
                  i \in DOMAIN answers'[q] /\ answers'[q][i] = answers[q][i]
             /\ \A i \in DOMAIN answers'[q] :
                  i \in DOMAIN answers[q] \/ (answers'[q][i] = Demo!By(r, a) /\ Demo!Holds(q, context[r]))
  <2>1. CASE Demo!Holds(q, context[r])
    <3>1. answers'[q] = Append(answers[q], Demo!By(r, a))
      BY <1>3, <2>1
    <3>. QED  BY <1>1, <1>2, <2>1, <3>1
  <2>2. CASE ~ Demo!Holds(q, context[r])
    BY <1>3, <2>2
  <2>. QED  BY <2>1, <2>2
<1>. QED  BY <1>4, <1>5 DEF Grown

LEMMA TimeoutGrows ==
  ASSUME DemoTypes, NEW r \in Requests, Demo!Timeout(r)
  PROVE  /\ answers' \in [Requests -> Seq(Answer)]
         /\ Grown(r, Demo!Said("504"))
         /\ answers'[r] = Append(answers[r], Demo!By(r, Demo!Said("504")))
<1>1. Demo!By(r, Demo!Said("504")) \in Answer
  BY DEF Demo!By, Demo!Said, Answer, Whats, Places, Owners
<1>2. \A q \in Requests : answers[q] \in Seq(Answer)
  BY DEF DemoTypes
<1>3. answers' = [answers EXCEPT ![r] = Append(@, Demo!By(r, Demo!Said("504")))]
  BY DEF Demo!Timeout
<1>4. answers \in [Requests -> Seq(Answer)]
  BY DEF DemoTypes
<1>5. answers' \in [Requests -> Seq(Answer)]
  BY <1>1, <1>2, <1>3, <1>4
<1>6. /\ answers'[r] = Append(answers[r], Demo!By(r, Demo!Said("504")))
      /\ \A q \in Requests \ {r} : answers'[q] = answers[q]
  BY <1>3, <1>4
<1>7. Demo!Holds(r, context[r])
  BY DEF Demo!Timeout, Demo!Holds
<1>8. Grown(r, Demo!Said("504"))
  BY <1>1, <1>2, <1>6, <1>7 DEF Grown
<1>. QED  BY <1>5, <1>6, <1>8

\* A new record takes the next id, and leaves the others alone.
LEMMA CreateAdds ==
  ASSUME NEW repo, IsRepo(repo), NEW r \in Requests
  PROVE  /\ IsRepo(Demo!Create(repo, r))
         /\ repo.nextID \notin DOMAIN repo.rows
         /\ DOMAIN Demo!Create(repo, r).rows = DOMAIN repo.rows \cup {repo.nextID}
         /\ Demo!Create(repo, r).rows[repo.nextID] = r
         /\ \A id \in DOMAIN repo.rows : Demo!Create(repo, r).rows[id] = repo.rows[id]
<1>. DEFINE new == Demo!Create(repo, r)
<1>1. /\ new.nextID = repo.nextID + 1
      /\ new.rows = [id \in DOMAIN repo.rows \cup {repo.nextID} |->
                      IF id = repo.nextID THEN r ELSE repo.rows[id]]
  BY DEF Demo!Create
<1>. HIDE DEF new
<1>2. /\ repo.nextID \in Nat /\ FirstId \in Nat /\ FirstId <= repo.nextID
      /\ DOMAIN repo.rows = FirstId .. repo.nextID - 1
  BY DemoAssumption DEF IsRepo
<1>3. /\ repo.nextID \notin DOMAIN repo.rows
      /\ DOMAIN repo.rows \cup {repo.nextID} = FirstId .. repo.nextID
  BY <1>2
<1>4. /\ DOMAIN new.rows = DOMAIN repo.rows \cup {repo.nextID}
      /\ new.rows[repo.nextID] = r
      /\ \A id \in DOMAIN repo.rows : new.rows[id] = repo.rows[id]
  BY <1>1, <1>3
<1>5. IsRepo(new)
  BY <1>1, <1>2, <1>3, <1>4 DEF IsRepo, Owners
<1>. QED  BY <1>3, <1>4, <1>5 DEF new

\* What a process answers.
LEMMA HandledTypes ==
  ASSUME DemoTypes, NEW s \in Servers, NEW r \in Requests
  PROVE  Demo!Handled(s, r) \in Reply
<1>1. IsRepo(store[s]) /\ wanted[r] \in Reply \cup Answer
  BY DEF DemoTypes
<1>2. CASE kind[r] = "create"
  BY <1>1, <1>2 DEF Demo!Handled, IsRepo, Reply, Whats, Places, Owners
<1>3. CASE kind[r] # "create"
  <2>. DEFINE row == Demo!FindByID(store[s], wanted[r].id)
  <2>1. row.what \in Whats /\ row.order \in Owners \cup {"none"}
    BY <1>1 DEF Demo!FindByID, IsRepo, Whats
  <2>2. wanted[r].id \in Nat
    BY <1>1 DEF Reply, Answer
  <2>3. Demo!Handled(s, r) = [what |-> row.what, at |-> s, id |-> wanted[r].id, order |-> row.order]
    BY <1>3 DEF Demo!Handled
  <2>. HIDE DEF row
  <2>. QED  BY <2>1, <2>2, <2>3 DEF Reply, Places
<1>. QED  BY <1>2, <1>3

\* A receipt that a request asks about is an answer.
LEMMA ReceiptsAnswers ==
  ASSUME DemoTypes
  PROVE  Demo!Receipts \subseteq Answer
<1>1. \A r \in Requests : \A i \in DOMAIN answers[r] : answers[r][i] \in Answer
  <2>. HIDE DEF Answer
  <2>. QED  BY DEF DemoTypes
<1>. HIDE DEF Answer
<1>. QED  BY <1>1 DEF Demo!Receipts

LEMMA DemoTypesInvariant == Demo!Spec => []DemoTypes
<1>. USE DemoAssumption
<1>1. Demo!Init => DemoTypes
  <2>. SUFFICES ASSUME Demo!Init PROVE DemoTypes
    OBVIOUS
  <2>1. Demo!Said("nothing") \in Reply
    BY DEF Demo!Said, Reply, Whats, Places
  <2>2. IsRepo(Demo!NewRepo)
    BY DEF Demo!NewRepo, IsRepo, Owners
  <2>3. << >> \in Seq(Answer)
    OBVIOUS
  <2>. HIDE DEF Reply, Answer
  <2>. QED  BY <2>1, <2>2, <2>3 DEF Demo!Init, DemoTypes
<1>2. DemoTypes /\ [Demo!Next]_Demo!vars => DemoTypes'
  <2>. SUFFICES ASSUME DemoTypes, [Demo!Next]_Demo!vars PROVE DemoTypes'
    OBVIOUS
  <2>. USE DEF Demo!requestVars, Demo!workerVars, Demo!serverVars
  <2>1. CASE UNCHANGED Demo!vars
    BY <2>1 DEF Demo!vars, DemoTypes
  <2>2. ASSUME NEW s \in Servers, Demo!Process(s),
               UNCHANGED <<gate, Demo!requestVars, Demo!workerVars, answers>>
        PROVE  DemoTypes'
    BY <2>2 DEF Demo!Process, Demo!Start, Demo!Exit, Demo!ServerBecomes, DemoTypes
  <2>3. ASSUME NEW m \in wire, Demo!Serve(m), UNCHANGED <<gate, Demo!requestVars, answers>>
        PROVE  DemoTypes'
    <3>1. m \in Message /\ m.to \in Servers /\ m.by \in Requests
      BY DEF DemoTypes, Message
    <3>2. store' = [s \in Servers |-> store'[s]] /\ \A s \in Servers : IsRepo(store'[s])
      <4>1. IsRepo(Demo!Create(store[m.to], m.by))
        BY <3>1, CreateAdds DEF DemoTypes
      <4>. QED  BY <2>3, <3>1, <4>1 DEF Demo!Serve, DemoTypes
    <3>3. reply' \in [Requests -> Reply]
      <4>1. Demo!Handled(m.to, m.by) \in Reply
        BY <3>1, HandledTypes
      <4>2. reply' = reply \/ reply' = [reply EXCEPT ![m.by] = Demo!Handled(m.to, m.by)]
        BY <2>3 DEF Demo!Serve
      <4>. HIDE DEF Reply
      <4>. QED  BY <3>1, <4>1, <4>2 DEF DemoTypes
    <3>4. /\ worker' \in [Requests -> {"idle", "handler", "sending", "sent", "got", "done"}]
          /\ \A r \in Requests : kind[r] = "none" => worker'[r] = "idle"
          /\ tries' = tries
      BY <2>3, <3>1 DEF Demo!Serve, DemoTypes
    <3>5. wire' \subseteq wire /\ server' = server
      BY <2>3 DEF Demo!Serve
    <3>. QED  BY <2>3, <3>2, <3>3, <3>4, <3>5 DEF DemoTypes
  <2>4. CASE Demo!Boot /\ UNCHANGED <<Demo!serverVars, Demo!requestVars, Demo!workerVars, wire, answers>>
    BY <2>4 DEF DemoTypes
  <2>5. ASSUME NEW r \in Requests, UNCHANGED Demo!serverVars,
               Demo!Arrive(r) \/ Demo!Worker(r) \/ Demo!Return(r) \/ Demo!Timeout(r)
        PROVE  DemoTypes'
    <3>1. CASE Demo!Arrive(r)
      <4>1. \A q \in Requests : wanted'[q] \in Reply \cup Answer
        BY <3>1, ReceiptsAnswers DEF Demo!Arrive, DemoTypes
      <4>2. /\ kind' \in [Requests -> {"none", "create", "get"}]
            /\ kind'[r] # "none" /\ \A q \in Requests \ {r} : kind'[q] = kind[q]
            /\ wanted' = [q \in Requests |-> wanted'[q]]
        BY <3>1 DEF Demo!Arrive, DemoTypes
      <4>3. /\ context' = [q \in Requests |-> context'[q]]
            /\ main' \in [Requests -> {"idle", "waiting", "returned"}]
            /\ worker' = [worker EXCEPT ![r] = "handler"]
            /\ UNCHANGED <<tries, reply, wire, answers, server, store>>
        BY <2>5, <3>1 DEF Demo!Arrive, DemoTypes
      <4>4. \A m \in wire' : kind'[m.by] # "none"
        BY <4>2, <4>3 DEF DemoTypes, Message
      <4>. HIDE DEF Reply, Answer, Message
      <4>. QED  BY <4>1, <4>2, <4>3, <4>4 DEF DemoTypes
    <3>2. CASE Begins(r)
      BY <2>5, <3>2 DEF Begins, DemoTypes
    <3>3. CASE Sends(r)
      <4>1. wire' \subseteq Message
        BY <3>3 DEF Sends, DemoTypes, Message
      <4>2. \A m \in wire' : m \in wire \/ m.by = r
        BY <3>3 DEF Sends
      <4>3. kind[r] # "none"
        BY <3>3 DEF Sends, DemoTypes
      <4>. QED  BY <2>5, <3>3, <4>1, <4>2, <4>3 DEF Sends, DemoTypes
    <3>4. CASE TriesAgain(r)
      BY <2>5, <3>4 DEF TriesAgain, DemoTypes
    <3>5. CASE GivesUp(r)
      <4>1. Demo!Said("502") \in Reply
        BY DEF Demo!Said, Reply, Whats, Places
      <4>2. answers' \in [Requests -> Seq(Answer)]
        BY <3>5, <4>1, WriteGrows DEF GivesUp
      <4>. QED  BY <2>5, <3>5, <4>2 DEF GivesUp, DemoTypes
    <3>6. CASE Demo!Pass(r)
      <4>1. Demo!Said("nothing") \in Reply
        BY DEF Demo!Said, Reply, Whats, Places
      <4>2. answers' \in [Requests -> Seq(Answer)]
        BY <3>6, WriteGrows DEF Demo!Pass, DemoTypes
      <4>. QED  BY <2>5, <3>6, <4>1, <4>2 DEF Demo!Pass, Demo!WorkerBecomes, DemoTypes
    <3>7. CASE Demo!Return(r)
      BY <2>5, <3>7 DEF Demo!Return, DemoTypes
    <3>8. CASE Demo!Timeout(r)
      <4>1. answers' \in [Requests -> Seq(Answer)]
        BY <3>8, TimeoutGrows
      <4>. QED  BY <2>5, <3>8, <4>1 DEF Demo!Timeout, DemoTypes
    <3>. QED  BY <2>5, <3>1, <3>2, <3>3, <3>4, <3>5, <3>6, <3>7, <3>8, WorkerSteps
  <2>. QED  BY <2>1, <2>2, <2>3, <2>4, <2>5 DEF Demo!Next
<1>. QED  BY <1>1, <1>2, PTL DEF Demo!Spec

-----------------------------------------------------------------------------
(* examples/etcd-demo: receipts *)

\* The record that a receipt names is there, and the one that it was given for.
Kept(a) ==
  a.what = "created" =>
    /\ a.at \in Servers /\ a.id \in DOMAIN store[a.at].rows
    /\ store[a.at].rows[a.id] = a.order

\* The answer a is a right one for request r.
Right(r, a) ==
  /\ a.what = "created" => a.order = r /\ Kept(a)
  /\ a.what \in {"found", "missing"} =>
       /\ kind[r] = "get"
       /\ a.at = wanted[r].at => a.what = "found" /\ a.order = wanted[r].order

\* Whoever an answer is written to, it is right for the request of its worker.
ReceiptInv ==
  /\ \A r \in Requests : kind[r] = "get" => wanted[r].what = "created" /\ Kept(wanted[r])
  /\ \A r \in Requests : Right(r, reply[r])
  /\ \A q \in Requests : \A i \in DOMAIN answers[q] : Right(answers[q][i].by, answers[q][i])

\* No process forgets or changes a record.
LEMMA RecordsStay ==
  ASSUME DemoTypes, [Demo!Next]_Demo!vars
  PROVE  \A s \in Servers : \A id \in DOMAIN store[s].rows :
           id \in DOMAIN store'[s].rows /\ store'[s].rows[id] = store[s].rows[id]
<1>1. CASE UNCHANGED store
  BY <1>1
<1>2. ASSUME NEW m \in wire, Demo!Serve(m)
      PROVE  \A s \in Servers : \A id \in DOMAIN store[s].rows :
               id \in DOMAIN store'[s].rows /\ store'[s].rows[id] = store[s].rows[id]
  <2>1. m.to \in Servers /\ m.by \in Requests
    BY DEF DemoTypes, Message
  <2>2. IsRepo(store[m.to])
    BY <2>1 DEF DemoTypes
  <2>3. \A id \in DOMAIN store[m.to].rows :
          /\ id \in DOMAIN Demo!Create(store[m.to], m.by).rows
          /\ Demo!Create(store[m.to], m.by).rows[id] = store[m.to].rows[id]
    BY <2>1, <2>2, CreateAdds
  <2>4. store' = store \/ store' = [store EXCEPT ![m.to] = Demo!Create(store[m.to], m.by)]
    BY <1>2 DEF Demo!Serve
  <2>. QED  BY <2>1, <2>3, <2>4 DEF DemoTypes
<1>3. UNCHANGED store \/ \E m \in wire : Demo!Serve(m)
  BY DEF Demo!Next, Demo!vars, Demo!Process, Demo!Start, Demo!Exit, Demo!serverVars
<1>. QED  BY <1>1, <1>2, <1>3

\* What a request asks for, it asks for to its end.
LEMMA RequestsStay ==
  ASSUME DemoTypes, [Demo!Next]_Demo!vars
  PROVE  \A r \in Requests :
           \/ kind'[r] = kind[r] /\ wanted'[r] = wanted[r]
           \/ /\ kind[r] = "none"
              /\ kind'[r] = "get" => \E a \in Demo!Receipts : wanted'[r] = a
<1>. USE DEF Demo!requestVars
<1>1. ASSUME NEW r \in Requests, Demo!Arrive(r)
      PROVE  \A q \in Requests :
               \/ kind'[q] = kind[q] /\ wanted'[q] = wanted[q]
               \/ /\ kind[q] = "none"
                  /\ kind'[q] = "get" => \E a \in Demo!Receipts : wanted'[q] = a
  BY <1>1 DEF Demo!Arrive, DemoTypes
<1>2. ASSUME NEW r \in Requests, Demo!Worker(r) \/ Demo!Return(r) \/ Demo!Timeout(r)
      PROVE  UNCHANGED <<kind, wanted>>
  BY <1>2, WorkerSteps
  DEF Begins, Sends, TriesAgain, GivesUp, Demo!Pass, Demo!Return, Demo!Timeout
<1>3. UNCHANGED <<kind, wanted>> \/ \E r \in Requests : Demo!Arrive(r)
  BY <1>2 DEF Demo!Next, Demo!vars
<1>. QED  BY <1>1, <1>3

LEMMA KeptStays ==
  ASSUME DemoTypes, [Demo!Next]_Demo!vars, NEW a, Kept(a)
  PROVE  Kept(a)'
BY RecordsStay DEF Kept

LEMMA RightStays ==
  ASSUME DemoTypes, [Demo!Next]_Demo!vars, NEW r \in Requests, NEW a, Right(r, a)
  PROVE  Right(r, a)'
<1>1. Kept(a) => Kept(a)'
  BY KeptStays
<1>2. a.what \in {"found", "missing"} => kind'[r] = kind[r] /\ wanted'[r] = wanted[r]
  BY RequestsStay DEF Right
<1>. QED  BY <1>1, <1>2 DEF Right

\* New answers are what a process answered, or the gateway's own.
LEMMA AnswerSteps ==
  ASSUME DemoTypes, [Demo!Next]_Demo!vars
  PROVE  \/ UNCHANGED answers
         \/ \E r \in Requests :
              /\ main[r] = "waiting" \/ worker[r] \notin {"idle", "done"}
              /\ Grown(r, reply[r]) \/ Grown(r, Demo!Said("502")) \/ Grown(r, Demo!Said("504"))
<1>1. ASSUME NEW r \in Requests, Demo!Worker(r)
      PROVE  \/ UNCHANGED answers
             \/ /\ worker[r] \notin {"idle", "done"}
                /\ Grown(r, reply[r]) \/ Grown(r, Demo!Said("502"))
  <2>1. CASE Begins(r) \/ Sends(r) \/ TriesAgain(r)
    BY <2>1 DEF Begins, Sends, TriesAgain
  <2>2. CASE GivesUp(r)
    <3>1. Demo!Said("502") \in Reply
      BY DEF Demo!Said, Reply, Whats, Places
    <3>. QED  BY <2>2, <3>1, WriteGrows DEF GivesUp
  <2>3. CASE Demo!Pass(r)
    BY <2>3, WriteGrows DEF Demo!Pass, DemoTypes
  <2>. QED  BY <1>1, <2>1, <2>2, <2>3, WorkerSteps
<1>2. ASSUME NEW r \in Requests, Demo!Timeout(r)
      PROVE  main[r] = "waiting" /\ Grown(r, Demo!Said("504"))
  BY <1>2, TimeoutGrows DEF Demo!Timeout
<1>3. \/ UNCHANGED answers
      \/ \E r \in Requests : Demo!Worker(r) \/ Demo!Timeout(r)
  BY DEF Demo!Next, Demo!vars, Demo!Arrive, Demo!Return
<1>. QED  BY <1>1, <1>2, <1>3

\* What a process answers is right.
LEMMA HandledRight ==
  ASSUME DemoTypes, ReceiptInv, NEW m \in wire, Demo!Serve(m), UNCHANGED Demo!requestVars,
         NEW a, a = Demo!Handled(m.to, m.by)
  PROVE  Right(m.by, a)'
<1>1. m.to \in Servers /\ m.by \in Requests /\ kind[m.by] # "none" /\ IsRepo(store[m.to])
  BY DEF DemoTypes, Message
<1>2. kind' = kind /\ wanted' = wanted
  BY DEF Demo!requestVars
<1>3. CASE kind[m.by] = "create"
  <2>1. /\ a.what = "created" /\ a.at = m.to /\ a.id = store[m.to].nextID /\ a.order = m.by
    BY <1>3 DEF Demo!Handled
  <2>2. store'[m.to] = Demo!Create(store[m.to], m.by)
    BY <1>1, <1>3 DEF Demo!Serve, DemoTypes
  <2>. QED  BY <1>1, <2>1, <2>2, CreateAdds DEF Right, Kept
<1>4. CASE kind[m.by] = "get"
  <2>. DEFINE row == Demo!FindByID(store[m.to], wanted[m.by].id)
  <2>1. a.what = row.what /\ a.at = m.to /\ a.order = row.order
    BY <1>4 DEF Demo!Handled
  <2>2. row.what \in {"found", "missing"}
    BY DEF Demo!FindByID
  <2>3. wanted[m.by].at = m.to => row.what = "found" /\ row.order = wanted[m.by].order
    BY <1>1, <1>4 DEF Demo!FindByID, ReceiptInv, Kept
  <2>. HIDE DEF row
  <2>. QED  BY <1>2, <1>4, <2>1, <2>2, <2>3 DEF Right
<1>. QED  BY <1>1, <1>3, <1>4 DEF DemoTypes

LEMMA ReceiptInvariant == Demo!Spec => []ReceiptInv
<1>1. Demo!Init => ReceiptInv
  BY DEF Demo!Init, ReceiptInv, Right, Demo!Said
<1>2. DemoTypes /\ ReceiptInv /\ [Demo!Next]_Demo!vars => ReceiptInv'
  <2>. SUFFICES ASSUME DemoTypes, ReceiptInv, [Demo!Next]_Demo!vars PROVE ReceiptInv'
    OBVIOUS
  <2>1. ASSUME NEW r \in Requests, kind'[r] = "get"
        PROVE  wanted'[r].what = "created" /\ Kept(wanted[r])'
    <3>1. CASE kind'[r] = kind[r] /\ wanted'[r] = wanted[r]
      BY <2>1, <3>1, RecordsStay DEF ReceiptInv, Kept
    <3>2. ASSUME NEW a \in Demo!Receipts, wanted'[r] = a
          PROVE  wanted'[r].what = "created" /\ Kept(wanted[r])'
      <4>1. PICK q \in Requests : \E i \in DOMAIN answers[q] : a = answers[q][i] /\ a.what = "created"
        BY DEF Demo!Receipts
      <4>2. Kept(a) /\ a.what = "created"
        BY <4>1 DEF ReceiptInv, Right
      <4>. QED  BY <3>2, <4>2, RecordsStay DEF Kept
    <3>. QED  BY <2>1, <3>1, <3>2, RequestsStay
  <2>2. ASSUME NEW r \in Requests PROVE Right(r, reply[r])'
    <3>1. CASE reply'[r] = reply[r]
      <4>1. ASSUME NEW a, a = reply[r] PROVE Right(r, a)'
        BY <4>1, RightStays DEF ReceiptInv
      <4>. QED  BY <3>1, <4>1 DEF Right, Kept
    <3>2. CASE reply'[r] # reply[r]
      <4>1. ASSUME NEW m \in wire, Demo!Serve(m), UNCHANGED Demo!requestVars PROVE Right(r, reply[r])'
        <5>1. m.by = r /\ reply'[r] = Demo!Handled(m.to, m.by)
          BY <3>2, <4>1 DEF Demo!Serve, Demo!workerVars, DemoTypes
        <5>2. ASSUME NEW a, a = Demo!Handled(m.to, m.by) PROVE Right(r, a)'
          BY <4>1, <5>1, <5>2, HandledRight
        <5>. QED  BY <5>1, <5>2 DEF Right, Kept
      <4>2. ASSUME NEW q \in Requests, Demo!Pass(q) PROVE Right(r, reply[r])'
        <5>1. reply'[r] = Demo!Said("nothing")
          BY <3>2, <4>2 DEF Demo!Pass, DemoTypes
        <5>. QED  BY <5>1 DEF Right, Demo!Said
      <4>3. \/ \E m \in wire : Demo!Serve(m) /\ UNCHANGED Demo!requestVars
            \/ \E q \in Requests : Demo!Pass(q)
        BY <3>2, WorkerSteps
        DEF Demo!Next, Demo!vars, Demo!Arrive, Demo!Return, Demo!Timeout, Begins, Sends,
            TriesAgain, GivesUp, Demo!workerVars
      <4>. QED  BY <4>1, <4>2, <4>3
    <3>. QED  BY <3>1, <3>2
  <2>3. ASSUME NEW q \in Requests, NEW i \in DOMAIN answers'[q]
        PROVE  Right(answers[q][i].by, answers[q][i])'
    <3>1. CASE i \in DOMAIN answers[q] /\ answers'[q][i] = answers[q][i]
      <4>1. answers[q][i].by \in Requests
        <5>1. answers[q] \in Seq(Answer)
          BY DEF DemoTypes
        <5>2. answers[q][i] \in Answer
          BY <3>1, <5>1
        <5>. QED  BY <5>2 DEF Answer
      <4>2. Right(answers[q][i].by, answers[q][i])
        BY <3>1 DEF ReceiptInv
      <4>3. ASSUME NEW a, a = answers[q][i] PROVE Right(a.by, a)'
        BY <4>1, <4>2, <4>3, RightStays
      <4>. QED  BY <3>1, <4>3 DEF Right, Kept
    <3>2. ASSUME NEW r \in Requests, answers'[q][i] = Demo!By(r, reply[r])
          PROVE  Right(answers[q][i].by, answers[q][i])'
      <4>1. ASSUME NEW a, a = reply[r] PROVE Right(r, a)'
        BY <4>1, RightStays DEF ReceiptInv
      <4>. QED  BY <3>2, <4>1 DEF Right, Kept, Demo!By
    <3>3. ASSUME NEW r \in Requests,
                 answers'[q][i] \in {Demo!By(r, Demo!Said("502")), Demo!By(r, Demo!Said("504"))}
          PROVE  Right(answers[q][i].by, answers[q][i])'
      BY <3>3 DEF Right, Demo!By, Demo!Said
    <3>. QED  BY <3>1, <3>2, <3>3, AnswerSteps DEF Grown
  <2>. QED  BY <2>1, <2>2, <2>3 DEF ReceiptInv
<1>. QED  BY <1>1, <1>2, DemoTypesInvariant, PTL DEF Demo!Spec

\* The part named "demo" of MCLibrary is a behaviour of EtcdDemo.
LEMMA DemoRuns == LibSpec => Demo!Spec
<1>1. LibInit => Demo!Init
  BY DEF LibInit
<1>2. [LibNext]_libVars => [Demo!Next]_Demo!vars
  BY DEF LibNext, libVars, AppNext, NetNext, BaseNext, appVars, netVars, baseVars, demoVars, Demo!vars
<1>. QED  BY <1>1, <1>2, PTL DEF LibSpec, Demo!Spec

\* A receipt is good at the process that gave it, for ever: ids are never given twice,
\* and a record stays as it was created (memory.go:24, handler.go:29 of payment-service).
THEOREM ReceiptsAlwaysHold == LibSpec => []ReceiptsHold
<1>1. ReceiptInv => ReceiptsHold
  <2>. SUFFICES ASSUME ReceiptInv, NEW r \in Requests,
                       NEW i \in DOMAIN answers[r], answers[r][i].by = r
                PROVE  LET a == answers[r][i]
                       IN  /\ a.what = "created" => store[a.at].rows[a.id] = r
                           /\ a.what \in {"found", "missing"} /\ a.at = wanted[r].at =>
                                a.what = "found" /\ a.order = wanted[r].order
    BY DEF ReceiptsHold, Demo!ReceiptsHold, Demo!OwnAnswers
  <2>1. Right(r, answers[r][i])
    BY DEF ReceiptInv
  <2>. QED  BY <2>1 DEF Right, Kept
<1>. QED  BY <1>1, DemoRuns, ReceiptInvariant, PTL

-----------------------------------------------------------------------------
(* examples/etcd-demo: answers of others *)

\* The client of r was told that its time was over.
Told(r) == \E i \in DOMAIN answers[r] : answers[r][i].by = r /\ answers[r][i].what = "504"

\* No two requests wait with one gin.Context, and a worker that nobody waits for any
\* more is one whose client was told.
LateInv ==
  /\ \A r \in Requests : main[r] = "idle" => worker[r] = "idle"
  /\ \A r \in Requests : main[r] = "returned" /\ worker[r] # "done" => Told(r)
  /\ \A r, q \in Requests :
       main[r] = "waiting" /\ main[q] = "waiting" /\ context[r] = context[q] => r = q
  /\ \A q \in Requests : \A i \in DOMAIN answers[q] :
       answers[q][i].by # q => Told(answers[q][i].by)

LEMMA ToldStays ==
  ASSUME DemoTypes, [Demo!Next]_Demo!vars, NEW r \in Requests, Told(r)
  PROVE  Told(r)'
BY AnswerSteps DEF Told, Grown

LEMMA LateInvariant == Demo!Spec => []LateInv
<1>1. Demo!Init => LateInv
  BY DEF Demo!Init, LateInv
<1>2. DemoTypes /\ LateInv /\ [Demo!Next]_Demo!vars => LateInv'
  <2>. SUFFICES ASSUME DemoTypes, LateInv, [Demo!Next]_Demo!vars PROVE LateInv'
    OBVIOUS
  <2>1. ASSUME NEW q \in Requests, NEW i \in DOMAIN answers'[q], answers'[q][i].by # q
        PROVE  Told(answers[q][i].by)'
    <3>1. CASE i \in DOMAIN answers[q] /\ answers'[q][i] = answers[q][i]
      <4>1. answers[q] \in Seq(Answer)
        BY DEF DemoTypes
      <4>2. answers[q][i] \in Answer
        BY <3>1, <4>1
      <4>3. answers[q][i].by \in Requests /\ Told(answers[q][i].by)
        BY <2>1, <3>1, <4>2 DEF LateInv, Answer
      <4>4. ASSUME NEW b, b = answers[q][i].by PROVE Told(b)'
        BY <4>3, <4>4, ToldStays
      <4>. QED  BY <3>1, <4>4 DEF Told
    <3>2. ASSUME NEW r \in Requests, answers'[q][i].by = r, Demo!Holds(q, context[r]),
                 main[r] = "waiting" \/ worker[r] \notin {"idle", "done"}
          PROVE  Told(answers[q][i].by)'
      <4>1. main[q] = "waiting" /\ context[q] = context[r] /\ q # r
        BY <2>1, <3>2 DEF Demo!Holds
      <4>2. main[r] = "returned" /\ worker[r] # "done"
        BY <3>2, <4>1 DEF LateInv, DemoTypes
      <4>3. Told(r)
        BY <4>2 DEF LateInv
      <4>4. Told(r)'
        BY <4>3, ToldStays
      <4>. QED  BY <3>2, <4>4 DEF Told
    <3>3. \A r, a : Demo!By(r, a).by = r
      BY DEF Demo!By
    <3>4. CASE UNCHANGED answers
      BY <3>1, <3>4
    <3>5. ASSUME NEW r \in Requests, NEW a, Grown(r, a)
          PROVE  \/ i \in DOMAIN answers[q] /\ answers'[q][i] = answers[q][i]
                 \/ answers'[q][i].by = r /\ Demo!Holds(q, context[r])
      BY <3>3, <3>5 DEF Grown
    <3>. QED  BY <3>1, <3>2, <3>4, <3>5, AnswerSteps
  <2>2. ASSUME \A r \in Requests :
                 /\ main'[r] = main[r]
                 /\ worker[r] \in {"idle", "done"} => worker'[r] = worker[r],
               UNCHANGED context
        PROVE  LateInv'
    <3>1. \A r \in Requests : main'[r] = "idle" => worker'[r] = "idle"
      BY <2>2 DEF LateInv
    <3>2. \A r \in Requests : main'[r] = "returned" /\ worker'[r] # "done" => Told(r)'
      BY <2>2, ToldStays DEF LateInv
    <3>3. \A r, q \in Requests :
            main'[r] = "waiting" /\ main'[q] = "waiting" /\ context'[r] = context'[q] => r = q
      BY <2>2 DEF LateInv
    <3>. QED  BY <2>1, <3>1, <3>2, <3>3 DEF LateInv
  <2>3. ASSUME NEW r \in Requests, Demo!Arrive(r) PROVE LateInv'
    <3>1. /\ main' = [main EXCEPT ![r] = "waiting"] /\ main \in [Requests -> {"idle", "waiting", "returned"}]
          /\ \A q \in Requests \ {r} : worker'[q] = worker[q] /\ context'[q] = context[q]
      BY <2>3 DEF Demo!Arrive, DemoTypes
    <3>2. \A q \in Requests : main[q] = "waiting" => context[q] # context'[r]
      BY <2>3 DEF Demo!Arrive, Demo!Holds, DemoTypes
    <3>3. \A q \in Requests : main'[q] = "returned" /\ worker'[q] # "done" => Told(q)'
      BY <3>1, ToldStays DEF LateInv
    <3>. QED  BY <2>1, <3>1, <3>2, <3>3 DEF LateInv
  <2>4. ASSUME NEW r \in Requests, Demo!Return(r) \/ Demo!Timeout(r) PROVE LateInv'
    <3>1. /\ main[r] = "waiting" /\ main' = [main EXCEPT ![r] = "returned"]
          /\ main \in [Requests -> {"idle", "waiting", "returned"}]
          /\ UNCHANGED <<worker, context>>
      BY <2>4 DEF Demo!Return, Demo!Timeout, DemoTypes, Demo!workerVars
    <3>2. worker'[r] # "done" => Told(r)'
      <4>1. CASE Demo!Return(r)
        BY <3>1, <4>1 DEF Demo!Return
      <4>2. CASE Demo!Timeout(r)
        <5>1. answers[r] \in Seq(Answer)
          BY DEF DemoTypes
        <5>2. answers'[r] = Append(answers[r], Demo!By(r, Demo!Said("504")))
          BY <4>2, TimeoutGrows
        <5>3. /\ Len(answers[r]) + 1 \in DOMAIN answers'[r]
              /\ answers'[r][Len(answers[r]) + 1] = Demo!By(r, Demo!Said("504"))
          BY <5>1, <5>2
        <5>4. Demo!By(r, Demo!Said("504")).by = r /\ Demo!By(r, Demo!Said("504")).what = "504"
          BY DEF Demo!By, Demo!Said
        <5>. QED  BY <5>3, <5>4 DEF Told
      <4>. QED  BY <2>4, <4>1, <4>2
    <3>3. \A q \in Requests : main'[q] = "returned" /\ worker'[q] # "done" => Told(q)'
      BY <3>1, <3>2, ToldStays DEF LateInv
    <3>4. \A q \in Requests : main'[q] = "idle" => worker'[q] = "idle"
      BY <3>1 DEF LateInv
    <3>5. \A p, q \in Requests :
            main'[p] = "waiting" /\ main'[q] = "waiting" /\ context'[p] = context'[q] => p = q
      BY <3>1 DEF LateInv
    <3>. QED  BY <2>1, <3>3, <3>4, <3>5 DEF LateInv
  <2>5. ASSUME NEW r \in Requests, Demo!Worker(r) PROVE LateInv'
    <3>1. UNCHANGED <<main, context>>
      BY <2>5, WorkerSteps DEF Begins, Sends, TriesAgain, GivesUp, Demo!Pass, Demo!requestVars
    <3>2. \A q \in Requests : worker[q] \in {"idle", "done"} => worker'[q] = worker[q]
      BY <2>5, WorkerSteps
      DEF Begins, Sends, TriesAgain, GivesUp, Demo!Pass, Demo!WorkerBecomes, DemoTypes
    <3>. QED  BY <2>2, <3>1, <3>2
  <2>6. ASSUME NEW m \in wire, Demo!Serve(m), UNCHANGED Demo!requestVars PROVE LateInv'
    <3>1. \A q \in Requests : worker[q] \in {"idle", "done"} => worker'[q] = worker[q]
      BY <2>6 DEF Demo!Serve, DemoTypes, Demo!workerVars
    <3>. QED  BY <2>2, <2>6, <3>1 DEF Demo!requestVars
  <2>7. CASE UNCHANGED <<main, worker, context>>
    BY <2>2, <2>7
  <2>. QED  BY <2>3, <2>4, <2>5, <2>6, <2>7 DEF Demo!Next, Demo!vars, Demo!requestVars, Demo!workerVars
<1>. QED  BY <1>1, <1>2, DemoTypesInvariant, PTL DEF Demo!Spec

\* A client is sent somebody else's answer only by a worker that outlived its own request,
\* whose client was told so with a 504 (gateway/internal/middleware/middleware.go:53).
THEOREM OthersAnswersAreLate == LibSpec => []OthersAnswersOnlyLate
<1>1. LateInv => OthersAnswersOnlyLate
  <2>. SUFFICES ASSUME LateInv, NEW r \in Requests, NEW i \in DOMAIN answers[r],
                       answers[r][i].by # r
                PROVE  \E a \in Demo!OwnAnswers(answers[r][i].by) : a.what = "504"
    BY DEF OthersAnswersOnlyLate, Demo!OthersAnswersOnlyLate
  <2>1. Told(answers[r][i].by)
    BY DEF LateInv
  <2>. QED  BY <2>1 DEF Told, Demo!OwnAnswers
<1>. QED  BY <1>1, DemoRuns, LateInvariant, PTL

-----------------------------------------------------------------------------
(* examples/etcd-demo: records per request *)

OnWire(r) == {m \in wire : m.by = r}

\* The attempts of r that may have been sent.
Sent(r) == tries[r] + IF worker[r] \in {"idle", "handler", "sending"} THEN 0 ELSE 1

\* An attempt is one record, or still under way, or neither.
ChargeInv ==
  /\ IsFiniteSet(wire)
  /\ \A r \in Requests :
       /\ IsFiniteSet(Demo!Created(r))
       /\ Cardinality(Demo!Created(r)) + Cardinality(OnWire(r)) <= Sent(r)

\* A step that creates at most the record x, and puts at most m on the wire.
LEMMA CreatedSteps ==
  ASSUME DemoTypes, [Demo!Next]_Demo!vars, NEW r \in Requests
  PROVE  \/ Demo!Created(r)' \subseteq Demo!Created(r)
         \/ \E m \in wire : /\ m.by = r /\ wire' = wire \ {m} /\ UNCHANGED tries
                           /\ Sent(r)' = Sent(r)
                           /\ \E x : Demo!Created(r)' \subseteq Demo!Created(r) \cup {x}
<1>1. CASE UNCHANGED store
  BY <1>1 DEF Demo!Created
<1>2. ASSUME NEW m \in wire, Demo!Serve(m), store' # store
      PROVE  \/ Demo!Created(r)' \subseteq Demo!Created(r)
             \/ /\ m.by = r /\ wire' = wire \ {m} /\ UNCHANGED tries
                /\ Sent(r)' = Sent(r)
                /\ \E x : Demo!Created(r)' \subseteq Demo!Created(r) \cup {x}
  <2>. DEFINE repo == store[m.to]
              new == Demo!Create(repo, m.by)
              x == <<m.to, repo.nextID>>
  <2>1. m.to \in Servers /\ m.by \in Requests /\ IsRepo(repo)
    BY DEF DemoTypes, Message
  <2>2. store' = [store EXCEPT ![m.to] = new]
    BY <1>2 DEF Demo!Serve
  <2>3. /\ DOMAIN new.rows = DOMAIN repo.rows \cup {repo.nextID}
        /\ new.rows[repo.nextID] = m.by
        /\ \A id \in DOMAIN repo.rows : new.rows[id] = repo.rows[id]
    BY <2>1, CreateAdds
  <2>4. store'[m.to] = new /\ \A s \in Servers \ {m.to} : store'[s] = store[s]
    BY <2>1, <2>2 DEF DemoTypes
  <2>. HIDE DEF new
  <2>5. ASSUME NEW e \in Demo!Created(r)' PROVE e \in Demo!Created(r) \/ (e = x /\ m.by = r)
    <3>. PICK s \in Servers : \E id \in DOMAIN store'[s].rows :
           e = <<s, id>> /\ store'[s].rows[id] = r
      BY DEF Demo!Created
    <3>1. PICK id \in DOMAIN store'[s].rows : e = <<s, id>> /\ store'[s].rows[id] = r
      OBVIOUS
    <3>2. \A t \in Servers : \A k \in DOMAIN store[t].rows :
            store[t].rows[k] = r => <<t, k>> \in Demo!Created(r)
      BY DEF Demo!Created
    <3>3. CASE s = m.to /\ id = repo.nextID
      BY <2>3, <2>4, <3>1, <3>3
    <3>4. CASE s = m.to /\ id \in DOMAIN repo.rows
      BY <2>3, <2>4, <3>1, <3>2, <3>4
    <3>5. CASE s # m.to
      BY <2>4, <3>1, <3>2, <3>5
    <3>. QED  BY <2>3, <2>4, <3>1, <3>3, <3>4, <3>5
  <2>6. wire' = wire \ {m} /\ tries' = tries /\ (worker'[r] = worker[r] \/ (worker[r] = "sent" /\ worker'[r] = "got"))
    BY <1>2, <2>1 DEF Demo!Serve, Demo!workerVars, DemoTypes
  <2>7. Sent(r)' = Sent(r)
    BY <2>6 DEF Sent
  <2>. QED  BY <2>5, <2>6, <2>7
<1>3. UNCHANGED store \/ \E m \in wire : Demo!Serve(m)
  BY DEF Demo!Next, Demo!vars, Demo!Process, Demo!Start, Demo!Exit, Demo!serverVars
<1>. QED  BY <1>1, <1>2, <1>3

\* Only an attempt that is sent puts a message on the wire.
LEMMA WireSteps ==
  ASSUME DemoTypes, [Demo!Next]_Demo!vars, NEW r \in Requests
  PROVE  \/ wire' \subseteq wire /\ Sent(r)' >= Sent(r)
         \/ \E m : /\ wire' = wire \cup {m} /\ UNCHANGED store
                   /\ m.by # r => Sent(r)' = Sent(r)
                   /\ m.by = r => Sent(r)' = Sent(r) + 1
<1>. USE DEF DemoTypes
<1>1. CASE UNCHANGED <<tries, worker>> /\ wire' \subseteq wire
  BY <1>1 DEF Sent
<1>2. ASSUME NEW q \in Requests, UNCHANGED Demo!serverVars,
             Demo!Arrive(q) \/ Begins(q) \/ TriesAgain(q) \/ GivesUp(q) \/ Demo!Pass(q)
      PROVE  wire' \subseteq wire /\ Sent(r)' >= Sent(r)
  <2>1. UNCHANGED wire
    BY <1>2 DEF Demo!Arrive, Begins, TriesAgain, GivesUp, Demo!Pass
  <2>2. CASE Demo!Arrive(q)
    <3>1. UNCHANGED tries /\ worker[q] = "idle" /\ worker' = [worker EXCEPT ![q] = "handler"]
      BY <2>2 DEF Demo!Arrive
    <3>. QED  BY <2>1, <3>1 DEF Sent
  <2>3. CASE Begins(q)
    BY <2>1, <2>3 DEF Begins, Sent
  <2>4. CASE TriesAgain(q)
    BY <2>1, <2>4 DEF TriesAgain, Sent
  <2>5. CASE GivesUp(q)
    BY <2>1, <2>5 DEF GivesUp, Sent
  <2>6. CASE Demo!Pass(q)
    BY <2>1, <2>6 DEF Demo!Pass, Demo!WorkerBecomes, Sent
  <2>. QED  BY <1>2, <2>2, <2>3, <2>4, <2>5, <2>6
<1>3. ASSUME NEW q \in Requests, UNCHANGED Demo!serverVars, Sends(q)
      PROVE  \E m : /\ wire' = wire \cup {m} /\ UNCHANGED store
                    /\ m.by # r => Sent(r)' = Sent(r)
                    /\ m.by = r => Sent(r)' = Sent(r) + 1
  <2>1. PICK s \in Servers : wire' = wire \cup {[by |-> q, try |-> tries[q], to |-> s]}
    BY <1>3 DEF Sends
  <2>. DEFINE m == [by |-> q, try |-> tries[q], to |-> s]
  <2>2. m.by = q
    OBVIOUS
  <2>3. /\ q # r => Sent(r)' = Sent(r)
        /\ q = r => Sent(r)' = Sent(r) + 1
    BY <1>3 DEF Sends, Sent
  <2>. QED  BY <1>3, <2>1, <2>2, <2>3 DEF Demo!serverVars
<1>4. ASSUME NEW m \in wire, Demo!Serve(m) PROVE wire' \subseteq wire /\ Sent(r)' >= Sent(r)
  <2>1. m.by \in Requests
    BY DEF Message
  <2>2. wire' \subseteq wire /\ tries' = tries
    BY <1>4 DEF Demo!Serve, Demo!workerVars
  <2>3. worker'[r] = worker[r] \/ (worker[r] = "sent" /\ worker'[r] = "got")
    BY <1>4, <2>1 DEF Demo!Serve, Demo!workerVars
  <2>. QED  BY <2>2, <2>3 DEF Sent
<1>5. ASSUME NEW q \in Requests, Demo!Return(q) \/ Demo!Timeout(q) PROVE UNCHANGED <<wire, tries, worker>>
  BY <1>5 DEF Demo!Return, Demo!Timeout, Demo!workerVars
<1>6. ASSUME NEW s \in Servers, Demo!Process(s), UNCHANGED Demo!workerVars
      PROVE  UNCHANGED <<tries, worker>> /\ wire' \subseteq wire
  BY <1>6 DEF Demo!Process, Demo!Start, Demo!Exit, Demo!workerVars
<1>7. CASE Demo!Boot /\ UNCHANGED <<Demo!workerVars, wire>>
  BY <1>1, <1>7 DEF Demo!workerVars
<1>8. CASE UNCHANGED Demo!vars
  BY <1>1, <1>8 DEF Demo!vars
<1>9. ASSUME NEW q \in Requests, UNCHANGED <<Demo!serverVars, gate>>,
             Demo!Arrive(q) \/ Demo!Worker(q) \/ Demo!Return(q) \/ Demo!Timeout(q)
      PROVE  \/ wire' \subseteq wire /\ Sent(r)' >= Sent(r)
             \/ \E m : /\ wire' = wire \cup {m} /\ UNCHANGED store
                       /\ m.by # r => Sent(r)' = Sent(r)
                       /\ m.by = r => Sent(r)' = Sent(r) + 1
  <2>1. UNCHANGED Demo!serverVars
    BY <1>9
  <2>2. CASE Demo!Worker(q)
    BY <1>2, <1>3, <2>1, <2>2, WorkerSteps
  <2>3. CASE Demo!Return(q) \/ Demo!Timeout(q)
    BY <1>1, <1>5, <2>3
  <2>. QED  BY <1>2, <1>9, <2>1, <2>2, <2>3
<1>. QED  BY <1>1, <1>4, <1>6, <1>7, <1>8, <1>9 DEF Demo!Next

LEMMA ChargeInvariant == Demo!Spec => []ChargeInv
<1>1. Demo!Init => ChargeInv
  <2>. SUFFICES ASSUME Demo!Init PROVE ChargeInv
    OBVIOUS
  <2>1. wire = {} /\ \A r \in Requests : OnWire(r) = {} /\ Sent(r) = 0
    BY DEF Demo!Init, OnWire, Sent
  <2>2. ASSUME NEW r \in Requests PROVE Demo!Created(r) = {}
    <3>1. r # "preloaded"
      BY DemoAssumption
    <3>2. ASSUME NEW s \in Servers, NEW id \in DOMAIN store[s].rows PROVE store[s].rows[id] # r
      BY <3>1 DEF Demo!Init, Demo!NewRepo
    <3>. QED  BY <3>2 DEF Demo!Created
  <2>. QED  BY <2>1, <2>2, FS_EmptySet DEF ChargeInv
<1>2. DemoTypes /\ DemoTypes' /\ ChargeInv /\ [Demo!Next]_Demo!vars => ChargeInv'
  <2>. SUFFICES ASSUME DemoTypes, DemoTypes', ChargeInv, [Demo!Next]_Demo!vars PROVE ChargeInv'
    OBVIOUS
  <2>1. IsFiniteSet(wire')
    <3>1. CASE Requests = {}
      <4>1. wire' = {}
        BY <3>1 DEF DemoTypes, Message
      <4>. QED  BY <4>1, FS_EmptySet
    <3>2. ASSUME NEW r \in Requests PROVE IsFiniteSet(wire')
      <4>1. wire' \subseteq wire \/ \E m : wire' = wire \cup {m}
        BY WireSteps
      <4>. QED  BY <4>1, FS_Subset, FS_AddElement DEF ChargeInv
    <3>. QED  BY <3>1, <3>2
  <2>2. ASSUME NEW r \in Requests
        PROVE  /\ IsFiniteSet(Demo!Created(r)')
               /\ Cardinality(Demo!Created(r)') + Cardinality(OnWire(r)') <= Sent(r)'
    <3>. DEFINE C == Demo!Created(r)
                W == OnWire(r)
    <3>1. /\ IsFiniteSet(C) /\ Cardinality(C) \in Nat
          /\ IsFiniteSet(W) /\ Cardinality(W) \in Nat
          /\ Cardinality(C) + Cardinality(W) <= Sent(r)
      <4>1. W \subseteq wire
        BY DEF OnWire
      <4>. QED  BY <4>1, FS_Subset, FS_CardinalityType DEF ChargeInv
    <3>2. Sent(r) \in Nat /\ Sent(r)' \in Nat
      BY DemoAssumption DEF DemoTypes, Sent
    <3>3. CASE C' \subseteq C /\ W' \subseteq W /\ Sent(r)' >= Sent(r)
      <4>1. /\ IsFiniteSet(C') /\ Cardinality(C') \in Nat /\ Cardinality(C') <= Cardinality(C)
            /\ Cardinality(W') \in Nat /\ Cardinality(W') <= Cardinality(W)
        BY <3>1, <3>3, FS_Subset, FS_CardinalityType
      <4>. HIDE DEF C, W
      <4>2. IsFiniteSet(C') /\ Cardinality(C') + Cardinality(W') <= Sent(r)'
        BY <3>1, <3>2, <3>3, <4>1
      <4>. QED  BY <4>2 DEF C, W
    <3>4. ASSUME NEW m \in wire, m.by = r, wire' = wire \ {m}, Sent(r)' = Sent(r),
                 NEW x, C' \subseteq C \cup {x}
          PROVE  /\ IsFiniteSet(Demo!Created(r)')
                 /\ Cardinality(Demo!Created(r)') + Cardinality(OnWire(r)') <= Sent(r)'
      <4>1. m \in W /\ W' = W \ {m}
        BY <3>4 DEF OnWire
      <4>2. Cardinality(W') = Cardinality(W) - 1
        BY <3>1, <4>1, FS_RemoveElement
      <4>3. IsFiniteSet(C \cup {x}) /\ Cardinality(C \cup {x}) <= Cardinality(C) + 1
        <5>1. /\ IsFiniteSet(C \cup {x})
              /\ Cardinality(C \cup {x}) = IF x \in C THEN Cardinality(C) ELSE Cardinality(C) + 1
          BY <3>1, FS_AddElement
        <5>. HIDE DEF C
        <5>. QED  BY <3>1, <5>1
      <4>4. /\ IsFiniteSet(C') /\ Cardinality(C') \in Nat
            /\ Cardinality(C') <= Cardinality(C \cup {x}) /\ Cardinality(C \cup {x}) \in Nat
        BY <3>4, <4>3, FS_Subset, FS_CardinalityType
      <4>. HIDE DEF C, W
      <4>5. IsFiniteSet(C') /\ Cardinality(C') + Cardinality(W') <= Sent(r)'
        BY <3>1, <3>2, <3>4, <4>2, <4>3, <4>4
      <4>. QED  BY <4>5 DEF C, W
    <3>5. ASSUME NEW m, wire' = wire \cup {m}, UNCHANGED store,
                 m.by # r => Sent(r)' = Sent(r), m.by = r => Sent(r)' = Sent(r) + 1
          PROVE  /\ IsFiniteSet(Demo!Created(r)')
                 /\ Cardinality(Demo!Created(r)') + Cardinality(OnWire(r)') <= Sent(r)'
      <4>1. C' = C
        BY <3>5 DEF Demo!Created
      <4>2. CASE m.by # r
        <5>1. W' = W
          BY <3>5, <4>2 DEF OnWire
        <5>. QED  BY <3>1, <3>5, <4>1, <4>2, <5>1
      <4>3. CASE m.by = r
        <5>1. W' = W \cup {m}
          BY <3>5, <4>3 DEF OnWire
        <5>2. Cardinality(W \cup {m}) = IF m \in W THEN Cardinality(W) ELSE Cardinality(W) + 1
          BY <3>1, FS_AddElement
        <5>. HIDE DEF C, W
        <5>3. IsFiniteSet(C') /\ Cardinality(C') + Cardinality(W') <= Sent(r)'
          BY <3>1, <3>2, <3>5, <4>1, <4>3, <5>1, <5>2
        <5>. QED  BY <5>3 DEF C, W
      <4>. QED  BY <4>2, <4>3
    <3>6. CASE wire' \subseteq wire /\ Sent(r)' >= Sent(r)
      <4>1. W' \subseteq W
        BY <3>6 DEF OnWire
      <4>. HIDE DEF W
      <4>. QED  BY <3>3, <3>4, <3>6, <4>1, CreatedSteps
    <3>7. CASE \E m : /\ wire' = wire \cup {m} /\ UNCHANGED store
                      /\ m.by # r => Sent(r)' = Sent(r)
                      /\ m.by = r => Sent(r)' = Sent(r) + 1
      BY <3>5, <3>7
    <3>. HIDE DEF C, W
    <3>. QED  BY <3>6, <3>7, WireSteps
  <2>. QED  BY <2>1, <2>2 DEF ChargeInv
<1>. QED  BY <1>1, <1>2, DemoTypesInvariant, PTL DEF Demo!Spec

\* The instance's Cardinality is this module's.
LEMMA DemoSizes == \A S : Demo!Cardinality(S) = Cardinality(S)
BY DEF Demo!Cardinality, Cardinality

\* A request leaves no more records behind than it made attempts, and makes Retries + 1
\* attempts at most, whatever became of its messages (pooled_client.go:254).
THEOREM ChargesAreBounded == LibSpec => []ChargesBounded
<1>1. DemoTypes /\ ChargeInv => ChargesBounded
  <2>. SUFFICES ASSUME DemoTypes, ChargeInv  PROVE ChargesBounded
    OBVIOUS
  <2>1. ASSUME NEW r \in Requests
        PROVE  Cardinality(Demo!Created(r)) <= tries[r] + 1 /\ tries[r] <= Retries
    <3>1. OnWire(r) \subseteq wire
      BY DEF OnWire
    <3>2. Cardinality(Demo!Created(r)) \in Nat /\ Cardinality(OnWire(r)) \in Nat
      BY <3>1, FS_Subset, FS_CardinalityType DEF ChargeInv
    <3>3. tries[r] \in 0 .. Retries
      BY DEF DemoTypes
    <3>4. Cardinality(Demo!Created(r)) + Cardinality(OnWire(r)) <= Sent(r)
      BY DEF ChargeInv
    <3>. QED  BY <3>2, <3>3, <3>4, DemoAssumption DEF Sent
  <2>2. Demo!ChargesBounded
    BY <2>1, DemoSizes DEF Demo!ChargesBounded
  <2>. QED  BY <2>2 DEF ChargesBounded
<1>. QED  BY <1>1, DemoRuns, DemoTypesInvariant, ChargeInvariant, PTL

-----------------------------------------------------------------------------
(* event/event.go: every subscriber once *)

BusTypes ==
  /\ made \in 0 .. MaxSubs
  /\ len \in 0 .. made
  /\ array \in [1 .. MaxSubs -> Nat]
  /\ stage \in [Publishers -> {"idle", "copying", "waiting", "returned"}]
  /\ size \in [Publishers -> Nat]
  /\ handlers \in [Publishers -> Seq(Nat)]
  /\ running \in [Publishers -> SUBSET Nat]
  /\ present \in [Publishers -> SUBSET Nat]

\* The subscribers are different ones, and the next to come is another one.
Distinct ==
  /\ \A i \in 1 .. len : array[i] <= made
  /\ \A i, j \in 1 .. len : array[i] = array[j] => i = j

Copiers == {p \in Publishers : stage[p] = "copying"}

\* What a publisher has copied is the beginning of a list that stays as it is.
Copying(p) ==
  /\ size[p] = len
  /\ Len(handlers[p]) <= len
  /\ \A i \in 1 .. Len(handlers[p]) : handlers[p][i] = array[i]
  /\ present[p] = {array[i] : i \in 1 .. len}

Complete(p) == Bus!IsInjective(handlers[p]) /\ present[p] \subseteq Bus!ToSet(handlers[p])

CopyInv ==
  \A p \in Publishers :
    /\ stage[p] = "idle" => handlers[p] = <<>>
    /\ stage[p] = "copying" => Copying(p)
    /\ stage[p] \in {"waiting", "returned"} => Complete(p)

BusInv == BusTypes /\ Distinct /\ readers = Cardinality(Copiers) /\ CopyInv

\* A subscription is taken out: nobody reads, the others move together, and publishers
\* have one less to reach.
Removed ==
  /\ readers = 0
  /\ len' \in 0 .. made
  /\ array' \in [1 .. MaxSubs -> Nat]
  /\ present' \in [Publishers -> SUBSET Nat]
  /\ \A p \in Publishers : present'[p] \subseteq present[p]
  /\ \A i \in 1 .. len' : array'[i] <= made
  /\ \A i, j \in 1 .. len' : array'[i] = array'[j] => i = j

LEMMA CancelRemoves ==
  ASSUME BusTypes, Distinct, NEW sub, Bus!Cancelled(sub)
  PROVE  Removed
<1>1. PICK k \in 1 .. len :
        array' = [j \in DOMAIN array |-> IF j \in k .. (len - 1) THEN array[j + 1] ELSE array[j]]
  BY DEF Bus!Cancelled
<1>2. len' = len - 1 /\ readers = 0 /\ present' = [p \in Publishers |-> present[p] \ {sub}]
  BY DEF Bus!Cancelled
<1>3. /\ made \in 0 .. MaxSubs /\ len \in 0 .. made /\ MaxSubs \in Nat
      /\ array \in [1 .. MaxSubs -> Nat]
  BY BusAssumption DEF BusTypes
<1>4. /\ \A j \in 1 .. len' : array'[j] = array[IF j \in k .. (len - 1) THEN j + 1 ELSE j]
      /\ \A j \in 1 .. len' : (IF j \in k .. (len - 1) THEN j + 1 ELSE j) \in 1 .. len
      /\ array' \in [1 .. MaxSubs -> Nat]
  <2>1. \A j \in 1 .. MaxSubs : j \in k .. (len - 1) => j + 1 \in 1 .. MaxSubs
    BY <1>3
  <2>2. array' \in [1 .. MaxSubs -> Nat]
    BY <1>1, <1>3, <2>1
  <2>3. \A j \in 1 .. MaxSubs :
          array'[j] = IF j \in k .. (len - 1) THEN array[j + 1] ELSE array[j]
    BY <1>1, <1>3
  <2>. QED  BY <1>2, <1>3, <2>2, <2>3
<1>5. \A i \in 1 .. len' : array'[i] <= made
  BY <1>4 DEF Distinct
<1>6. ASSUME NEW i \in 1 .. len', NEW j \in 1 .. len', array'[i] = array'[j]
      PROVE  i = j
  <2>. DEFINE I == IF i \in k .. (len - 1) THEN i + 1 ELSE i
              J == IF j \in k .. (len - 1) THEN j + 1 ELSE j
  <2>1. I \in 1 .. len /\ J \in 1 .. len /\ array[I] = array[J]
    BY <1>4, <1>6
  <2>2. I = J
    BY <2>1 DEF Distinct
  <2>. QED  BY <2>2, <1>2, <1>3
<1>7. present' \in [Publishers -> SUBSET Nat] /\ \A p \in Publishers : present'[p] \subseteq present[p]
  BY <1>2 DEF BusTypes
<1>. QED  BY <1>2, <1>3, <1>4, <1>5, <1>6, <1>7 DEF Removed

\* While somebody holds the lock to read, nobody writes.
LEMMA NobodyCopies ==
  ASSUME readers = Cardinality(Copiers), readers = 0
  PROVE  \A p \in Publishers : stage[p] # "copying"
<1>1. IsFiniteSet(Copiers)
  BY CallersAssumption, FS_Subset DEF Copiers
<1>. QED  BY <1>1, FS_EmptySet DEF Copiers

LEMMA RemovedKeeps ==
  ASSUME BusInv, Removed, UNCHANGED <<made, readers, stage, size, handlers>>,
         running' \in [Publishers -> SUBSET Nat]
  PROVE  BusInv'
<1>1. BusTypes'
  BY DEF BusInv, BusTypes, Removed
<1>2. Distinct'
  BY DEF BusInv, Distinct, Removed
<1>3. Copiers' = Copiers
  BY DEF Copiers
<1>4. ASSUME NEW p \in Publishers
      PROVE  /\ stage'[p] = "idle" => handlers'[p] = <<>>
             /\ stage'[p] = "copying" => Copying(p)'
             /\ stage'[p] \in {"waiting", "returned"} => Complete(p)'
  <2>1. stage[p] # "copying"
    BY NobodyCopies DEF BusInv, Removed
  <2>2. Complete(p) => Complete(p)'
    BY DEF Complete, Removed
  <2>. QED  BY <2>1, <2>2 DEF BusInv, CopyInv
<1>. QED  BY <1>1, <1>2, <1>3, <1>4 DEF BusInv, CopyInv

\* The handlers at work matter to nobody.
LEMMA BusStays ==
  ASSUME BusInv, UNCHANGED <<made, array, len, readers, stage, size, handlers, present>>,
         running' \in [Publishers -> SUBSET Nat]
  PROVE  BusInv'
<1>1. BusTypes'
  BY DEF BusInv, BusTypes
<1>2. Distinct' /\ Copiers' = Copiers
  BY DEF BusInv, Distinct, Copiers
<1>3. \A p \in Publishers : Copying(p)' = Copying(p) /\ Complete(p)' = Complete(p)
  BY DEF Copying, Complete
<1>4. CopyInv'
  BY <1>3 DEF BusInv, CopyInv
<1>. QED  BY <1>1, <1>2, <1>4 DEF BusInv

LEMMA BusInvariant == Bus!Spec => []BusInv
<1>1. Bus!Init => BusInv
  <2>. SUFFICES ASSUME Bus!Init  PROVE BusInv
    OBVIOUS
  <2>1. BusTypes /\ Distinct /\ CopyInv
    BY BusAssumption DEF Bus!Init, BusTypes, Distinct, CopyInv
  <2>2. Copiers = {}
    BY DEF Bus!Init, Copiers
  <2>. QED  BY <2>1, <2>2, FS_EmptySet DEF BusInv, Bus!Init
<1>2. BusInv /\ [Bus!Next]_Bus!vars => BusInv'
  <2>. SUFFICES ASSUME BusInv, [Bus!Next]_Bus!vars  PROVE BusInv'
    OBVIOUS
  <2>. USE BusAssumption
  <2>1. BusTypes /\ Distinct /\ readers = Cardinality(Copiers) /\ CopyInv
    BY DEF BusInv
  <2>2. IsFiniteSet(Copiers) /\ Cardinality(Copiers) \in Nat
    BY CallersAssumption, FS_Subset, FS_CardinalityType DEF Copiers
  <2>3. CASE Bus!Subscribe
    <3>1. \A p \in Publishers : stage[p] # "copying"
      BY <2>1, <2>3, NobodyCopies DEF Bus!Subscribe
    <3>2. /\ made' = made + 1 /\ len' = len + 1 /\ array' = [array EXCEPT ![len + 1] = made + 1]
          /\ made < MaxSubs
          /\ UNCHANGED <<readers, stage, size, handlers, running, present>>
      BY <2>3 DEF Bus!Subscribe
    <3>3. BusTypes'
      BY <2>1, <3>2 DEF BusTypes
    <3>4. Distinct'
      BY <2>1, <3>2 DEF Distinct, BusTypes
    <3>5. CopyInv'
      BY <2>1, <3>1, <3>2 DEF CopyInv, Complete
    <3>. QED  BY <2>1, <3>2, <3>3, <3>4, <3>5 DEF BusInv, Copiers
  <2>4. CASE \E sub \in 1 .. MaxSubs : Bus!Unsubscribe(sub)
    <3>1. PICK sub \in 1 .. MaxSubs : Bus!Unsubscribe(sub)
      BY <2>4
    <3>2. Removed
      BY <2>1, <3>1, CancelRemoves DEF Bus!Unsubscribe
    <3>. QED  BY <3>1, <3>2, <2>1, RemovedKeeps DEF Bus!Unsubscribe, BusTypes
  <2>5. CASE Bus!UnsubscribeTopic
    <3>1. Removed
      BY <2>1, <2>5 DEF Bus!UnsubscribeTopic, Removed, BusTypes
    <3>. QED  BY <2>5, <3>1, <2>1, RemovedKeeps DEF Bus!UnsubscribeTopic, BusTypes
  <2>6. ASSUME NEW p \in Publishers, Bus!Publish(p)
        PROVE  BusInv'
    <3>1. /\ stage[p] = "idle" /\ readers' = readers + 1
          /\ size' = [size EXCEPT ![p] = len]
          /\ present' = [present EXCEPT ![p] = {array[i] : i \in 1 .. len}]
          /\ stage' = [stage EXCEPT ![p] = "copying"]
          /\ UNCHANGED <<made, array, len, handlers, running>>
      BY <2>6 DEF Bus!Publish
    <3>2. {array[i] : i \in 1 .. len} \subseteq Nat
      BY <2>1 DEF BusTypes
    <3>3. BusTypes'
      BY <2>1, <3>1, <3>2 DEF BusTypes
    <3>4. Distinct'
      BY <2>1, <3>1 DEF Distinct
    <3>5. Copiers' = Copiers \cup {p} /\ p \notin Copiers
      BY <2>1, <3>1 DEF Copiers, BusTypes
    <3>6. readers' = Cardinality(Copiers')
      BY <2>1, <2>2, <3>1, <3>5, FS_AddElement
    <3>7. ASSUME NEW q \in Publishers
          PROVE  /\ stage'[q] = "idle" => handlers'[q] = <<>>
                 /\ stage'[q] = "copying" => Copying(q)'
                 /\ stage'[q] \in {"waiting", "returned"} => Complete(q)'
      <4>1. CASE q = p
        <5>1. handlers[p] = <<>> /\ stage'[p] = "copying"
          BY <2>1, <3>1 DEF CopyInv, BusTypes
        <5>2. size'[p] = len /\ present'[p] = {array[i] : i \in 1 .. len} /\ len \in Nat
          BY <2>1, <3>1 DEF BusTypes
        <5>. QED  BY <4>1, <5>1, <5>2, <3>1 DEF Copying
      <4>2. CASE q # p
        <5>1. stage'[q] = stage[q] /\ size'[q] = size[q] /\ present'[q] = present[q]
          BY <2>1, <3>1, <4>2 DEF BusTypes
        <5>. QED  BY <2>1, <3>1, <5>1 DEF CopyInv, Copying, Complete
      <4>. QED  BY <4>1, <4>2
    <3>. QED  BY <3>3, <3>4, <3>6, <3>7 DEF BusInv, CopyInv
  <2>7. ASSUME NEW p \in Publishers, Bus!CopyOne(p)
        PROVE  BusInv'
    <3>1. /\ stage[p] = "copying" /\ Len(handlers[p]) < size[p]
          /\ handlers' = [handlers EXCEPT ![p] = Append(handlers[p], array[Len(handlers[p]) + 1])]
          /\ UNCHANGED <<made, array, len, readers, stage, size, running, present>>
      BY <2>7 DEF Bus!CopyOne
    <3>2. Copying(p)
      BY <2>1, <3>1 DEF CopyInv
    <3>3. handlers[p] \in Seq(Nat) /\ array[Len(handlers[p]) + 1] \in Nat
      BY <2>1, <3>1, <3>2 DEF BusTypes, Copying
    <3>4. BusTypes' /\ Distinct'
      BY <2>1, <3>1, <3>3 DEF BusTypes, Distinct
    <3>5. handlers'[p] = Append(handlers[p], array[Len(handlers[p]) + 1])
      BY <2>1, <3>1 DEF BusTypes
    <3>6. Copying(p)'
      <4>1. Len(handlers'[p]) = Len(handlers[p]) + 1
        BY <3>3, <3>5
      <4>2. \A i \in 1 .. Len(handlers[p]) + 1 : handlers'[p][i] = array[i]
        BY <3>2, <3>3, <3>5 DEF Copying
      <4>3. Len(handlers[p]) \in Nat /\ len \in Nat
        BY <2>1, <3>3 DEF BusTypes
      <4>. QED  BY <3>1, <3>2, <4>1, <4>2, <4>3 DEF Copying
    <3>7. ASSUME NEW q \in Publishers, q # p
          PROVE  handlers'[q] = handlers[q]
      BY <2>1, <3>1, <3>7 DEF BusTypes
    <3>8. CopyInv'
      BY <2>1, <3>1, <3>6, <3>7 DEF CopyInv, Copying, Complete
    <3>. QED  BY <2>1, <3>1, <3>4, <3>8 DEF BusInv, Copiers
  <2>8. ASSUME NEW p \in Publishers, Bus!RunHandlers(p)
        PROVE  BusInv'
    <3>1. /\ stage[p] = "copying" /\ Len(handlers[p]) = size[p] /\ readers' = readers - 1
          /\ running' = [running EXCEPT ![p] = 1 .. size[p]]
          /\ stage' = [stage EXCEPT ![p] = "waiting"]
          /\ UNCHANGED <<made, array, len, size, handlers, present>>
      BY <2>8 DEF Bus!RunHandlers
    <3>2. Copying(p)
      BY <2>1, <3>1 DEF CopyInv
    <3>3. 1 .. size[p] \subseteq Nat
      BY <2>1 DEF BusTypes
    <3>4. BusTypes' /\ Distinct'
      BY <2>1, <3>1, <3>3 DEF BusTypes, Distinct
    <3>5. Copiers' = Copiers \ {p} /\ p \in Copiers
      BY <2>1, <3>1 DEF Copiers, BusTypes
    <3>6. readers' = Cardinality(Copiers')
      BY <2>1, <2>2, <3>1, <3>5, FS_RemoveElement
    <3>7. Complete(p)
      <4>1. handlers[p] \in Seq(Nat) /\ Len(handlers[p]) = len
        BY <2>1, <3>1, <3>2 DEF BusTypes, Copying
      <4>2. DOMAIN handlers[p] = 1 .. len /\ \A i \in 1 .. len : handlers[p][i] = array[i]
        BY <3>2, <4>1 DEF Copying
      <4>3. Bus!IsInjective(handlers[p])
        BY <2>1, <4>2 DEF Bus!IsInjective, Distinct
      <4>4. present[p] \subseteq Bus!ToSet(handlers[p])
        BY <3>2, <4>2 DEF Bus!ToSet, Copying
      <4>. QED  BY <4>3, <4>4 DEF Complete
    <3>8. CopyInv'
      <4>1. ASSUME NEW q \in Publishers, q # p
            PROVE  stage'[q] = stage[q]
        BY <2>1, <3>1, <4>1 DEF BusTypes
      <4>2. stage'[p] = "waiting"
        BY <2>1, <3>1 DEF BusTypes
      <4>. QED  BY <2>1, <3>1, <3>7, <4>1, <4>2 DEF CopyInv, Copying, Complete
    <3>. QED  BY <3>4, <3>6, <3>8 DEF BusInv
  <2>9. ASSUME NEW p \in Publishers, Bus!PublishReturns(p)
        PROVE  BusInv'
    <3>1. /\ stage[p] = "waiting"
          /\ stage' = [stage EXCEPT ![p] = "returned"]
          /\ UNCHANGED <<made, array, len, readers, size, handlers, running, present>>
      BY <2>9 DEF Bus!PublishReturns
    <3>2. BusTypes' /\ Distinct' /\ Copiers' = Copiers
      BY <2>1, <3>1 DEF BusTypes, Distinct, Copiers
    <3>3. CopyInv'
      BY <2>1, <3>1 DEF BusTypes, CopyInv, Copying, Complete
    <3>. QED  BY <2>1, <3>1, <3>2, <3>3 DEF BusInv
  <2>10. ASSUME NEW p \in Publishers, NEW i \in 1 .. MaxSubs, Bus!HandlerReturns(p, i)
         PROVE  BusInv'
    <3>1. /\ running' = [running EXCEPT ![p] = @ \ {i}]
          /\ UNCHANGED <<made, readers, stage, size, handlers>>
      BY <2>10 DEF Bus!HandlerReturns
    <3>2. running' \in [Publishers -> SUBSET Nat]
      BY <2>1, <3>1 DEF BusTypes
    <3>3. CASE UNCHANGED <<array, len, present>>
      BY <3>1, <3>2, <3>3, BusStays
    <3>4. CASE Bus!Cancelled(handlers[p][i])
      <4>1. Removed
        BY <2>1, <3>4, CancelRemoves
      <4>. QED  BY <3>1, <3>2, <4>1, RemovedKeeps
    <3>. QED  BY <2>10, <3>3, <3>4 DEF Bus!HandlerReturns
  <2>11. CASE UNCHANGED Bus!vars
    <3>1. running' \in [Publishers -> SUBSET Nat]
      BY <2>1, <2>11 DEF BusTypes, Bus!vars
    <3>. QED  BY <2>11, <3>1, BusStays DEF Bus!vars
  <2>. QED  BY <2>3, <2>4, <2>5, <2>6, <2>7, <2>8, <2>9, <2>10, <2>11 DEF Bus!Next, Bus!Publishing
<1>. QED  BY <1>1, <1>2, PTL DEF Bus!Spec

LEMMA BusRuns == LibSpec => Bus!Spec
<1>1. LibInit => Bus!Init
  BY DEF LibInit
<1>2. [LibNext]_libVars => [Bus!Next]_Bus!vars
  BY DEF LibNext, libVars, AppNext, NetNext, BaseNext, appVars, netVars, baseVars, busVars, Bus!vars
<1>. QED  BY <1>1, <1>2, PTL DEF LibSpec, Bus!Spec

\* A Publish runs no handler twice, and every one whose subscription was in place from its
\* beginning to its end, whatever its own handlers cancel (event.go:106-113).
THEOREM EveryoneIsReachedOnce == LibSpec => []EveryoneOnce
<1>1. BusInv => EveryoneOnce
  BY DEF BusInv, CopyInv, Complete, EveryoneOnce, Bus!EveryoneOnce
<1>. QED  BY <1>1, BusRuns, BusInvariant, PTL

-----------------------------------------------------------------------------
(* client/client.go: what an open breaker lets through *)

IsBreaker(b) ==
  /\ b = [field \in {"state", "slept", "bucketIdx", "buckets"} |-> b[field]]
  /\ b.state \in {"Closed", "Open", "HalfOpen"}

RpcTypes ==
  /\ IsBreaker(cb)
  /\ calling \in [Publishers -> {"idle", "doCall", "sent", "failed", "backoff"}]
  /\ attempt \in [Publishers -> 0 .. Retries]
  /\ leaked \in Nat
  /\ \A c \in Publishers : calling[c] = "backoff" => attempt[c] < Retries

\* The attempts that caller c may still send before it asks the breaker again.
Left(c) ==
  IF calling[c] = "idle" THEN 0
  ELSE Retries - attempt[c] + IF calling[c] = "doCall" THEN 1 ELSE 0

ToCome == {e \in Publishers \X (1 .. Retries + 1) : e[2] <= Left(e[1])}

\* Attempts sent since the breaker opened, and those to come, are those the callers had
\* when it opened; the one whose failure opened it had sent one of its own.
LeakInv ==
  /\ cb.state # "Open" => leaked = 0
  /\ cb.state = "Open" => leaked + Cardinality(ToCome) <= Cardinality(Publishers) * (Retries + 1) - 1

\* What the breaker's operations do to its state.
LEMMA AlignKeeps ==
  ASSUME NEW b, IsBreaker(b), NEW now
  PROVE  IsBreaker(RPC!Align(b, now)) /\ RPC!Align(b, now).state = b.state
BY DEF RPC!Align, IsBreaker

LEMMA SuccessKeeps ==
  ASSUME NEW b, IsBreaker(b), NEW now
  PROVE  /\ IsBreaker(RPC!OnSuccess(b, now))
         /\ RPC!OnSuccess(b, now).state = "Open" <=> b.state = "Open"
<1>. DEFINE aligned == RPC!Align(b, now)
            counted == [aligned EXCEPT !.buckets[now].total = @ + 1]
<1>1. IsBreaker(aligned) /\ aligned.state = b.state
  BY AlignKeeps
<1>2. RPC!OnSuccess(b, now) = IF counted.state = "HalfOpen" /\ RPC!ShouldClose(counted)
                              THEN [counted EXCEPT !.state = "Closed"] ELSE counted
  BY DEF RPC!OnSuccess
<1>. HIDE DEF aligned
<1>3. IsBreaker(counted) /\ counted.state = b.state
  BY <1>1 DEF IsBreaker
<1>. HIDE DEF counted
<1>. QED  BY <1>2, <1>3 DEF IsBreaker

LEMMA FailureKeeps ==
  ASSUME NEW b, IsBreaker(b), NEW now
  PROVE  /\ IsBreaker(RPC!OnFailure(b, now))
         /\ b.state = "Open" => RPC!OnFailure(b, now).state = "Open"
<1>. DEFINE aligned == RPC!Align(b, now)
            counted == [aligned EXCEPT !.buckets[now].total = @ + 1, !.buckets[now].failures = @ + 1]
<1>1. IsBreaker(aligned) /\ aligned.state = b.state
  BY AlignKeeps
<1>2. RPC!OnFailure(b, now) = IF counted.state = "HalfOpen" \/ RPC!ShouldOpen(counted)
                              THEN RPC!Opened(counted) ELSE counted
  BY DEF RPC!OnFailure
<1>. HIDE DEF aligned
<1>3. IsBreaker(counted) /\ counted.state = b.state
  <2>1. counted.state = aligned.state
    BY <1>1 DEF IsBreaker
  <2>2. counted = [field \in {"state", "slept", "bucketIdx", "buckets"} |-> counted[field]]
    BY <1>1 DEF IsBreaker
  <2>. QED  BY <1>1, <2>1, <2>2 DEF IsBreaker
<1>. HIDE DEF counted
<1>. QED  BY <1>2, <1>3 DEF IsBreaker, RPC!Opened

\* Nobody has more attempts left than a call has.
LEMMA FewLeft ==
  ASSUME RpcTypes
  PROVE  /\ \A c \in Publishers : Left(c) \in 0 .. Retries + 1
         /\ IsFiniteSet(Publishers \X (1 .. Retries + 1))
         /\ Cardinality(Publishers \X (1 .. Retries + 1)) = Cardinality(Publishers) * (Retries + 1)
         /\ IsFiniteSet(ToCome) /\ Cardinality(ToCome) \in Nat
<1>1. \A c \in Publishers : Left(c) \in 0 .. Retries + 1
  BY DemoAssumption DEF RpcTypes, Left
<1>2. IsFiniteSet(1 .. Retries + 1) /\ Cardinality(1 .. Retries + 1) = Retries + 1
  BY FS_Interval, DemoAssumption
<1>3. /\ IsFiniteSet(Publishers \X (1 .. Retries + 1))
      /\ Cardinality(Publishers \X (1 .. Retries + 1)) = Cardinality(Publishers) * (Retries + 1)
  BY <1>2, FS_Product, CallersAssumption
<1>4. ToCome \subseteq Publishers \X (1 .. Retries + 1)
  BY DEF ToCome
<1>5. IsFiniteSet(ToCome) /\ Cardinality(ToCome) \in Nat
  BY <1>3, <1>4, FS_Subset, FS_CardinalityType
<1>. QED  BY <1>1, <1>3, <1>5

LEMMA FewerToCome ==
  ASSUME RpcTypes, RpcTypes', \A c \in Publishers : Left(c)' <= Left(c)
  PROVE  ToCome' \subseteq ToCome /\ Cardinality(ToCome') <= Cardinality(ToCome)
<1>1. ASSUME NEW e \in ToCome'
      PROVE  e \in ToCome
  <2>1. e[1] \in Publishers /\ e[2] \in Nat /\ e[2] <= Left(e[1])' /\ Left(e[1])' <= Left(e[1])
    BY <1>1 DEF ToCome
  <2>2. Left(e[1]) \in Nat /\ Left(e[1])' \in Nat
    BY <2>1, DemoAssumption DEF RpcTypes, Left
  <2>. QED  BY <1>1, <2>1, <2>2 DEF ToCome
<1>2. IsFiniteSet(ToCome)
  BY FewLeft
<1>. QED  BY <1>1, <1>2, FS_Subset

LEMMA RpcSizes == \A S : RPC!Cardinality(S) = Cardinality(S)
BY DEF RPC!Cardinality, Cardinality

LEMMA LeakInvariant == RPC!Spec => [](RpcTypes /\ LeakInv)
<1>1. RPC!Init => RpcTypes /\ LeakInv
  <2>. SUFFICES ASSUME RPC!Init  PROVE RpcTypes /\ LeakInv
    OBVIOUS
  <2>1. IsBreaker(cb) /\ cb.state = "Closed"
    BY DEF RPC!Init, RPC!NewBreaker, IsBreaker
  <2>. QED  BY <2>1, DemoAssumption DEF RPC!Init, RpcTypes, LeakInv
<1>2. RpcTypes /\ LeakInv /\ [RPC!Next]_RPC!vars => (RpcTypes /\ LeakInv)'
  <2>. SUFFICES ASSUME RpcTypes, LeakInv, [RPC!Next]_RPC!vars  PROVE RpcTypes' /\ LeakInv'
    OBVIOUS
  <2>1. /\ IsFiniteSet(ToCome) /\ Cardinality(ToCome) \in Nat
        /\ RpcTypes' => IsFiniteSet(ToCome') /\ Cardinality(ToCome') \in Nat
    <3>1. RpcTypes' => ToCome' \subseteq Publishers \X (1 .. Retries + 1)
      BY DEF ToCome
    <3>. QED  BY <3>1, FewLeft, FS_Subset, FS_CardinalityType
  <2>2. Cardinality(Publishers) \in Nat /\ Retries \in Nat
    BY FS_CardinalityType, CallersAssumption, DemoAssumption
  <2>3. ASSUME RpcTypes', leaked' = leaked, cb.state = "Open" \/ cb'.state # "Open",
               cb'.state # "Open" => cb.state # "Open",
               \A c \in Publishers : Left(c)' <= Left(c) \/ cb.state # "Open"
        PROVE  LeakInv'
    <3>1. CASE cb.state = "Open"
      <4>1. Cardinality(ToCome') <= Cardinality(ToCome)
        BY <2>3, <3>1, FewerToCome
      <4>. QED  BY <2>1, <2>2, <2>3, <3>1, <4>1 DEF LeakInv, RpcTypes
    <3>2. CASE cb.state # "Open"
      BY <2>3, <3>2 DEF LeakInv
    <3>. QED  BY <3>1, <3>2
  <2>4. ASSUME NEW c \in Publishers, RPC!Call(c)
        PROVE  RpcTypes' /\ LeakInv'
    <3>1. /\ calling' = [calling EXCEPT ![c] = "doCall"]
          /\ attempt' = [attempt EXCEPT ![c] = 0]
          /\ cb' = RPC!Allowed(cb)
          /\ leaked' = IF cb.state = "Open" THEN 0 ELSE leaked
      BY <2>4 DEF RPC!Call, RPC!Goto
    <3>2. RpcTypes'
      BY <2>2, <3>1 DEF RpcTypes, IsBreaker, RPC!Allowed
    <3>3. cb'.state # "Open" /\ leaked' = 0
      BY <3>1 DEF RPC!Allowed, RpcTypes, IsBreaker, LeakInv
    <3>. QED  BY <3>2, <3>3 DEF LeakInv
  <2>5. ASSUME NEW c \in Publishers, RPC!Send(c)
        PROVE  RpcTypes' /\ LeakInv'
    <3>1. calling[c] = "doCall" /\ UNCHANGED <<cb, attempt>>
      BY <2>5 DEF RPC!Send
    <3>2. CASE calling' = [calling EXCEPT ![c] = "failed"] /\ leaked' = leaked
      <4>1. RpcTypes'
        BY <3>1, <3>2 DEF RpcTypes
      <4>2. \A q \in Publishers : Left(q)' <= Left(q)
        BY <2>2, <3>1, <3>2 DEF RpcTypes, Left
      <4>. QED  BY <2>3, <3>1, <3>2, <4>1, <4>2
    <3>3. CASE /\ calling' = [calling EXCEPT ![c] = "sent"]
               /\ leaked' = IF cb.state = "Open" THEN leaked + 1 ELSE leaked
      <4>1. RpcTypes'
        BY <3>1, <3>3 DEF RpcTypes
      <4>2. CASE cb.state # "Open"
        BY <3>1, <3>3, <4>1, <4>2 DEF LeakInv
      <4>3. CASE cb.state = "Open"
        <5>1. /\ Left(c) \in 1 .. Retries + 1 /\ Left(c)' = Left(c) - 1
              /\ \A q \in Publishers \ {c} : Left(q)' = Left(q) /\ Left(q) \in Nat
          BY <2>2, <3>1, <3>3 DEF RpcTypes, Left
        <5>2. <<c, Left(c)>> \in ToCome
          BY <5>1 DEF ToCome
        <5>3. ToCome' \subseteq ToCome \ {<<c, Left(c)>>}
          <6>1. ASSUME NEW e \in ToCome'
                PROVE  e \in ToCome /\ e # <<c, Left(c)>>
            <7>1. /\ e \in Publishers \X (1 .. Retries + 1) /\ e[1] \in Publishers /\ e[2] \in Nat
                  /\ e[2] <= Left(e[1])'
              BY <6>1 DEF ToCome
            <7>2. e[2] <= Left(e[1])
              BY <5>1, <7>1
            <7>3. e[1] = c => e[2] # Left(c)
              BY <5>1, <7>1
            <7>. QED  BY <7>1, <7>2, <7>3 DEF ToCome
          <6>. QED  BY <6>1
        <5>4. Cardinality(ToCome') <= Cardinality(ToCome) - 1
          <6>1. /\ IsFiniteSet(ToCome \ {<<c, Left(c)>>})
                /\ Cardinality(ToCome \ {<<c, Left(c)>>}) = Cardinality(ToCome) - 1
            BY <2>1, <5>2, FS_RemoveElement
          <6>. QED  BY <5>3, <6>1, FS_Subset
        <5>. QED  BY <2>1, <2>2, <3>1, <3>3, <4>1, <4>3, <5>4 DEF LeakInv, RpcTypes
      <4>. QED  BY <4>2, <4>3
    <3>. QED  BY <2>5, <3>2, <3>3 DEF RPC!Send, RPC!Goto
  <2>6. ASSUME NEW c \in Publishers, RPC!Succeed(c)
        PROVE  RpcTypes' /\ LeakInv'
    <3>1. /\ calling[c] = "sent" /\ cb' = RPC!OnSuccess(cb, bucketNow)
          /\ calling' = [calling EXCEPT ![c] = "idle"]
          /\ UNCHANGED <<attempt, leaked>>
      BY <2>6 DEF RPC!Succeed, RPC!Goto
    <3>2. RpcTypes'
      BY <3>1, SuccessKeeps DEF RpcTypes
    <3>3. \A q \in Publishers : Left(q)' <= Left(q)
      BY <2>2, <3>1 DEF RpcTypes, Left
    <3>4. cb'.state = "Open" <=> cb.state = "Open"
      BY <3>1, SuccessKeeps DEF RpcTypes
    <3>. QED  BY <2>3, <3>1, <3>2, <3>3, <3>4
  <2>7. ASSUME NEW c \in Publishers, RPC!Fail(c)
        PROVE  RpcTypes' /\ LeakInv'
    <3>1. /\ calling[c] \in {"sent", "failed"} /\ cb' = RPC!OnFailure(cb, bucketNow)
          /\ calling' = [calling EXCEPT ![c] = IF RPC!LastAttempt(c) THEN "idle" ELSE "backoff"]
          /\ UNCHANGED <<attempt, leaked>>
      BY <2>7 DEF RPC!Fail, RPC!Goto
    <3>2. RpcTypes'
      <4>1. IsBreaker(cb')
        BY <3>1, FailureKeeps DEF RpcTypes
      <4>2. calling' \in [Publishers -> {"idle", "doCall", "sent", "failed", "backoff"}]
        BY <3>1 DEF RpcTypes
      <4>3. \A q \in Publishers : calling'[q] = "backoff" => attempt[q] < Retries
        BY <2>2, <3>1 DEF RpcTypes, RPC!LastAttempt
      <4>. QED  BY <3>1, <4>1, <4>2, <4>3 DEF RpcTypes
    <3>3. \A q \in Publishers : Left(q)' <= Left(q)
      BY <2>2, <3>1 DEF RpcTypes, Left
    <3>4. cb.state = "Open" => cb'.state = "Open"
      BY <3>1, FailureKeeps DEF RpcTypes
    <3>5. CASE cb.state = "Open" \/ cb'.state # "Open"
      BY <2>3, <3>1, <3>2, <3>3, <3>4, <3>5
    <3>6. CASE cb.state # "Open" /\ cb'.state = "Open"
      <4>1. ToCome' \subseteq (Publishers \X (1 .. Retries + 1)) \ {<<c, Retries + 1>>}
        <5>1. Left(c)' <= Retries
          BY <2>2, <3>1 DEF RpcTypes, Left
        <5>2. ASSUME NEW e \in ToCome'
              PROVE  e \in Publishers \X (1 .. Retries + 1) /\ e # <<c, Retries + 1>>
          <6>1. e \in Publishers \X (1 .. Retries + 1) /\ e[2] <= Left(e[1])' /\ e[2] \in Nat
            BY <5>2 DEF ToCome
          <6>2. e[1] = c => e[2] # Retries + 1
            BY <2>2, <3>2, <5>1, <6>1, DemoAssumption DEF RpcTypes, Left
          <6>. QED  BY <6>1, <6>2
        <5>. QED  BY <5>2
      <4>2. <<c, Retries + 1>> \in Publishers \X (1 .. Retries + 1)
        BY <2>2
      <4>3. Cardinality(ToCome') <= Cardinality(Publishers) * (Retries + 1) - 1
        <5>. DEFINE All == Publishers \X (1 .. Retries + 1)
        <5>1. IsFiniteSet(All) /\ Cardinality(All) = Cardinality(Publishers) * (Retries + 1)
          BY FewLeft
        <5>. HIDE DEF All
        <5>2. /\ IsFiniteSet(All \ {<<c, Retries + 1>>})
              /\ Cardinality(All \ {<<c, Retries + 1>>}) = Cardinality(All) - 1
          BY <4>2, <5>1, FS_RemoveElement DEF All
        <5>3. Cardinality(ToCome') <= Cardinality(All \ {<<c, Retries + 1>>})
          BY <4>1, <5>2, FS_Subset DEF All
        <5>. QED  BY <5>1, <5>2, <5>3
      <4>. QED  BY <3>1, <3>2, <3>6, <4>3, <2>1, <2>2 DEF LeakInv
    <3>. QED  BY <3>5, <3>6
  <2>8. ASSUME NEW c \in Publishers, RPC!Backoff(c)
        PROVE  RpcTypes' /\ LeakInv'
    <3>1. calling[c] = "backoff" /\ UNCHANGED <<cb, leaked>>
      BY <2>8 DEF RPC!Backoff
    <3>2. RpcTypes' /\ \A q \in Publishers : Left(q)' <= Left(q)
      <4>1. CASE calling' = [calling EXCEPT ![c] = "idle"] /\ attempt' = attempt
        BY <2>2, <3>1, <4>1 DEF RpcTypes, Left
      <4>2. CASE /\ calling' = [calling EXCEPT ![c] = "doCall"]
                 /\ attempt' = [attempt EXCEPT ![c] = @ + 1]
        BY <2>2, <3>1, <4>2 DEF RpcTypes, Left
      <4>. QED  BY <2>8, <4>1, <4>2 DEF RPC!Backoff, RPC!Goto
    <3>. QED  BY <2>3, <3>1, <3>2
  <2>9. CASE RPC!NextBucket \/ RPC!SleepOver \/ UNCHANGED RPC!vars
    <3>1. /\ cb' = cb \/ cb' = [cb EXCEPT !.slept = TRUE]
          /\ UNCHANGED <<calling, attempt, leaked>>
      BY <2>9 DEF RPC!NextBucket, RPC!SleepOver, RPC!vars
    <3>2. RpcTypes' /\ cb'.state = cb.state
      BY <3>1 DEF RpcTypes, IsBreaker
    <3>3. \A q \in Publishers : Left(q)' = Left(q) /\ Left(q) \in Int
      BY <2>2, <3>1 DEF Left, RpcTypes
    <3>. QED  BY <2>3, <3>1, <3>2, <3>3
  <2>. QED  BY <2>4, <2>5, <2>6, <2>7, <2>8, <2>9 DEF RPC!Next, RPC!Step
<1>. QED  BY <1>1, <1>2, PTL DEF RPC!Spec

LEMMA RpcRuns == LibSpec => RPC!Spec
<1>1. LibInit => RPC!Init
  BY DEF LibInit
<1>2. [LibNext]_libVars => [RPC!Next]_RPC!vars
  BY DEF LibNext, libVars, AppNext, NetNext, BaseNext, appVars, netVars, baseVars, rpcVars, RPC!vars
<1>. QED  BY <1>1, <1>2, PTL DEF LibSpec, RPC!Spec

\* An open breaker lets through no more than one call of every goroutine, less the attempt
\* that opened it (client.go:119).
THEOREM OpenLeakStaysBounded == LibSpec => []OpenLeakBounded
<1>1. RpcTypes /\ LeakInv => OpenLeakBounded
  <2>. SUFFICES ASSUME RpcTypes, LeakInv
                PROVE  leaked <= Cardinality(Publishers) * (Retries + 1) - 1
    BY RpcSizes DEF OpenLeakBounded, RPC!OpenLeakBounded
  <2>1. Cardinality(Publishers) \in Nat \ {0} /\ Retries \in Nat
    BY FS_CardinalityType, FS_EmptySet, CallersAssumption, DemoAssumption
  <2>2. Cardinality(Publishers) * (Retries + 1) >= 1
    BY <2>1
  <2>3. CASE cb.state = "Open"
    BY <2>1, <2>3, FewLeft DEF LeakInv, RpcTypes
  <2>. QED  BY <2>1, <2>2, <2>3 DEF LeakInv
<1>. QED  BY <1>1, RpcRuns, LeakInvariant, PTL

-----------------------------------------------------------------------------
(* core/metrics/metrics.go: a scrape while values are recorded *)

MetricsTypes ==
  /\ count \in Nat
  /\ buckets \in [MT!Bounds -> Nat]
  /\ recording \in [Publishers -> {"idle", "count", "buckets"}]
  /\ bucket \in [Publishers -> 1 .. MT!Last + 1]
  /\ line \in 0 .. MT!Last + 1
  /\ shown \in [count : Nat, buckets : [MT!Bounds -> Nat]]

\* Who records holds the lock; it has counted its value in all before it counts it below
\* a bound, and a scrape shows what was there before.
ScrapeInv ==
  /\ \A o \in Publishers : recording[o] # "idle" => histMu = o
  /\ \A b \in MT!Bounds : buckets[b] <= count
  /\ \A o \in Publishers, b \in MT!Bounds :
       recording[o] = "buckets" /\ bucket[o] <= b => buckets[b] + 1 <= count
  /\ \A b \in MT!Bounds : shown.buckets[b] <= buckets[b]
  /\ line = 0 => \A b \in MT!Bounds : shown.buckets[b] <= shown.count

LEMMA ScrapeInvariant == MT!Spec => [](MetricsTypes /\ ScrapeInv)
<1>. USE MetricsAssumption DEF MT!Bounds, MT!Last
<1>1. MT!Init => MetricsTypes /\ ScrapeInv
  BY DEF MT!Init, MT!Empty, MetricsTypes, ScrapeInv
<1>2. MetricsTypes /\ ScrapeInv /\ [MT!Next]_MT!vars => (MetricsTypes /\ ScrapeInv)'
  <2>. SUFFICES ASSUME MetricsTypes, ScrapeInv, [MT!Next]_MT!vars  PROVE (MetricsTypes /\ ScrapeInv)'
    OBVIOUS
  <2>1. ASSUME NEW o \in Publishers, MT!Observe(o)
        PROVE  (MetricsTypes /\ ScrapeInv)'
    <3>1. /\ recording[o] = "idle" /\ histMu = NoObserver /\ histMu' = o
          /\ recording' = [recording EXCEPT ![o] = "count"]
          /\ UNCHANGED <<count, buckets, line, shown>>
      BY <2>1 DEF MT!Observe, MT!Goto
    <3>2. \A p \in Publishers : recording[p] = "idle"
      BY <3>1 DEF ScrapeInv
    <3>3. bucket' \in [Publishers -> 1 .. MT!Last + 1]
      BY <2>1 DEF MT!Observe, MetricsTypes
    <3>4. \A p \in Publishers : recording'[p] = IF p = o THEN "count" ELSE "idle"
      BY <3>1, <3>2 DEF MetricsTypes
    <3>5. MetricsTypes'
      BY <3>1, <3>3 DEF MetricsTypes
    <3>. QED  BY <3>1, <3>4, <3>5 DEF ScrapeInv
  <2>2. ASSUME NEW o \in Publishers, MT!RecordCount(o)
        PROVE  (MetricsTypes /\ ScrapeInv)'
    <3>1. /\ recording[o] = "count" /\ count' = count + 1
          /\ recording' = [recording EXCEPT ![o] = "buckets"]
          /\ UNCHANGED <<buckets, histMu, bucket, line, shown>>
      BY <2>2 DEF MT!RecordCount, MT!Goto
    <3>2. MetricsTypes'
      BY <3>1 DEF MetricsTypes
    <3>3. \A p \in Publishers : recording'[p] = IF p = o THEN "buckets" ELSE recording[p]
      BY <3>1 DEF MetricsTypes
    <3>. QED  BY <3>1, <3>2, <3>3 DEF ScrapeInv, MetricsTypes
  <2>3. ASSUME NEW o \in Publishers, MT!RecordBucket(o)
        PROVE  (MetricsTypes /\ ScrapeInv)'
    <3>1. /\ recording[o] = "buckets" /\ bucket[o] \in MT!Bounds
          /\ buckets' = [buckets EXCEPT ![bucket[o]] = @ + 1]
          /\ bucket' = [bucket EXCEPT ![o] = @ + 1]
          /\ UNCHANGED <<count, histMu, recording, line, shown>>
      BY <2>3 DEF MT!RecordBucket, MT!CountBucket
    <3>2. MetricsTypes'
      BY <3>1 DEF MetricsTypes
    <3>3. \A p \in Publishers : recording[p] # "idle" => p = o
      BY <3>1 DEF ScrapeInv
    <3>4. buckets[bucket[o]] + 1 <= count
      BY <3>1 DEF ScrapeInv
    <3>5. \A b \in MT!Bounds : buckets'[b] <= count /\ buckets[b] <= buckets'[b]
      BY <3>1, <3>4 DEF ScrapeInv, MetricsTypes
    <3>6. \A b \in MT!Bounds : bucket'[o] <= b => buckets'[b] + 1 <= count
      BY <3>1 DEF ScrapeInv, MetricsTypes
    <3>. QED  BY <3>1, <3>2, <3>3, <3>5, <3>6 DEF ScrapeInv, MetricsTypes
  <2>4. ASSUME NEW o \in Publishers, MT!Unlock(o)
        PROVE  (MetricsTypes /\ ScrapeInv)'
    <3>1. /\ recording[o] = "buckets" /\ histMu' = NoObserver
          /\ recording' = [recording EXCEPT ![o] = "idle"]
          /\ UNCHANGED <<count, buckets, bucket, line, shown>>
      BY <2>4 DEF MT!Unlock, MT!Goto
    <3>2. \A p \in Publishers : recording'[p] = "idle"
      BY <3>1 DEF ScrapeInv, MetricsTypes
    <3>. QED  BY <3>1, <3>2 DEF ScrapeInv, MetricsTypes
  <2>5. CASE MT!WriteTo
    BY <2>5 DEF MT!WriteTo, MT!Empty, ScrapeInv, MetricsTypes
  <2>6. CASE MT!WriteBucket
    <3>1. /\ line \in MT!Bounds /\ shown' = [shown EXCEPT !.buckets[line] = buckets[line]]
          /\ line' = line + 1
          /\ UNCHANGED <<count, buckets, histMu, recording, bucket>>
      BY <2>6 DEF MT!WriteBucket
    <3>2. /\ shown'.count = shown.count /\ shown'.buckets \in [MT!Bounds -> Nat]
          /\ \A b \in MT!Bounds : shown'.buckets[b] <= buckets[b]
      BY <3>1 DEF ScrapeInv, MetricsTypes
    <3>3. shown' \in [count : Nat, buckets : [MT!Bounds -> Nat]]
      BY <3>1 DEF MetricsTypes
    <3>. QED  BY <3>1, <3>2, <3>3 DEF ScrapeInv, MetricsTypes
  <2>7. CASE MT!WriteCount
    BY <2>7 DEF MT!WriteCount, ScrapeInv, MetricsTypes
  <2>8. CASE MT!RaceDetected \/ UNCHANGED MT!vars
    BY <2>8 DEF MT!RaceDetected, MT!vars, ScrapeInv, MetricsTypes
  <2>. QED  BY <2>1, <2>2, <2>3, <2>4, <2>5, <2>6, <2>7, <2>8 DEF MT!Next
<1>. QED  BY <1>1, <1>2, PTL DEF MT!Spec

LEMMA MetricsRun == LibSpec => MT!Spec
<1>1. LibInit => MT!Init
  BY DEF LibInit
<1>2. [LibNext]_libVars => [MT!Next]_MT!vars
  BY DEF LibNext, libVars, AppNext, NetNext, BaseNext, appVars, netVars, baseVars, mtVars, MT!vars
<1>. QED  BY <1>1, <1>2, PTL DEF LibSpec, MT!Spec

\* A scrape never shows more observations below a bound than in all, though it takes no
\* lock that Observe takes (metrics.go:199, 371).
THEOREM ScrapesAddUp == LibSpec => []ScrapeWithinCount
<1>1. ScrapeInv => ScrapeWithinCount
  BY DEF ScrapeInv, ScrapeWithinCount, MT!ScrapeWithinCount
<1>. QED  BY <1>1, MetricsRun, ScrapeInvariant, PTL

-----------------------------------------------------------------------------
(* core/tracer/tracer.go: whole traces *)

Span == [trace : Int, parent : Int, sampled : BOOLEAN, finished : BOOLEAN]
Frame == [span : Nat, ctx : Int]

\* A context is of no span, of one of another process, or of one that is recorded.
SoundIn(recorded, ctx) == ctx \in {0, -1} \/ (ctx \in 1 .. Len(recorded) /\ recorded[ctx].sampled)

\* The trace of a context, as TR!TraceOf has it.
TraceIn(recorded, ctx) == IF ctx = -1 THEN -1 ELSE recorded[ctx].trace

\* The span at i is the root of its own trace, or below a recorded span of the same one, or
\* below a span of another process.
RootedIn(recorded, i) ==
  LET span == recorded[i]
  IN  /\ span.parent # 0 => SoundIn(recorded, span.parent) /\ span.trace = TraceIn(recorded, span.parent)
      /\ span.parent = 0 /\ span.sampled => span.trace = i

TraceInv ==
  /\ spans \in Seq(Span)
  /\ frames \in [Requests -> Seq(Frame)]
  /\ base \in [Requests -> Int]
  /\ header \in [Requests -> Int]
  /\ \A i \in 1 .. Len(spans) : RootedIn(spans, i)
  /\ \A g \in Requests : SoundIn(spans, base[g]) /\ SoundIn(spans, header[g])
  /\ \A g \in Requests : \A k \in 1 .. Len(frames[g]) : SoundIn(spans, frames[g][k].ctx)

\* A recorded span stays one, in its trace.
Longer ==
  /\ Len(spans) <= Len(spans')
  /\ \A i \in 1 .. Len(spans) : /\ spans'[i].trace = spans[i].trace
                                /\ spans'[i].parent = spans[i].parent
                                /\ spans'[i].sampled = spans[i].sampled

LEMMA SoundStays ==
  ASSUME TraceInv, spans' \in Seq(Span), Longer
  PROVE  /\ \A ctx : SoundIn(spans, ctx) => SoundIn(spans', ctx)
         /\ \A i \in 1 .. Len(spans) : RootedIn(spans', i)
<1>1. Len(spans) \in Nat /\ Len(spans') \in Nat
  BY DEF TraceInv
<1>2. \A ctx : SoundIn(spans, ctx) => SoundIn(spans', ctx)
  BY <1>1 DEF SoundIn, Longer
<1>3. ASSUME NEW i \in 1 .. Len(spans)
      PROVE  RootedIn(spans', i)
  <2>1. RootedIn(spans, i)
    BY DEF TraceInv
  <2>2. CASE spans[i].parent = 0
    BY <1>3, <2>1, <2>2 DEF RootedIn, Longer
  <2>3. CASE spans[i].parent # 0
    <3>1. SoundIn(spans, spans[i].parent) /\ spans[i].trace = TraceIn(spans, spans[i].parent)
      BY <2>1, <2>3 DEF RootedIn
    <3>2. spans[i].parent = -1 \/ spans[i].parent \in 1 .. Len(spans)
      BY <2>3, <3>1 DEF SoundIn
    <3>. QED  BY <1>2, <1>3, <2>3, <3>1, <3>2 DEF RootedIn, TraceIn, Longer
  <2>. QED  BY <2>2, <2>3
<1>. QED  BY <1>2, <1>3

\* A span is started below a recorded one, or below none.
LEMMA StartKeeps ==
  ASSUME TraceInv, NEW g \in Requests, NEW parent \in Int, SoundIn(spans, parent), NEW sampled \in BOOLEAN,
         TR!StartSpan(g, parent, sampled)
  PROVE  /\ spans' \in Seq(Span) /\ Longer
         /\ \A i \in 1 .. Len(spans') : RootedIn(spans', i)
         /\ frames' \in [Requests -> Seq(Frame)]
         /\ TR!Passed(parent, sampled) \in Int
         /\ SoundIn(spans', TR!Passed(parent, sampled))
         /\ \A q \in Requests : \A k \in 1 .. Len(frames'[q]) : SoundIn(spans', frames'[q][k].ctx)
<1>. DEFINE span == [trace |-> IF parent = 0 THEN Len(spans) + 1 ELSE TraceIn(spans, parent),
                     parent |-> IF sampled THEN parent ELSE 0,
                     sampled |-> sampled, finished |-> ~sampled]
            frame == [span |-> Len(spans) + 1, ctx |-> TR!Passed(parent, sampled)]
<1>1. /\ spans' = Append(spans, span)
      /\ frames' = [frames EXCEPT ![g] = Append(@, frame)]
  BY DEF TR!StartSpan, TR!None, TR!Remote, TR!TraceOf, TraceIn
<1>2. Len(spans) \in Nat /\ spans \in Seq(Span) /\ \A i \in 1 .. Len(spans) : spans[i] \in Span
  BY DEF TraceInv
<1>3. parent # 0 => parent = -1 \/ parent \in 1 .. Len(spans)
  BY <1>2 DEF SoundIn
<1>4. span \in Span /\ frame \in Frame /\ TR!Passed(parent, sampled) \in Int
  <2>1. parent # 0 => TraceIn(spans, parent) \in Int
    BY <1>2, <1>3 DEF TraceIn, Span
  <2>. QED  BY <1>2, <2>1 DEF Span, Frame, TR!Passed
<1>5. /\ span.trace = IF parent = 0 THEN Len(spans) + 1 ELSE TraceIn(spans, parent)
      /\ span.parent = IF sampled THEN parent ELSE 0
      /\ span.sampled = sampled
      /\ frame.ctx = TR!Passed(parent, sampled)
  OBVIOUS
<1>. HIDE DEF span, frame
<1>6. /\ spans' \in Seq(Span) /\ Len(spans') = Len(spans) + 1
      /\ \A i \in 1 .. Len(spans) : spans'[i] = spans[i]
      /\ spans'[Len(spans) + 1] = span
  <2>. HIDE DEF Span
  <2>. QED  BY <1>1, <1>2, <1>4
<1>7. Longer
  BY <1>2, <1>6 DEF Longer
<1>8. SoundIn(spans', TR!Passed(parent, sampled))
  <2>1. CASE sampled
    <3>1. TR!Passed(parent, sampled) = Len(spans) + 1
      BY <2>1 DEF TR!Passed
    <3>2. spans'[Len(spans) + 1].sampled
      BY <1>5, <1>6, <2>1, Zenon
    <3>. QED  BY <1>2, <1>6, <3>1, <3>2 DEF SoundIn
  <2>2. CASE ~sampled
    <3>1. TR!Passed(parent, sampled) = parent
      BY <2>2 DEF TR!Passed
    <3>. QED  BY <1>6, <1>7, <3>1, SoundStays
  <2>. QED  BY <2>1, <2>2
<1>9. RootedIn(spans', Len(spans) + 1)
  <2>1. CASE parent = 0
    BY <1>5, <1>6, <2>1 DEF RootedIn
  <2>2. CASE ~sampled
    <3>1. span.parent = 0 /\ ~span.sampled
      BY <1>5, <2>2, Zenon
    <3>. QED  BY <1>6, <3>1 DEF RootedIn
  <2>3. CASE parent # 0 /\ sampled
    <3>1. span.parent = parent /\ span.trace = TraceIn(spans, parent)
      BY <1>5, <2>3
    <3>2. TraceIn(spans', parent) = TraceIn(spans, parent)
      BY <1>3, <1>6, <2>3 DEF TraceIn
    <3>3. SoundIn(spans', parent)
      BY <1>6, <1>7, SoundStays
    <3>. QED  BY <1>6, <2>3, <3>1, <3>2, <3>3 DEF RootedIn
  <2>. QED  BY <2>1, <2>2, <2>3
<1>10. \A i \in 1 .. Len(spans') : RootedIn(spans', i)
  BY <1>2, <1>6, <1>7, <1>9, SoundStays
<1>11. frames' \in [Requests -> Seq(Frame)]
  BY <1>1, <1>4 DEF TraceInv
<1>12. ASSUME NEW q \in Requests, NEW k \in 1 .. Len(frames'[q])
       PROVE  SoundIn(spans', frames'[q][k].ctx)
  <2>1. frames[q] \in Seq(Frame)
    BY DEF TraceInv
  <2>2. CASE k \in 1 .. Len(frames[q]) /\ frames'[q][k] = frames[q][k]
    BY <1>6, <1>7, <2>2, SoundStays DEF TraceInv
  <2>3. CASE frames'[q][k] = frame
    BY <1>5, <1>8, <2>3
  <2>4. frames'[q] = IF q = g THEN Append(frames[q], frame) ELSE frames[q]
    BY <1>1 DEF TraceInv
  <2>. QED  BY <1>4, <1>12, <2>1, <2>2, <2>3, <2>4
<1>. QED  BY <1>4, <1>6, <1>7, <1>8, <1>10, <1>11, <1>12

LEMMA ContextIsSound ==
  ASSUME TraceInv, NEW g \in Requests
  PROVE  TR!SpanContext(g) \in Int /\ SoundIn(spans, TR!SpanContext(g))
<1>1. frames[g] \in Seq(Frame)
  BY DEF TraceInv
<1>2. CASE frames[g] = <<>>
  BY <1>2 DEF TR!SpanContext, TraceInv
<1>3. CASE frames[g] # <<>>
  <2>1. Len(frames[g]) \in 1 .. Len(frames[g]) /\ frames[g][Len(frames[g])] \in Frame
    BY <1>1, <1>3
  <2>. QED  BY <1>3, <2>1 DEF TR!SpanContext, TR!Last, TraceInv, Frame
<1>. QED  BY <1>2, <1>3

LEMMA TraceInvariant == TR!Spec => []TraceInv
<1>1. TR!Init => TraceInv
  BY DEF TR!Init, TR!None, TraceInv, SoundIn
<1>2. TraceInv /\ [TR!Next]_TR!vars => TraceInv'
  <2>. SUFFICES ASSUME TraceInv, [TR!Next]_TR!vars  PROVE TraceInv'
    OBVIOUS
  <2>1. ASSUME NEW g \in Requests, TR!HTTPTracing(g)
        PROVE  TraceInv'
    <3>1. base' = [base EXCEPT ![g] = 0]
      BY <2>1 DEF TR!HTTPTracing, TR!None
    <3>2. PICK sampled \in BOOLEAN, from \in {0, -1} :
            /\ TR!StartSpan(g, from, sampled)
            /\ header' = [header EXCEPT ![g] = TR!Passed(from, sampled)]
      <4>1. \A headers \in TR!Incoming : TR!Extract(headers) \in {0, -1}
        BY DEF TR!Incoming, TR!Extract, TR!None, TR!Remote
      <4>. QED  BY <2>1, <4>1 DEF TR!HTTPTracing, TR!ShouldSample
    <3>3. SoundIn(spans, from) /\ SoundIn(spans', 0)
      BY DEF SoundIn
    <3>4. /\ spans' \in Seq(Span) /\ Longer
          /\ \A i \in 1 .. Len(spans') : RootedIn(spans', i)
          /\ frames' \in [Requests -> Seq(Frame)]
          /\ TR!Passed(from, sampled) \in Int
          /\ SoundIn(spans', TR!Passed(from, sampled))
          /\ \A q \in Requests : \A k \in 1 .. Len(frames'[q]) : SoundIn(spans', frames'[q][k].ctx)
      BY <3>2, <3>3, StartKeeps
    <3>5. base' \in [Requests -> Int] /\ header' \in [Requests -> Int]
      BY <3>1, <3>2, <3>4 DEF TraceInv
    <3>6. ASSUME NEW q \in Requests
          PROVE  SoundIn(spans', base'[q]) /\ SoundIn(spans', header'[q])
      <4>1. SoundIn(spans', base[q]) /\ SoundIn(spans', header[q])
        BY <3>4, SoundStays DEF TraceInv
      <4>. QED  BY <3>1, <3>2, <3>3, <3>4, <4>1 DEF TraceInv
    <3>. QED  BY <3>4, <3>5, <3>6 DEF TraceInv
  <2>2. ASSUME NEW g \in Requests, TR!StartInside(g)
        PROVE  TraceInv'
    <3>1. UNCHANGED <<base, header>>
      BY <2>2 DEF TR!StartInside
    <3>2. PICK sampled \in BOOLEAN : TR!StartSpan(g, TR!SpanContext(g), sampled)
      BY <2>2 DEF TR!StartInside, TR!ShouldSample
    <3>3. /\ spans' \in Seq(Span) /\ Longer
          /\ \A i \in 1 .. Len(spans') : RootedIn(spans', i)
          /\ frames' \in [Requests -> Seq(Frame)]
          /\ \A q \in Requests : \A k \in 1 .. Len(frames'[q]) : SoundIn(spans', frames'[q][k].ctx)
      BY <3>2, ContextIsSound, StartKeeps
    <3>. QED  BY <3>1, <3>3, SoundStays DEF TraceInv
  <2>3. ASSUME NEW g \in Requests, NEW w \in Requests, TR!Spawn(g, w)
        PROVE  TraceInv'
    <3>1. /\ base' = [base EXCEPT ![w] = TR!SpanContext(g)]
          /\ header' = [header EXCEPT ![w] = 0]
          /\ UNCHANGED <<spans, frames>>
      BY <2>3 DEF TR!Spawn, TR!None
    <3>2. TR!SpanContext(g) \in Int /\ SoundIn(spans, TR!SpanContext(g)) /\ SoundIn(spans, 0)
      BY ContextIsSound DEF SoundIn
    <3>3. base' \in [Requests -> Int] /\ header' \in [Requests -> Int]
      BY <3>1, <3>2 DEF TraceInv
    <3>4. \A q \in Requests : SoundIn(spans, base'[q]) /\ SoundIn(spans, header'[q])
      BY <3>1, <3>2 DEF TraceInv
    <3>. QED  BY <3>1, <3>3, <3>4 DEF TraceInv, RootedIn
  <2>4. ASSUME NEW g \in Requests, TR!End(g)
        PROVE  TraceInv'
    <3>. DEFINE k == frames[g][Len(frames[g])].span
    <3>1. /\ frames[g] # <<>>
          /\ spans' = [spans EXCEPT ![k].finished = TRUE]
          /\ frames' = [frames EXCEPT ![g] = SubSeq(@, 1, Len(@) - 1)]
          /\ UNCHANGED <<base, header>>
      BY <2>4 DEF TR!End, TR!Last, TR!Front
    <3>. HIDE DEF k
    <3>2. /\ spans' \in Seq(Span) /\ Len(spans') = Len(spans)
          /\ Longer
      <4>1. spans \in Seq(Span) /\ \A i \in 1 .. Len(spans) : spans[i] \in Span
        BY DEF TraceInv
      <4>2. ASSUME NEW i \in 1 .. Len(spans)
            PROVE  /\ spans'[i] \in Span
                   /\ spans'[i].trace = spans[i].trace
                   /\ spans'[i].parent = spans[i].parent
                   /\ spans'[i].sampled = spans[i].sampled
        <5>1. spans'[i] = spans[i] \/ spans'[i] = [spans[i] EXCEPT !.finished = TRUE]
          <6>1. DOMAIN spans = 1 .. Len(spans)
            BY <4>1
          <6>2. CASE k = i
            BY <3>1, <6>1, <6>2
          <6>3. CASE k # i
            BY <3>1, <6>1, <6>3
          <6>. QED  BY <6>2, <6>3
        <5>2. spans[i] \in Span
          BY <4>1
        <5>. QED  BY <5>1, <5>2 DEF Span
      <4>3. DOMAIN spans' = 1 .. Len(spans) /\ spans' = [i \in 1 .. Len(spans) |-> spans'[i]]
        <5>1. DOMAIN spans = 1 .. Len(spans)
          BY <4>1
        <5>. QED  BY <3>1, <5>1
      <4>4. spans' \in [1 .. Len(spans) -> Span]
        BY <4>2, <4>3
      <4>5. spans' \in Seq(Span) /\ Len(spans') = Len(spans)
        <5>. HIDE DEF Span
        <5>. QED  BY <4>1, <4>4
      <4>. QED  BY <4>1, <4>2, <4>5 DEF Longer
    <3>3. frames[g] \in Seq(Frame) /\ Len(frames[g]) \in Nat \ {0}
      BY <3>1 DEF TraceInv
    <3>4. /\ SubSeq(frames[g], 1, Len(frames[g]) - 1) \in Seq(Frame)
          /\ Len(SubSeq(frames[g], 1, Len(frames[g]) - 1)) = Len(frames[g]) - 1
          /\ \A j \in 1 .. Len(frames[g]) - 1 :
               SubSeq(frames[g], 1, Len(frames[g]) - 1)[j] = frames[g][j]
      <4>. HIDE DEF Frame
      <4>. QED  BY <3>3
    <3>5. frames' \in [Requests -> Seq(Frame)]
      BY <3>1, <3>4 DEF TraceInv
    <3>6. ASSUME NEW q \in Requests, NEW j \in 1 .. Len(frames'[q])
          PROVE  SoundIn(spans, frames'[q][j].ctx)
      <4>1. CASE q # g
        BY <3>1, <3>6, <4>1 DEF TraceInv
      <4>2. CASE q = g
        <5>1. frames'[g] = SubSeq(frames[g], 1, Len(frames[g]) - 1)
          BY <3>1 DEF TraceInv
        <5>2. j \in 1 .. Len(frames[g]) /\ frames'[g][j] = frames[g][j]
          BY <3>3, <3>4, <3>6, <4>2, <5>1
        <5>. QED  BY <4>2, <5>2 DEF TraceInv
      <4>. QED  BY <4>1, <4>2
    <3>. QED  BY <3>1, <3>2, <3>5, <3>6, SoundStays DEF TraceInv
  <2>5. CASE UNCHANGED <<spans, base, frames, header>>
    BY <2>5 DEF TraceInv, RootedIn
  <2>. QED  BY <2>1, <2>2, <2>3, <2>4, <2>5 DEF TR!Next, TR!Return, TR!vars
<1>. QED  BY <1>1, <1>2, PTL DEF TR!Spec

LEMMA TracerRuns == LibSpec => TR!Spec
<1>1. LibInit => TR!Init
  BY DEF LibInit
<1>2. [LibNext]_libVars => [TR!Next]_TR!vars
  BY DEF LibNext, libVars, AppNext, NetNext, BaseNext, appVars, netVars, baseVars, trVars, TR!vars
<1>. QED  BY <1>1, <1>2, PTL DEF LibSpec, TR!Spec

\* The recorded spans of a trace are one tree, whatever the sampler answers and whichever
\* goroutine outlives which (tracer.go:209-249).
THEOREM TracesStayWhole == LibSpec => []TracesWhole
<1>1. TraceInv => TracesWhole
  <2>. SUFFICES ASSUME TraceInv  PROVE TracesWhole
    OBVIOUS
  <2>1. TR!Recorded = {i \in 1 .. Len(spans) : spans[i].sampled} /\ TR!None = 0 /\ TR!Remote = -1
    BY DEF TR!Recorded, TR!None, TR!Remote, TraceInv
  <2>2. \A i \in TR!Recorded : spans[i].parent # 0 =>
          /\ spans[i].parent \in TR!Recorded \cup {-1}
          /\ spans[i].trace = TR!TraceOf(spans[i].parent)
    BY <2>1 DEF TraceInv, RootedIn, SoundIn, TraceIn, TR!TraceOf
  <2>3. \A i \in TR!Recorded : spans[i].parent = 0 => spans[i].trace = i
    BY <2>1 DEF TraceInv, RootedIn
  <2>4. \A g \in Requests : header[g] \in TR!Recorded \cup {0, -1}
    BY <2>1 DEF TraceInv, SoundIn
  <2>. QED  BY <2>1, <2>2, <2>3, <2>4 DEF TracesWhole, TR!TracesWhole
<1>. QED  BY <1>1, TracerRuns, TraceInvariant, PTL

-----------------------------------------------------------------------------
(* core/di/container.go: dependencies first, and cycles reported *)

\* The elements of a sequence
In(seq) == {seq[i] : i \in 1 .. Len(seq)}

OnceEach(seq) == \A i, j \in 1 .. Len(seq) : seq[i] = seq[j] => i = j

ContainerTypes ==
  /\ providers \subseteq Names /\ IsFiniteSet(providers)
  /\ \A n \in providers : dependsOn[n] \subseteq Names
  /\ order \in Seq(Names)
  /\ sorted \in Seq(Names)
  /\ at \in Nat /\ (mu = "initializing" => at > 0)
  /\ mu \in {"free", "sorting", "initializing", "deadlocked", "closing"}

\* Every provider stands on those before it.
Layered(seq) ==
  /\ In(seq) \subseteq providers
  /\ OnceEach(seq)
  /\ \A i \in 1 .. Len(seq) : dependsOn[seq[i]] \subseteq {seq[j] : j \in 1 .. i - 1}

\* Providers each of which needs another of them
Knot(S) == S \subseteq providers /\ S # {} /\ \A n \in S : dependsOn[n] \cap S # {}

SortedInv ==
  /\ mu \in {"free", "closing"} => sorted = <<>>
  /\ Layered(sorted)
  /\ mu = "sorting" => \A S : Knot(S) => S \cap In(sorted) = {}

\* Kahn's algorithm: the queue has the providers that wait for nobody.
KahnInv ==
  mu = "sorting" =>
    /\ queue \in Seq(Names) /\ OnceEach(queue)
    /\ In(queue) \cap In(sorted) = {}
    /\ inDegree = [n \in providers |-> Cardinality(dependsOn[n] \ In(sorted))]
    /\ In(queue) \cup In(sorted) = {n \in providers : inDegree[n] = 0}
    /\ \A n \in providers : dependsOn[n] \subseteq providers

LEMMA ContainerSizes == \A S : DI!Cardinality(S) = Cardinality(S)
BY DEF DI!Cardinality, Cardinality

LEMMA AppendOne ==
  ASSUME NEW S, NEW seq \in Seq(S), NEW e \in S
  PROVE  /\ Append(seq, e) \in Seq(S)
         /\ In(Append(seq, e)) = In(seq) \cup {e}
         /\ OnceEach(seq) /\ e \notin In(seq) => OnceEach(Append(seq, e))
<1>1. /\ Append(seq, e) \in Seq(S) /\ Len(Append(seq, e)) = Len(seq) + 1 /\ Len(seq) \in Nat
      /\ \A i \in 1 .. Len(seq) : Append(seq, e)[i] = seq[i]
      /\ Append(seq, e)[Len(seq) + 1] = e
  OBVIOUS
<1>2. In(Append(seq, e)) = In(seq) \cup {e}
  BY <1>1 DEF In
<1>3. OnceEach(seq) /\ e \notin In(seq) => OnceEach(Append(seq, e))
  BY <1>1 DEF OnceEach, In
<1>. QED  BY <1>1, <1>2, <1>3

\* A queue loses its head, and gains what was not in it.
LEMMA Requeue ==
  ASSUME NEW S, NEW q \in Seq(S), NEW new \in Seq(S), q # <<>>,
         OnceEach(q), OnceEach(new), In(q) \cap In(new) = {}
  PROVE  /\ Tail(q) \o new \in Seq(S)
         /\ OnceEach(Tail(q) \o new)
         /\ In(Tail(q) \o new) = (In(q) \ {Head(q)}) \cup In(new)
         /\ Head(q) \in In(q)
<1>. DEFINE r == Tail(q) \o new
<1>1. /\ r \in Seq(S) /\ Len(q) \in Nat \ {0} /\ Len(new) \in Nat /\ Len(r) = Len(q) - 1 + Len(new)
      /\ \A i \in 1 .. Len(q) - 1 : r[i] = q[i + 1]
      /\ \A i \in Len(q) .. Len(q) - 1 + Len(new) : r[i] = new[i - (Len(q) - 1)]
      /\ Head(q) = q[1]
  OBVIOUS
<1>. HIDE DEF r
<1>2. Head(q) \in In(q) /\ \A i \in 2 .. Len(q) : q[i] # Head(q)
  BY <1>1 DEF In, OnceEach
<1>3. \A i \in 1 .. Len(q) - 1 : i + 1 \in 2 .. Len(q) /\ r[i] \in In(q) \ {Head(q)}
  BY <1>1, <1>2 DEF In
<1>4. \A i \in Len(q) .. Len(q) - 1 + Len(new) :
        i - (Len(q) - 1) \in 1 .. Len(new) /\ r[i] \in In(new)
  BY <1>1 DEF In
<1>5. \A i \in 1 .. Len(r) : i \in 1 .. Len(q) - 1 \/ i \in Len(q) .. Len(q) - 1 + Len(new)
  BY <1>1
<1>6. In(r) \subseteq (In(q) \ {Head(q)}) \cup In(new)
  BY <1>3, <1>4, <1>5 DEF In
<1>7. ASSUME NEW e \in In(q) \ {Head(q)}
      PROVE  e \in In(r)
  <2>1. PICK i \in 1 .. Len(q) : e = q[i]
    BY <1>7 DEF In
  <2>2. i - 1 \in 1 .. Len(q) - 1 /\ r[i - 1] = e
    BY <1>1, <1>7, <2>1
  <2>. QED  BY <1>1, <2>2 DEF In
<1>8. ASSUME NEW e \in In(new)
      PROVE  e \in In(r)
  <2>1. PICK i \in 1 .. Len(new) : e = new[i]
    BY <1>8 DEF In
  <2>2. i + (Len(q) - 1) \in Len(q) .. Len(q) - 1 + Len(new)
    BY <1>1
  <2>3. r[i + (Len(q) - 1)] = e
    BY <1>1, <2>1, <2>2
  <2>. QED  BY <1>1, <2>2, <2>3 DEF In
<1>9. ASSUME NEW i \in 1 .. Len(r), NEW j \in 1 .. Len(r), r[i] = r[j]
      PROVE  i = j
  <2>1. CASE i \in 1 .. Len(q) - 1 /\ j \in 1 .. Len(q) - 1
    <3>1. q[i + 1] = q[j + 1] /\ i + 1 \in 1 .. Len(q) /\ j + 1 \in 1 .. Len(q)
      BY <1>1, <1>9, <2>1
    <3>2. i + 1 = j + 1
      BY <3>1 DEF OnceEach
    <3>. QED  BY <2>1, <3>2
  <2>2. CASE i \in Len(q) .. Len(q) - 1 + Len(new) /\ j \in Len(q) .. Len(q) - 1 + Len(new)
    <3>. DEFINE k == i - (Len(q) - 1)
                l == j - (Len(q) - 1)
    <3>1. k \in 1 .. Len(new) /\ l \in 1 .. Len(new) /\ new[k] = new[l]
      BY <1>1, <1>4, <1>9, <2>2
    <3>2. k = l
      BY <3>1 DEF OnceEach
    <3>. QED  BY <1>1, <2>2, <3>2
  <2>. QED  BY <1>3, <1>4, <1>5, <1>9, <2>1, <2>2
<1>. QED  BY <1>1, <1>2, <1>6, <1>7, <1>8, <1>9 DEF r, OnceEach

\* A set written as a sequence, in any order
LEMMA Listed ==
  ASSUME NEW S, IsFiniteSet(S), NEW seq \in DI!SetToSeqs(S)
  PROVE  seq \in Seq(S) /\ OnceEach(seq) /\ In(seq) = S
<1>1. /\ seq \in [1 .. Cardinality(S) -> S]
      /\ \A i, j \in 1 .. Cardinality(S) : i # j => seq[i] # seq[j]
  BY ContainerSizes DEF DI!SetToSeqs
<1>2. Cardinality(S) \in Nat
  BY FS_CardinalityType
<1>3. seq \in Seq(S) /\ Len(seq) = Cardinality(S)
  BY <1>1, <1>2
<1>4. IsFiniteSet(1 .. Cardinality(S)) /\ Cardinality(1 .. Cardinality(S)) = Cardinality(S)
  BY <1>2, Interval, Zenon
<1>5. seq \in Injection(1 .. Cardinality(S), S)
  BY <1>1 DEF Injection, IsInjective
<1>6. seq \in Surjection(1 .. Cardinality(S), S)
  BY <1>4, <1>5, FS_Injection
<1>7. In(seq) = S
  BY <1>1, <1>3, <1>6 DEF In, Surjection
<1>. QED  BY <1>1, <1>3, <1>7 DEF OnceEach

LEMMA UnlockEmpties ==
  ASSUME DI!Unlock
  PROVE  /\ sorted' = <<>> /\ mu' = "free" /\ at' = 0
         /\ Layered(sorted)'
BY DEF DI!Unlock, Layered, In, OnceEach

LEMMA LayeredStays ==
  ASSUME sorted' = sorted, providers' = providers, dependsOn' = dependsOn, Layered(sorted)
  PROVE  Layered(sorted)'
<1>1. In(sorted)' = In(sorted)
  BY DEF In
<1>2. OnceEach(sorted)'
  BY DEF OnceEach, Layered
<1>3. \A i \in 1 .. Len(sorted) : dependsOn[sorted[i]] \subseteq {sorted[j] : j \in 1 .. i - 1}
  BY DEF Layered
<1>4. (\A i \in 1 .. Len(sorted) : dependsOn[sorted[i]] \subseteq {sorted[j] : j \in 1 .. i - 1})'
  BY <1>3
<1>. QED  BY <1>1, <1>2, <1>4 DEF Layered

\* The next provider of the queue joins those that are sorted.
LEMMA SortOneKeeps ==
  ASSUME ContainerTypes, SortedInv, KahnInv, DI!SortOne
  PROVE  ContainerTypes' /\ SortedInv' /\ KahnInv'
<1>. DEFINE n0 == Head(queue)
            dependents == {n \in providers : DI!Edge(n0, n)}
            ready == {n \in dependents : inDegree[n] = 1}
<1>1. /\ mu = "sorting" /\ queue # <<>>
      /\ sorted' = Append(sorted, n0)
      /\ inDegree' = [n \in providers |-> IF n \in dependents THEN inDegree[n] - 1 ELSE inDegree[n]]
      /\ \E new \in DI!SetToSeqs(ready) : queue' = Tail(queue) \o new
      /\ UNCHANGED <<providers, dependsOn, order, mu, at>>
  BY DEF DI!SortOne
<1>2. /\ queue \in Seq(Names) /\ OnceEach(queue)
      /\ In(queue) \cap In(sorted) = {}
      /\ inDegree = [n \in providers |-> Cardinality(dependsOn[n] \ In(sorted))]
      /\ In(queue) \cup In(sorted) = {n \in providers : inDegree[n] = 0}
      /\ \A n \in providers : dependsOn[n] \subseteq providers
  BY <1>1 DEF KahnInv
<1>3. /\ sorted \in Seq(Names) /\ Layered(sorted) /\ \A S : Knot(S) => S \cap In(sorted) = {}
      /\ providers \subseteq Names /\ IsFiniteSet(providers)
  BY <1>1 DEF ContainerTypes, SortedInv
<1>4. dependents = {n \in providers : n0 \in dependsOn[n]}
  BY DEF DI!Edge
<1>5. n0 \in In(queue)
  BY <1>1, <1>2 DEF In
<1>. HIDE DEF n0, dependents, ready
<1>6. n0 \in providers /\ inDegree[n0] = 0 /\ n0 \notin In(sorted) /\ n0 \in Names
  BY <1>2, <1>3, <1>5
<1>7. \A n \in providers : IsFiniteSet(dependsOn[n] \ In(sorted))
  BY <1>2, <1>3, FS_Subset
<1>8. dependsOn[n0] \subseteq In(sorted)
  BY <1>2, <1>6, <1>7, FS_EmptySet
<1>9. PICK new \in DI!SetToSeqs(ready) : queue' = Tail(queue) \o new
  BY <1>1
<1>10. ready \subseteq providers /\ IsFiniteSet(ready)
  BY <1>3, <1>4, FS_Subset DEF ready
<1>11. new \in Seq(Names) /\ OnceEach(new) /\ In(new) = ready
  <2>1. new \in Seq(ready) /\ OnceEach(new) /\ In(new) = ready
    BY <1>9, <1>10, Listed
  <2>. QED  BY <1>3, <1>10, <2>1
<1>12. In(queue) \cap In(new) = {}
  BY <1>2, <1>11 DEF ready
<1>13. /\ queue' \in Seq(Names) /\ OnceEach(queue')
       /\ In(queue') = (In(queue) \ {n0}) \cup ready
  BY <1>1, <1>2, <1>9, <1>11, <1>12, Requeue DEF n0
<1>14. /\ sorted' \in Seq(Names) /\ In(sorted') = In(sorted) \cup {n0}
       /\ OnceEach(sorted')
  BY <1>1, <1>3, <1>6, AppendOne DEF Layered
<1>15. ContainerTypes'
  BY <1>1, <1>14 DEF ContainerTypes
<1>16. Layered(sorted)'
  <2>1. /\ Len(sorted) \in Nat /\ Len(sorted') = Len(sorted) + 1
        /\ \A i \in 1 .. Len(sorted) : sorted'[i] = sorted[i]
        /\ sorted'[Len(sorted) + 1] = n0
    BY <1>1, <1>3, <1>6
  <2>2. ASSUME NEW i \in 1 .. Len(sorted')
        PROVE  dependsOn[sorted'[i]] \subseteq {sorted'[j] : j \in 1 .. i - 1}
    <3>1. CASE i \in 1 .. Len(sorted)
      <4>1. dependsOn[sorted[i]] \subseteq {sorted[j] : j \in 1 .. i - 1}
        BY <1>3, <3>1 DEF Layered
      <4>. QED  BY <2>1, <3>1, <4>1
    <3>2. CASE i = Len(sorted) + 1
      BY <1>8, <2>1, <3>2 DEF In
    <3>. QED  BY <2>1, <2>2, <3>1, <3>2
  <2>. QED  BY <1>1, <1>3, <1>6, <1>14, <2>2 DEF Layered
<1>17. \A S : Knot(S)' => S \cap In(sorted') = {}
  BY <1>1, <1>3, <1>8, <1>14 DEF Knot
<1>18. ASSUME NEW n \in providers
       PROVE  inDegree'[n] = Cardinality(dependsOn[n] \ In(sorted'))
  <2>1. CASE n \in dependents
    <3>1. dependsOn[n] \ In(sorted') = (dependsOn[n] \ In(sorted)) \ {n0} /\ n0 \in dependsOn[n] \ In(sorted)
      BY <1>4, <1>6, <1>14, <2>1
    <3>. DEFINE W == dependsOn[n] \ In(sorted)
    <3>2. IsFiniteSet(W) /\ n0 \in W
      BY <1>7, <3>1
    <3>. HIDE DEF W
    <3>3. Cardinality(W \ {n0}) = Cardinality(W) - 1
      BY <3>2, FS_RemoveElement
    <3>4. Cardinality(dependsOn[n] \ In(sorted')) = Cardinality(dependsOn[n] \ In(sorted)) - 1
      BY <3>1, <3>3 DEF W
    <3>. QED  BY <1>1, <1>2, <2>1, <3>4
  <2>2. CASE n \notin dependents
    <3>1. dependsOn[n] \ In(sorted') = dependsOn[n] \ In(sorted)
      BY <1>4, <1>14, <2>2
    <3>. QED  BY <1>1, <1>2, <2>2, <3>1
  <2>. QED  BY <2>1, <2>2
<1>19. inDegree' = [n \in providers |-> Cardinality(dependsOn[n] \ In(sorted'))]
  BY <1>1, <1>18
<1>20. In(queue') \cup In(sorted') = {n \in providers : inDegree'[n] = 0}
  <2>1. \A n \in providers : inDegree[n] \in Nat
    BY <1>2, <1>7, FS_CardinalityType
  <2>2. \A n \in dependents : inDegree[n] # 0
    <3>1. ASSUME NEW n \in dependents
          PROVE  dependsOn[n] \ In(sorted) # {} /\ n \in providers
      BY <1>4, <1>6, <3>1
    <3>. QED  BY <1>2, <1>7, <3>1, FS_EmptySet
  <2>3. \A n \in providers : inDegree'[n] = 0 <=> (inDegree[n] = 0 \/ n \in ready)
    BY <1>1, <1>4, <2>1, <2>2 DEF ready
  <2>. QED  BY <1>2, <1>5, <1>10, <1>13, <1>14, <2>3
<1>21. In(queue') \cap In(sorted') = {}
  <2>1. n0 \notin ready /\ In(sorted) \cap ready = {}
    BY <1>2, <1>6 DEF ready
  <2>. QED  BY <1>2, <1>13, <1>14, <2>1
<1>. QED  BY <1>1, <1>2, <1>13, <1>15, <1>16, <1>17, <1>19, <1>20, <1>21 DEF SortedInv, KahnInv

LEMMA ContainerInvariant == DI!Spec => [](ContainerTypes /\ SortedInv /\ KahnInv)
<1>. DEFINE Inv == ContainerTypes /\ SortedInv /\ KahnInv
<1>1. DI!Init => Inv
  <2>. SUFFICES ASSUME DI!Init  PROVE Inv
    OBVIOUS
  <2>1. Layered(sorted)
    BY DEF DI!Init, Layered, In, OnceEach
  <2>. QED  BY <2>1, FS_EmptySet DEF DI!Init, ContainerTypes, SortedInv, KahnInv
<1>2. Inv /\ [DI!Next]_DI!vars => Inv'
  <2>. SUFFICES ASSUME Inv, [DI!Next]_DI!vars  PROVE Inv'
    OBVIOUS
  <2>0. ContainerTypes /\ SortedInv /\ KahnInv
    OBVIOUS
  <2>. HIDE DEF Inv
  <2>1. ASSUME NEW name \in Names, NEW deps \in SUBSET Names, DI!Register(name, deps)
        PROVE  Inv'
    <3>1. /\ mu = "free" /\ mu' = "free" /\ sorted' = sorted /\ sorted = <<>>
          /\ providers' = providers \cup {name}
          /\ dependsOn' = [n \in providers' |-> IF n = name THEN deps ELSE dependsOn[n]]
          /\ UNCHANGED <<order, at>>
      BY <2>0, <2>1 DEF DI!Register, DI!sortVars, SortedInv
    <3>2. ContainerTypes'
      BY <2>0, <3>1, FS_AddElement DEF ContainerTypes
    <3>3. Layered(sorted)'
      BY <3>1 DEF Layered, In, OnceEach
    <3>. QED  BY <3>1, <3>2, <3>3 DEF Inv, SortedInv, KahnInv
  <2>2. ASSUME DI!Unlock, UNCHANGED <<providers, dependsOn>>, order' \in Seq(Names)
        PROVE  Inv'
    <3>1. sorted' = <<>> /\ mu' = "free" /\ at' = 0 /\ Layered(sorted)'
      BY <2>2, UnlockEmpties
    <3>2. ContainerTypes'
      <4>1. providers' = providers /\ dependsOn' = dependsOn /\ order' \in Seq(Names)
        BY <2>2
      <4>2. sorted' \in Seq(Names) /\ at' \in Nat /\ mu' # "initializing"
        BY <3>1
      <4>. QED  BY <2>0, <3>1, <4>1, <4>2 DEF ContainerTypes
    <3>3. SortedInv' /\ KahnInv'
      BY <3>1 DEF SortedInv, KahnInv
    <3>. QED  BY <3>2, <3>3 DEF Inv
  <2>3. ASSUME UNCHANGED <<providers, dependsOn, sorted>>, order' \in Seq(Names), at' \in Nat,
               mu' \in {"free", "initializing", "deadlocked", "closing"},
               mu' \in {"free", "closing"} => sorted = <<>>, mu' = "initializing" => at' > 0
        PROVE  Inv'
    <3>1. Layered(sorted)'
      <4>1. sorted' = sorted /\ providers' = providers /\ dependsOn' = dependsOn
        BY <2>3
      <4>2. Layered(sorted)
        BY <2>0 DEF SortedInv
      <4>. QED  BY <4>1, <4>2, LayeredStays
    <3>2. ContainerTypes'
      BY <2>0, <2>3 DEF ContainerTypes
    <3>3. SortedInv' /\ KahnInv'
      BY <2>3, <3>1 DEF SortedInv, KahnInv
    <3>. QED  BY <3>2, <3>3 DEF Inv
  <2>4. CASE DI!InitAll
    <3>1. CASE \A n \in providers : dependsOn[n] \subseteq providers
      <4>1. /\ mu = "free" /\ mu' = "sorting" /\ sorted = <<>>
            /\ inDegree' = [n \in providers |-> DI!InitialDegree(n)]
            /\ \E first \in DI!SetToSeqs({n \in providers : DI!InitialDegree(n) = 0}) : queue' = first
            /\ UNCHANGED <<sorted, at, providers, dependsOn, order>>
        BY <2>0, <2>4, <3>1 DEF DI!InitAll, SortedInv
      <4>2. In(sorted) = {} /\ Layered(sorted)'
        BY <4>1 DEF Layered, In, OnceEach
      <4>3. ASSUME NEW n \in providers
            PROVE  DI!InitialDegree(n) = Cardinality(dependsOn[n] \ In(sorted))
        <5>1. {dep \in providers : DI!Edge(dep, n)} = dependsOn[n] \ In(sorted)
          BY <3>1, <4>2 DEF DI!Edge
        <5>. QED  BY <5>1, ContainerSizes DEF DI!InitialDegree
      <4>4. inDegree' = [n \in providers |-> Cardinality(dependsOn[n] \ In(sorted))]
        BY <4>1, <4>3
      <4>5. {n \in providers : DI!InitialDegree(n) = 0} = {n \in providers : inDegree'[n] = 0}
        BY <4>1
      <4>6. /\ queue' \in Seq({n \in providers : inDegree'[n] = 0})
            /\ OnceEach(queue') /\ In(queue') = {n \in providers : inDegree'[n] = 0}
        <5>1. IsFiniteSet({n \in providers : inDegree'[n] = 0})
          BY <2>0, FS_Subset DEF ContainerTypes
        <5>. QED  BY <4>1, <4>5, <5>1, Listed
      <4>7. queue' \in Seq(Names)
        BY <2>0, <4>6 DEF ContainerTypes
      <4>8. KahnInv'
        BY <3>1, <4>1, <4>2, <4>4, <4>6, <4>7 DEF KahnInv
      <4>. QED  BY <2>0, <4>1, <4>2, <4>8 DEF Inv, ContainerTypes, SortedInv
    <3>2. CASE ~ \A n \in providers : dependsOn[n] \subseteq providers
      <4>1. DI!Unlock /\ UNCHANGED <<providers, dependsOn, order>>
        BY <2>4, <3>2 DEF DI!InitAll
      <4>. QED  BY <2>0, <2>2, <4>1 DEF ContainerTypes
    <3>. QED  BY <3>1, <3>2
  <2>5. CASE DI!SortOne
    BY <2>0, <2>5, SortOneKeeps DEF Inv
  <2>6. CASE DI!SortEnd
    <3>1. \/ mu' = "initializing" /\ at' = 1 /\ UNCHANGED sorted
          \/ DI!Unlock
      BY <2>6 DEF DI!SortEnd, DI!sortVars
    <3>2. UNCHANGED <<providers, dependsOn, order>>
      BY <2>6 DEF DI!SortEnd
    <3>. QED  BY <2>0, <2>2, <2>3, <3>1, <3>2 DEF ContainerTypes
  <2>7. CASE DI!InitOne
    <3>1. sorted[at] \in Names
      BY <2>0, <2>7 DEF DI!InitOne, ContainerTypes
    <3>2. UNCHANGED <<providers, dependsOn>> /\ mu = "initializing"
      BY <2>7 DEF DI!InitOne
    <3>3. CASE order' = Append(order, sorted[at]) /\ at' = at + 1 /\ UNCHANGED <<mu, sorted>>
      <4>1. order' \in Seq(Names) /\ at' \in Nat /\ at' > 0
        BY <2>0, <3>1, <3>3 DEF ContainerTypes
      <4>. QED  BY <2>3, <3>2, <3>3, <4>1
    <3>4. CASE DI!Unlock /\ UNCHANGED order
      BY <2>0, <2>2, <3>2, <3>4 DEF ContainerTypes
    <3>5. CASE mu' = "deadlocked" /\ UNCHANGED <<order, at, sorted>>
      BY <2>0, <2>3, <3>2, <3>5 DEF ContainerTypes
    <3>. QED  BY <2>7, <3>3, <3>4, <3>5 DEF DI!InitOne, DI!sortVars
  <2>8. CASE DI!InitEnd \/ DI!ShutdownEnd
    BY <2>0, <2>2, <2>8 DEF DI!InitEnd, DI!ShutdownEnd, ContainerTypes
  <2>9. CASE DI!ShutdownAll
    <3>1. sorted = <<>> /\ Len(order) \in Nat /\ order \in Seq(Names)
      BY <2>0, <2>9 DEF DI!ShutdownAll, SortedInv, ContainerTypes
    <3>. QED  BY <2>3, <2>9, <3>1 DEF DI!ShutdownAll, DI!sortVars
  <2>10. CASE DI!ShutdownOne
    <3>1. sorted = <<>> /\ at - 1 \in Nat /\ order \in Seq(Names)
      BY <2>0, <2>10 DEF DI!ShutdownOne, SortedInv, ContainerTypes
    <3>2. CASE DI!Unlock
      BY <2>2, <2>10, <3>1, <3>2 DEF DI!ShutdownOne
    <3>3. CASE at' = at - 1 /\ UNCHANGED <<mu, DI!sortVars>>
      BY <2>3, <2>10, <3>1, <3>3 DEF DI!ShutdownOne, DI!sortVars
    <3>. QED  BY <2>10, <3>2, <3>3 DEF DI!ShutdownOne
  <2>11. CASE UNCHANGED DI!vars
    <3>1. UNCHANGED <<providers, dependsOn, order, mu, queue, inDegree, sorted, at>>
      BY <2>11 DEF DI!vars
    <3>2. ContainerTypes'
      BY <2>0, <3>1 DEF ContainerTypes
    <3>3. SortedInv' /\ KahnInv'
      BY <2>0, <3>1 DEF SortedInv, KahnInv, Layered, Knot
    <3>. QED  BY <3>2, <3>3 DEF Inv
  <2>. QED  BY <2>1, <2>4, <2>5, <2>6, <2>7, <2>8, <2>9, <2>10, <2>11 DEF DI!Next
<1>. QED  BY <1>1, <1>2, PTL DEF DI!Spec

LEMMA ContainerRuns == LibSpec => DI!Spec
<1>1. LibInit => DI!Init
  BY DEF LibInit
<1>2. [LibNext]_libVars => [DI!Next]_DI!vars
  BY DEF LibNext, libVars, AppNext, NetNext, BaseNext, appVars, netVars, baseVars, diVars, DI!vars
<1>. QED  BY <1>1, <1>2, PTL DEF LibSpec, DI!Spec

\* Every provider is initialised after all that it depends on, whatever order the maps are
\* walked in (container.go:137).
THEOREM DependenciesComeFirst == LibSpec => []DependenciesFirst
<1>1. SortedInv => DependenciesFirst
  BY DEF SortedInv, Layered, DependenciesFirst, DI!DependenciesFirst
<1>. QED  BY <1>1, ContainerRuns, ContainerInvariant, PTL

\* topoSort gives up exactly when there is a cycle: some providers each of which needs
\* another of them (container.go:84, 174).
THEOREM CyclesAreReported == LibSpec => CyclesReported
<1>1. ContainerTypes /\ SortedInv /\ KahnInv /\ [DI!Next]_DI!vars
        => (mu = "sorting" /\ mu' # "sorting" => (mu' = "free" <=> DI!Cyclic))
  <2>. SUFFICES ASSUME ContainerTypes, SortedInv, KahnInv, [DI!Next]_DI!vars,
                       mu = "sorting", mu' # "sorting"
                PROVE  mu' = "free" <=> DI!Cyclic
    OBVIOUS
  <2>1. DI!SortEnd
    BY DEF DI!Next, DI!vars, DI!Register, DI!InitAll, DI!SortOne, DI!InitOne, DI!InitEnd,
           DI!ShutdownAll, DI!ShutdownOne, DI!ShutdownEnd
  <2>2. DI!Cyclic <=> \E S : Knot(S)
    <3>1. ASSUME DI!Cyclic  PROVE \E S : Knot(S)
      <4>1. PICK S \in (SUBSET providers) \ {{}} : \A n \in S : dependsOn[n] \cap S # {}
        BY <3>1 DEF DI!Cyclic
      <4>2. Knot(S)
        BY <4>1 DEF Knot
      <4>. QED  BY <4>2
    <3>2. ASSUME NEW S, Knot(S)  PROVE DI!Cyclic
      <4>1. S \in (SUBSET providers) \ {{}} /\ \A n \in S : dependsOn[n] \cap S # {}
        BY <3>2 DEF Knot
      <4>. QED  BY <4>1 DEF DI!Cyclic
    <3>. QED  BY <3>1, <3>2
  <2>3. /\ queue = <<>>
        /\ mu' = "free" <=> Len(sorted) # Cardinality(providers)
    BY <2>1, ContainerSizes DEF DI!SortEnd, DI!Unlock
  <2>4. In(sorted) \subseteq providers /\ Cardinality(In(sorted)) = Len(sorted)
    <3>1. sorted \in Seq(Names) /\ OnceEach(sorted) /\ In(sorted) \subseteq providers
      BY DEF ContainerTypes, SortedInv, Layered
    <3>2. sorted \in Bijection(1 .. Len(sorted), In(sorted))
      BY <3>1 DEF In, OnceEach, Bijection, Injection, Surjection, IsInjective
    <3>3. ExistsBijection(1 .. Len(sorted), In(sorted))
      BY <3>2 DEF ExistsBijection
    <3>4. IsFiniteSet(1 .. Len(sorted)) /\ Cardinality(1 .. Len(sorted)) = Len(sorted)
      <4>1. Len(sorted) \in Nat
        BY <3>1
      <4>. HIDE <3>1
      <4>. QED  BY <4>1, Interval, Zenon
    <3>. QED  BY <3>1, <3>3, <3>4, FS_Bijection
  <2>5. CASE Len(sorted) = Cardinality(providers)
    <3>1. In(sorted) = providers
      BY <2>4, <2>5, FS_Subset DEF ContainerTypes
    <3>2. \A S : ~ Knot(S)
      BY <3>1 DEF SortedInv, Knot
    <3>. QED  BY <2>2, <2>3, <2>5, <3>2
  <2>6. CASE Len(sorted) # Cardinality(providers)
    <3>. DEFINE S == providers \ In(sorted)
    <3>1. S # {}
      BY <2>4, <2>6
    <3>2. In(queue) = {}
      BY <2>3 DEF In
    <3>3. ASSUME NEW n \in S
          PROVE  dependsOn[n] \cap S # {}
      <4>1. inDegree[n] # 0 /\ inDegree[n] = Cardinality(dependsOn[n] \ In(sorted))
        BY <3>2, <3>3 DEF KahnInv
      <4>2. dependsOn[n] \ In(sorted) # {}
        BY <4>1, FS_EmptySet
      <4>. QED  BY <3>3, <4>2 DEF KahnInv
    <3>4. Knot(S)
      BY <3>1, <3>3 DEF Knot
    <3>. QED  BY <2>2, <2>3, <2>6, <3>4
  <2>. QED  BY <2>5, <2>6
<1>2. [](ContainerTypes /\ SortedInv /\ KahnInv) /\ DI!Spec => CyclesReported
  BY <1>1, PTL DEF DI!Spec, CyclesReported, DI!CyclesReported
<1>. QED  BY <1>2, ContainerRuns, ContainerInvariant, PTL

\* A provider is only initialised on top of earlier ones, as long as the order lists none
\* twice, and closing it from its end leaves the earlier ones for later.
StandInv ==
  /\ DOMAIN live \subseteq In(order)
  /\ mu = "initializing" => at <= Len(sorted) + 1 /\ {sorted[i] : i \in 1 .. at - 1} \subseteq In(order)
  /\ OnceEach(order) =>
       /\ \A k \in 1 .. Len(order) :
            order[k] \in DOMAIN live => live[order[k]] \subseteq {order[j] : j \in 1 .. k - 1}
       /\ mu = "closing" =>
            at <= Len(order) /\ \A k \in at + 1 .. Len(order) : order[k] \notin DOMAIN live

LEMMA StandInvariant == DI!Spec => []StandInv
<1>1. DI!Init => StandInv
  BY DEF DI!Init, StandInv, In, OnceEach
<1>2. ContainerTypes /\ SortedInv /\ StandInv /\ [DI!Next]_DI!vars => StandInv'
  <2>. SUFFICES ASSUME ContainerTypes, SortedInv, StandInv, [DI!Next]_DI!vars  PROVE StandInv'
    OBVIOUS
  <2>1. order \in Seq(Names) /\ Len(order) \in Nat /\ at \in Nat /\ sorted \in Seq(Names)
    BY DEF ContainerTypes
  <2>2. ASSUME UNCHANGED <<order, live>>, mu' \notin {"initializing", "closing"}
        PROVE  StandInv'
    BY <2>2 DEF StandInv
  <2>3. ASSUME DI!Unlock, UNCHANGED order, DOMAIN live' \subseteq DOMAIN live,
               \A n \in DOMAIN live' : live'[n] = live[n]
        PROVE  StandInv'
    BY <2>3 DEF StandInv, DI!Unlock
  <2>4. CASE \/ \E name \in Names, deps \in SUBSET Names : DI!Register(name, deps)
             \/ DI!InitAll \/ DI!SortOne \/ DI!InitEnd \/ DI!ShutdownEnd
    BY <2>2, <2>4 DEF DI!Register, DI!InitAll, DI!SortOne, DI!InitEnd, DI!ShutdownEnd, DI!Unlock
  <2>5. CASE DI!SortEnd
    <3>1. UNCHANGED <<order, live>>
      BY <2>5 DEF DI!SortEnd
    <3>2. CASE mu' = "initializing" /\ at' = 1 /\ UNCHANGED DI!sortVars
      BY <2>1, <3>1, <3>2 DEF StandInv, DI!sortVars
    <3>3. CASE DI!Unlock
      BY <2>3, <3>1, <3>3
    <3>. QED  BY <2>5, <3>2, <3>3 DEF DI!SortEnd
  <2>6. CASE DI!InitOne
    <3>1. mu = "initializing" /\ at \in 1 .. Len(sorted) /\ UNCHANGED dependsOn
      BY <2>1, <2>6 DEF DI!InitOne, ContainerTypes
    <3>. DEFINE n == sorted[at]
    <3>2. CASE /\ order' = Append(order, n)
               /\ live' = [m \in DOMAIN live \cup {n} |-> IF m = n THEN dependsOn[m] ELSE live[m]]
               /\ at' = at + 1
               /\ UNCHANGED <<mu, DI!sortVars>>
      <4>1. n \in Names /\ dependsOn[n] \subseteq {sorted[j] : j \in 1 .. at - 1}
        <5>1. sorted[at] \in Names
          BY <2>1, <3>1
        <5>2. \A i \in 1 .. Len(sorted) : dependsOn[sorted[i]] \subseteq {sorted[j] : j \in 1 .. i - 1}
          BY DEF SortedInv, Layered
        <5>. QED  BY <3>1, <5>1, <5>2
      <4>2. {sorted[j] : j \in 1 .. at - 1} \subseteq In(order)
        BY <3>1 DEF StandInv
      <4>. HIDE DEF n
      <4>3. /\ Len(order') = Len(order) + 1 /\ order'[Len(order) + 1] = n
            /\ \A k \in 1 .. Len(order) : order'[k] = order[k]
            /\ In(order') = In(order) \cup {n}
        BY <2>1, <3>2, <4>1, AppendOne
      <4>4. DOMAIN live' \subseteq In(order')
        BY <3>2, <4>3 DEF StandInv
      <4>5. at' <= Len(sorted') + 1 /\ {sorted'[i] : i \in 1 .. at' - 1} \subseteq In(order')
        <5>1. sorted' = sorted /\ n = sorted[at]
          BY <3>2 DEF DI!sortVars, n
        <5>2. \A i \in 1 .. at' - 1 : i \in 1 .. at - 1 \/ i = at
          BY <2>1, <3>2
        <5>. QED  BY <2>1, <3>1, <3>2, <4>2, <4>3, <5>1, <5>2
      <4>6. ASSUME OnceEach(order'), NEW k \in 1 .. Len(order'), order'[k] \in DOMAIN live'
            PROVE  live'[order'[k]] \subseteq {order'[j] : j \in 1 .. k - 1}
        <5>1. CASE k = Len(order) + 1
          BY <2>1, <3>2, <4>1, <4>2, <4>3, <5>1 DEF In
        <5>2. CASE k \in 1 .. Len(order)
          <6>1. OnceEach(order) /\ order[k] # n
            BY <2>1, <4>3, <4>6, <5>2 DEF OnceEach
          <6>2. order[k] \in DOMAIN live /\ live'[order'[k]] = live[order[k]]
            BY <3>2, <4>3, <4>6, <5>2, <6>1
          <6>3. live[order[k]] \subseteq {order[j] : j \in 1 .. k - 1}
            BY <5>2, <6>1, <6>2 DEF StandInv
          <6>. QED  BY <2>1, <4>3, <5>2, <6>2, <6>3
        <5>. QED  BY <2>1, <4>3, <4>6, <5>1, <5>2
      <4>. QED  BY <3>1, <3>2, <4>4, <4>5, <4>6 DEF StandInv
    <3>3. CASE DI!Unlock /\ UNCHANGED <<order, live>>
      BY <2>3, <3>3
    <3>4. CASE mu' = "deadlocked" /\ UNCHANGED <<order, live, at, DI!sortVars>>
      BY <2>2, <3>4
    <3>. QED  BY <2>6, <3>2, <3>3, <3>4 DEF DI!InitOne
  <2>7. CASE DI!ShutdownAll
    BY <2>1, <2>7 DEF DI!ShutdownAll, StandInv
  <2>8. CASE DI!ShutdownOne
    <3>1. mu = "closing" /\ at > 0 /\ UNCHANGED order
      BY <2>8 DEF DI!ShutdownOne
    <3>2. CASE /\ live' = [n \in DOMAIN live \ {order[at]} |-> live[n]]
               /\ at' = at - 1 /\ UNCHANGED mu
      <4>1. DOMAIN live' = DOMAIN live \ {order[at]} /\ \A n \in DOMAIN live' : live'[n] = live[n]
        BY <3>2
      <4>2. \A k \in at' + 1 .. Len(order) : k = at \/ k \in at + 1 .. Len(order)
        BY <2>1, <3>2
      <4>. QED  BY <2>1, <3>1, <3>2, <4>1, <4>2 DEF StandInv
    <3>3. CASE DI!Unlock /\ UNCHANGED live
      BY <2>3, <3>1, <3>3
    <3>. QED  BY <2>8, <3>2, <3>3 DEF DI!ShutdownOne
  <2>9. CASE UNCHANGED DI!vars
    BY <2>9 DEF DI!vars, StandInv
  <2>. QED  BY <2>4, <2>5, <2>6, <2>7, <2>8, <2>9 DEF DI!Next
<1>. QED  BY <1>1, <1>2, ContainerInvariant, PTL DEF DI!Spec

\* No provider is shut down under one that was initialised on top of it and is still live,
\* whatever failed or was replaced before, as long as no InitAll was repeated after one
\* that got anywhere (container.go:111).
THEOREM DependentsAreClosedFirst == LibSpec => DependentsClosedFirst
<1>1. ContainerTypes /\ StandInv /\ [DI!Next]_DI!vars
        => (DI!IsInjective(order) =>
              \A n \in DOMAIN live \ DOMAIN live' : \A m \in DOMAIN live' : n \notin live'[m])
  <2>. SUFFICES ASSUME ContainerTypes, StandInv, [DI!Next]_DI!vars, DI!IsInjective(order),
                       NEW n \in DOMAIN live \ DOMAIN live', NEW m \in DOMAIN live', n \in live'[m]
                PROVE  FALSE
    OBVIOUS
  <2>1. order \in Seq(Names) /\ Len(order) \in Nat /\ at \in Nat
    BY DEF ContainerTypes
  <2>2. OnceEach(order)
    BY <2>1 DEF DI!IsInjective, OnceEach
  <2>3. /\ DI!ShutdownOne
        /\ live' = [p \in DOMAIN live \ {order[at]} |-> live[p]]
    BY DEF DI!Next, DI!vars, DI!Register, DI!InitAll, DI!SortOne, DI!SortEnd, DI!InitOne, DI!InitEnd,
           DI!ShutdownAll, DI!ShutdownOne, DI!ShutdownEnd
  <2>4. n = order[at] /\ m # n /\ m \in DOMAIN live /\ n \in live[m]
    BY <2>3
  <2>5. PICK k \in 1 .. Len(order) : m = order[k]
    BY <2>4 DEF StandInv, In
  <2>6. mu = "closing" /\ at \in 1 .. Len(order)
    BY <2>1, <2>2, <2>3 DEF DI!ShutdownOne, StandInv
  <2>7. k < at
    BY <2>1, <2>2, <2>4, <2>5, <2>6 DEF StandInv
  <2>8. PICK j \in 1 .. k - 1 : n = order[j]
    BY <2>2, <2>4, <2>5 DEF StandInv
  <2>9. j \in 1 .. Len(order) /\ j < at /\ order[j] = order[at]
    BY <2>1, <2>4, <2>5, <2>6, <2>7, <2>8
  <2>10. j = at
    BY <2>2, <2>6, <2>9 DEF OnceEach
  <2>. QED  BY <2>1, <2>9, <2>10
<1>2. [](ContainerTypes /\ StandInv) /\ DI!Spec => DependentsClosedFirst
  BY <1>1, PTL DEF DI!Spec, DependentsClosedFirst, DI!DependentsClosedFirst
<1>. QED  BY <1>2, ContainerRuns, ContainerInvariant, StandInvariant, PTL

-----------------------------------------------------------------------------
(* core/balancer/balancer.go: even shares *)

\* A set of numbers has a least one.
LEMMA Smallest ==
  ASSUME NEW T, T \subseteq Nat, T # {}
  PROVE  \E x \in T : \A y \in T : x <= y
<1>1. PICK x \in T : \A y \in T : ~ (<<y, x>> \in OpToRel(<, Nat))
  BY WFMin, NatLessThanWellFounded, Zenon
<1>2. \A y \in T : ~(y < x)
  BY <1>1 DEF OpToRel
<1>. QED  BY <1>2

\* A multiple of a number that is nearer to zero than the number itself is zero.
LEMMA Small ==
  ASSUME NEW s \in Nat \ {0}, NEW d \in Int, -s < s * d, s * d < s
  PROVE  d = 0
<1>1. d >= 1 => s * d >= s
  OBVIOUS
<1>2. d <= -1 => s * d <= -s
  OBVIOUS
<1>. QED  BY <1>1, <1>2

\* The remainder of the number after n.
LEMMA NextRemainder ==
  ASSUME NEW s \in Nat \ {0}, NEW n \in Nat
  PROVE  /\ n % s \in 0..(s - 1)
         /\ (n + 1) % s = IF n % s = s - 1 THEN 0 ELSE (n % s) + 1
<1>. DEFINE q == n \div s
            r == n % s
            q2 == (n + 1) \div s
            r2 == (n + 1) % s
<1>1. q \in Int /\ r \in 0..(s - 1) /\ n = s * q + r
  OBVIOUS
<1>2. q2 \in Int /\ r2 \in 0..(s - 1) /\ n + 1 = s * q2 + r2
  OBVIOUS
<1>. HIDE DEF q, r, q2, r2
<1>3. CASE r = s - 1
  <2>1. s * (q2 - q - 1) = -r2
    BY <1>1, <1>2, <1>3
  <2>2. -s < s * (q2 - q - 1) /\ s * (q2 - q - 1) < s /\ q2 - q - 1 \in Int
    BY <1>1, <1>2, <2>1
  <2>3. q2 - q - 1 = 0
    BY <2>2, Small
  <2>4. r2 = 0
    BY <1>2, <2>1, <2>3
  <2>. QED  BY <1>1, <1>3, <2>4 DEF r, r2
<1>4. CASE r # s - 1
  <2>1. s * (q2 - q) = r + 1 - r2
    BY <1>1, <1>2
  <2>2. -s < s * (q2 - q) /\ s * (q2 - q) < s /\ q2 - q \in Int
    BY <1>1, <1>2, <1>4, <2>1
  <2>3. q2 - q = 0
    BY <2>2, Small
  <2>4. r2 = r + 1
    BY <1>1, <1>2, <2>1, <2>3
  <2>. QED  BY <1>1, <1>4, <2>4 DEF r, r2
<1>. QED  BY <1>3, <1>4

\* The calls that have drawn a number of instance i and not used it yet.
Owed(i) == {c \in Publishers : drawn[c] # LB!NotDrawn /\ drawn[c] % Size = i}

\* What instance i has had, or will have, of the rounds that are complete; the counter
\* begins as if it had given out 0.
Rounds(i) ==
  picks[i] + Cardinality(Owed(i)) + (IF i = 0 THEN 1 ELSE 0) - (IF i <= next % Size THEN 1 ELSE 0)

ShareTypes ==
  /\ strategy \in {"New", "RoundRobin", "WeightedRoundRobin", "LeastConnection"}
  /\ next \in 0..CounterMax
  /\ drawn \in [Publishers -> 0..(CounterMax + 1)]
  /\ connections \in [LB!Indices -> Nat]
  /\ picks \in [LB!Indices -> Nat]
  /\ wraps \in Nat

\* The counter favours the instances in front, by one each time it starts again.
RobinShares ==
  strategy \in {"New", "RoundRobin"} =>
    \A i, j \in LB!Indices : i <= j => Rounds(j) <= Rounds(i) /\ Rounds(i) <= Rounds(j) + wraps

\* Connections are never given back, and counted per call.
LeastShares ==
  /\ strategy # "RoundRobin" => \A c \in Publishers : drawn[c] = LB!NotDrawn
  /\ strategy \in {"New", "LeastConnection"} => picks = connections
  /\ strategy = "New" => \A i \in LB!Indices : connections[i] = 0
  /\ strategy = "LeastConnection" => \A i, j \in LB!Indices : connections[i] <= connections[j] + 1

ShareInv == ShareTypes /\ RobinShares /\ LeastShares

\* Finitely many calls are under way.
LEMMA OwedFinite == \A i : IsFiniteSet(Owed(i)) /\ Cardinality(Owed(i)) \in Nat
<1>1. \A i : Owed(i) \in SUBSET Publishers
  BY DEF Owed
<1>. QED  BY <1>1, CallersAssumption, FS_Subset, FS_CardinalityType

\* The invariant holds at first.
LEMMA SharesStart == LB!Init => ShareInv
<1>. SUFFICES ASSUME LB!Init PROVE ShareInv
  OBVIOUS
<1>. USE BalancerAssumption DEF LB!Init, LB!Indices, LB!NotDrawn
<1>1. ShareTypes
  BY DEF ShareTypes
<1>2. LeastShares
  BY DEF LeastShares
<1>3. ASSUME NEW i \in LB!Indices PROVE Rounds(i) = 0
  <2>1. Owed(i) = {}
    BY DEF Owed
  <2>2. Cardinality(Owed(i)) = 0
    BY <2>1, FS_EmptySet
  <2>3. next % Size = 0
    BY NextRemainder
  <2>. QED  BY <2>2, <2>3 DEF Rounds
<1>4. RobinShares
  BY <1>3 DEF RobinShares
<1>. QED  BY <1>1, <1>2, <1>4 DEF ShareInv

\* A call that draws a number owes it.
LEMMA DrawOwes ==
  ASSUME ShareInv, NEW c \in Publishers, LB!Draw(c)
  PROVE  \A i \in LB!Indices :
           Cardinality(Owed(i)') = Cardinality(Owed(i)) + (IF i = next' % Size THEN 1 ELSE 0)
<1>. USE BalancerAssumption DEF ShareInv, ShareTypes
<1>1. /\ drawn[c] = LB!NotDrawn /\ drawn' = [drawn EXCEPT ![c] = next']
      /\ next' = (next + 1) % (CounterMax + 1)
  BY DEF LB!Draw
<1>2. next' \in 0..CounterMax /\ next' # LB!NotDrawn
  BY <1>1, NextRemainder DEF LB!NotDrawn
<1>. TAKE i \in LB!Indices
<1>3. CASE i = next' % Size
  <2>1. Owed(i)' = Owed(i) \cup {c} /\ c \notin Owed(i)
    BY <1>1, <1>2, <1>3 DEF Owed, LB!NotDrawn
  <2>. QED  BY <1>3, <2>1, OwedFinite, FS_AddElement
<1>4. CASE i # next' % Size
  <2>1. Owed(i)' = Owed(i)
    BY <1>1, <1>2, <1>4 DEF Owed, LB!NotDrawn
  <2>. QED  BY <1>4, <2>1, OwedFinite
<1>. QED  BY <1>3, <1>4

\* Drawing a number keeps the shares even.
LEMMA SharesDraw ==
  ASSUME ShareInv, NEW c \in Publishers, LB!Draw(c)
  PROVE  ShareInv'
<1>. USE BalancerAssumption DEF ShareInv
<1>1. /\ strategy = "RoundRobin" /\ drawn' = [drawn EXCEPT ![c] = next']
      /\ next' = (next + 1) % (CounterMax + 1)
      /\ wraps' = (IF next' = 0 THEN wraps + 1 ELSE wraps)
      /\ UNCHANGED <<strategy, connections, picks>>
  BY DEF LB!Draw
<1>2. next \in 0..CounterMax /\ wraps \in Nat /\ picks \in [LB!Indices -> Nat]
  BY DEF ShareTypes
<1>3. next' = (IF next = CounterMax THEN 0 ELSE next + 1)
  <2>1. next % (CounterMax + 1) = next
    BY <1>2
  <2>2. CounterMax + 1 \in Nat \ {0} /\ next \in Nat
    BY <1>2
  <2>3. (next + 1) % (CounterMax + 1) =
          IF next % (CounterMax + 1) = (CounterMax + 1) - 1 THEN 0 ELSE (next % (CounterMax + 1)) + 1
    BY <2>2, NextRemainder
  <2>. QED  BY <1>1, <2>1, <2>3
<1>4. ShareTypes'
  <2>1. next' \in 0..CounterMax /\ wraps' \in Nat
    BY <1>1, <1>2, <1>3
  <2>2. drawn' \in [Publishers -> 0..(CounterMax + 1)]
    BY <1>1, <2>1 DEF ShareTypes
  <2>. QED  BY <1>1, <2>1, <2>2 DEF ShareTypes, LB!Indices
<1>5. LeastShares'
  BY <1>1 DEF LeastShares
<1>6. /\ next % Size \in 0..(Size - 1)
      /\ next' % Size = (IF next = CounterMax \/ next % Size = Size - 1 THEN 0 ELSE (next % Size) + 1)
  <2>1. next % Size \in 0..(Size - 1) /\ next \in Nat
        /\ (next + 1) % Size = IF next % Size = Size - 1 THEN 0 ELSE (next % Size) + 1
    <3>1. next \in Nat /\ Size \in Nat \ {0}
      BY <1>2
    <3>2. /\ next % Size \in 0..(Size - 1)
          /\ (next + 1) % Size = IF next % Size = Size - 1 THEN 0 ELSE (next % Size) + 1
      BY <3>1, NextRemainder
    <3>. QED  BY ONLY <3>1, <3>2
  <2>2. 0 % Size = 0
    OBVIOUS
  <2>. QED  BY <1>3, <2>1, <2>2
<1>7. \A i \in LB!Indices : Cardinality(Owed(i)') = Cardinality(Owed(i)) + (IF i = next' % Size THEN 1 ELSE 0)
  BY DrawOwes
<1>8. \A i \in LB!Indices : Cardinality(Owed(i)) \in Nat /\ picks[i] \in Nat /\ i \in 0..(Size - 1)
  BY <1>2, OwedFinite DEF LB!Indices
<1>9. RobinShares'
  <2>1. CASE next = CounterMax
    <3>1. \A i \in LB!Indices : Rounds(i)' = Rounds(i) + (IF i <= next % Size THEN 1 ELSE 0)
      BY <1>1, <1>6, <1>7, <1>8, <2>1 DEF Rounds
    <3>2. wraps' = wraps + 1
      BY <1>1, <1>3, <2>1
    <3>3. \A i \in LB!Indices : Rounds(i) \in Int
      BY <1>6, <1>8 DEF Rounds
    <3>4. \A i, j \in LB!Indices : i <= j => Rounds(j) <= Rounds(i) /\ Rounds(i) <= Rounds(j) + wraps
      BY <1>1 DEF RobinShares
    <3>5. ASSUME NEW i \in LB!Indices, NEW j \in LB!Indices, i <= j
          PROVE  Rounds(j)' <= Rounds(i)' /\ Rounds(i)' <= Rounds(j)' + wraps'
      <4>. HIDE DEF ShareInv
      <4>1. /\ Rounds(j) <= Rounds(i) /\ Rounds(i) <= Rounds(j) + wraps
            /\ Rounds(i) \in Int /\ Rounds(j) \in Int /\ i \in Int /\ j \in Int
            /\ j <= next % Size => i <= next % Size
        BY <1>6, <1>8, <3>3, <3>4, <3>5
      <4>2. /\ Rounds(i)' = Rounds(i) + (IF i <= next % Size THEN 1 ELSE 0)
            /\ Rounds(j)' = Rounds(j) + (IF j <= next % Size THEN 1 ELSE 0)
        BY <3>1
      <4>. HIDE DEF Rounds
      <4>. QED  BY ONLY <4>1, <4>2, <3>2, <1>2
    <3>. QED  BY <3>5 DEF RobinShares, LB!Indices
  <2>2. CASE next # CounterMax /\ next % Size = Size - 1
    <3>1. \A i \in LB!Indices : Rounds(i)' = Rounds(i) + 1
      BY <1>1, <1>6, <1>7, <1>8, <2>2 DEF Rounds
    <3>2. wraps' = wraps
      BY <1>1, <1>2, <1>3, <2>2
    <3>3. \A i \in LB!Indices : Rounds(i) \in Int
      BY <1>6, <1>8 DEF Rounds
    <3>4. \A i, j \in LB!Indices : i <= j => Rounds(j) <= Rounds(i) /\ Rounds(i) <= Rounds(j) + wraps
      BY <1>1 DEF RobinShares
    <3>5. ASSUME NEW i \in LB!Indices, NEW j \in LB!Indices, i <= j
          PROVE  Rounds(j)' <= Rounds(i)' /\ Rounds(i)' <= Rounds(j)' + wraps'
      <4>1. /\ Rounds(j) <= Rounds(i) /\ Rounds(i) <= Rounds(j) + wraps
            /\ Rounds(i) \in Int /\ Rounds(j) \in Int
        BY <3>3, <3>4, <3>5
      <4>2. Rounds(i)' = Rounds(i) + 1 /\ Rounds(j)' = Rounds(j) + 1
        BY <3>1
      <4>. QED  BY ONLY <4>1, <4>2, <3>2, <1>2
    <3>. QED  BY <3>5 DEF RobinShares, LB!Indices
  <2>3. CASE next # CounterMax /\ next % Size # Size - 1
    <3>1. \A i \in LB!Indices : Rounds(i)' = Rounds(i)
      BY <1>1, <1>6, <1>7, <1>8, <2>3 DEF Rounds
    <3>2. wraps' = wraps
      BY <1>1, <1>2, <1>3, <2>3
    <3>. QED  BY <1>1, <3>1, <3>2 DEF RobinShares, LB!Indices
  <2>. QED  BY <2>1, <2>2, <2>3
<1>. QED  BY <1>4, <1>5, <1>9

\* Using it keeps them too.
LEMMA SharesRobin ==
  ASSUME ShareInv, NEW c \in Publishers, LB!RoundRobin(c)
  PROVE  ShareInv'
<1>. USE BalancerAssumption DEF ShareInv
<1>0. PICK d : d = drawn[c] % Size
  OBVIOUS
<1>1. /\ drawn[c] # LB!NotDrawn /\ picks' = [picks EXCEPT ![d] = @ + 1]
      /\ drawn' = [drawn EXCEPT ![c] = LB!NotDrawn] /\ UNCHANGED <<strategy, next, connections, wraps>>
  BY <1>0 DEF LB!RoundRobin, LB!Pick
<1>2. /\ drawn[c] \in Nat /\ picks \in [LB!Indices -> Nat] /\ strategy = "RoundRobin"
      /\ drawn \in [Publishers -> 0..(CounterMax + 1)] /\ next \in Nat
  BY <1>1 DEF ShareTypes, LeastShares
<1>3. d \in LB!Indices
  BY <1>0, <1>2, NextRemainder DEF LB!Indices
<1>4. Owed(d)' = Owed(d) \ {c} /\ c \in Owed(d) /\ \A i \in LB!Indices \ {d} : Owed(i)' = Owed(i)
  <2>1. drawn' \in [Publishers -> 0..(CounterMax + 1)] /\ drawn'[c] = CounterMax + 1
        /\ \A x \in Publishers \ {c} : drawn'[x] = drawn[x]
    BY <1>1, <1>2 DEF LB!NotDrawn
  <2>2. c \in Owed(d) /\ \A i \in LB!Indices \ {d} : c \notin Owed(i)
    BY <1>0, <1>1 DEF Owed
  <2>3. \A i : Owed(i)' = Owed(i) \ {c}
    BY <2>1 DEF Owed, LB!NotDrawn
  <2>. QED  BY <2>2, <2>3
<1>5. Cardinality(Owed(d)') = Cardinality(Owed(d)) - 1
  BY <1>4, OwedFinite, FS_RemoveElement
<1>6. picks'[d] = picks[d] + 1 /\ \A i \in LB!Indices \ {d} : picks'[i] = picks[i]
  BY <1>1, <1>2, <1>3
<1>7. ASSUME NEW i \in LB!Indices PROVE Rounds(i)' = Rounds(i)
  <2>1. picks'[i] + Cardinality(Owed(i)') = picks[i] + Cardinality(Owed(i))
    <3>1. Cardinality(Owed(d)) \in Nat /\ picks[d] \in Nat
      BY <1>2, <1>3, OwedFinite
    <3>2. CASE i = d
      BY <1>5, <1>6, <3>1, <3>2
    <3>3. CASE i # d
      BY <1>4, <1>6, <3>3
    <3>. QED  BY <3>2, <3>3
  <2>. QED  BY <1>1, <2>1 DEF Rounds
<1>8. ShareTypes'
  <2>1. drawn' \in [Publishers -> 0..(CounterMax + 1)]
    BY <1>1, <1>2 DEF LB!NotDrawn
  <2>2. picks' \in [LB!Indices -> Nat]
    BY <1>1, <1>2, <1>3
  <2>. QED  BY <1>1, <2>1, <2>2 DEF ShareTypes, LB!Indices
<1>9. LeastShares'
  BY <1>1, <1>2 DEF LeastShares
<1>10. RobinShares'
  BY <1>1, <1>7 DEF RobinShares, LB!Indices
<1>. QED  BY <1>8, <1>9, <1>10

\* There is a first instance with the fewest connections.
LEMMA LeastExists ==
  ASSUME connections \in [LB!Indices -> Nat]
  PROVE  LB!Least \in LB!Indices /\ \A j \in LB!Indices : connections[LB!Least] <= connections[j]
<1>. DEFINE counts == {connections[i] : i \in LB!Indices}
<1>1. 0 \in LB!Indices /\ LB!Indices \subseteq Nat
  BY BalancerAssumption DEF LB!Indices
<1>2. counts \subseteq Nat /\ counts # {}
  BY <1>1
<1>3. PICK v \in counts : \A y \in counts : v <= y
  BY <1>2, Smallest
<1>. DEFINE those == {i \in LB!Indices : connections[i] = v}
<1>4. those \subseteq Nat /\ those # {}
  BY <1>1
<1>5. PICK i \in those : \A j \in those : i <= j
  BY <1>4, Smallest
<1>6. \A j \in LB!Indices : connections[i] <= connections[j]
  BY <1>3, <1>5
<1>7. \A j \in 0..(i - 1) : connections[i] < connections[j]
  <2>. TAKE j \in 0..(i - 1)
  <2>1. j \in LB!Indices /\ ~(i <= j)
    <3>1. i \in 0..(Size - 1)
      BY <1>5 DEF LB!Indices
    <3>. QED  BY <3>1, BalancerAssumption DEF LB!Indices
  <2>2. connections[j] # v /\ connections[i] = v
    BY <1>5, <2>1
  <2>. QED  BY <1>6, <2>1, <2>2
<1>. HIDE DEF those, counts
<1>8. i \in LB!Indices
  BY <1>5 DEF those
<1>. QED  BY <1>6, <1>7, <1>8, Zenon DEF LB!Least

\* Counting a call leaves counts.
LEMMA PickTypes ==
  ASSUME NEW I, NEW f \in [I -> Nat], NEW x
  PROVE  [f EXCEPT ![x] = @ + 1] \in [I -> Nat]
<1>1. CASE x \in I
  BY <1>1
<1>2. CASE x \notin I
  BY <1>2
<1>. QED  BY <1>1, <1>2

\* The strategies under the mutex keep the invariant.
LEMMA SharesLocked ==
  ASSUME ShareInv, LB!New \/ LB!LeastConnection \/ LB!WeightedRoundRobin
  PROVE  ShareInv'
<1>. USE DEF ShareInv
<1>1. CASE LB!New
  <2>1. /\ strategy = "New" /\ UNCHANGED <<next, drawn, connections, picks, wraps>>
        /\ strategy' \in {"RoundRobin", "WeightedRoundRobin", "LeastConnection"}
    BY <1>1 DEF LB!New
  <2>2. ShareTypes'
    BY <2>1 DEF ShareTypes, LB!Indices
  <2>3. LeastShares'
    BY <2>1 DEF LeastShares, LB!Indices, LB!NotDrawn
  <2>4. RobinShares'
    <3>1. \A i : Owed(i)' = Owed(i)
      BY <2>1 DEF Owed, LB!NotDrawn
    <3>2. \A i : Rounds(i)' = Rounds(i)
      BY <2>1, <3>1 DEF Rounds
    <3>. QED  BY <2>1, <3>2 DEF RobinShares, LB!Indices
  <2>. QED  BY <2>2, <2>3, <2>4
<1>2. CASE LB!LeastConnection
  <2>. DEFINE l == LB!Least
  <2>1. /\ strategy = "LeastConnection" /\ picks' = [picks EXCEPT ![l] = @ + 1]
        /\ connections' = [connections EXCEPT ![l] = @ + 1]
        /\ UNCHANGED <<strategy, next, drawn, wraps>>
    BY <1>2 DEF LB!LeastConnection, LB!Pick
  <2>2. l \in LB!Indices /\ \A j \in LB!Indices : connections[l] <= connections[j]
    BY LeastExists DEF ShareTypes
  <2>. HIDE DEF l
  <2>3. ShareTypes'
    BY <2>1, <2>2 DEF ShareTypes, LB!Indices
  <2>4. connections \in [LB!Indices -> Nat] /\ picks = connections
        /\ \A i, j \in LB!Indices : connections[i] <= connections[j] + 1
    BY <2>1 DEF ShareTypes, LeastShares
  <2>5. \A i, j \in LB!Indices : connections'[i] <= connections'[j] + 1
    BY <2>1, <2>2, <2>4
  <2>6. LeastShares'
    BY <2>1, <2>4, <2>5 DEF LeastShares, LB!Indices, LB!NotDrawn
  <2>7. RobinShares'
    BY <2>1 DEF RobinShares
  <2>. QED  BY <2>3, <2>6, <2>7
<1>3. CASE LB!WeightedRoundRobin
  <2>1. /\ strategy = "WeightedRoundRobin" /\ picks' = [picks EXCEPT ![LB!Heaviest] = @ + 1]
        /\ UNCHANGED <<strategy, next, drawn, connections, wraps>>
    BY <1>3 DEF LB!WeightedRoundRobin, LB!Pick
  <2>2. picks' \in [LB!Indices -> Nat]
    <3>1. picks \in [LB!Indices -> Nat]
      BY DEF ShareTypes
    <3>. QED  BY <2>1, <3>1, PickTypes
  <2>3. ShareTypes' /\ LeastShares' /\ RobinShares'
    BY <2>1, <2>2 DEF ShareTypes, LeastShares, RobinShares, LB!Indices, LB!NotDrawn
  <2>. QED  BY <2>3
<1>. QED  BY <1>1, <1>2, <1>3

\* Every step of the balancer keeps the invariant.
LEMMA SharesStep == ShareInv /\ [LB!Next]_(LB!vars) => ShareInv'
<1>. SUFFICES ASSUME ShareInv, [LB!Next]_(LB!vars) PROVE ShareInv'
  OBVIOUS
<1>1. CASE UNCHANGED LB!vars
  BY <1>1 DEF LB!vars, ShareInv, ShareTypes, RobinShares, LeastShares, Rounds, Owed, LB!Indices, LB!NotDrawn
<1>. QED  BY <1>1, SharesDraw, SharesRobin, SharesLocked DEF LB!Next

\* A behaviour of MCLibrary is one of the balancer.
LEMMA BalancerRuns == LibSpec => LB!Spec
<1>1. LibInit => LB!Init
  BY DEF LibInit
<1>2. [LibNext]_libVars => [LB!Next]_(LB!vars)
  BY DEF LibNext, libVars, AppNext, NetNext, BaseNext, appVars, netVars, baseVars, lbVars, LB!vars
<1>. QED  BY <1>1, <1>2, PTL DEF LibSpec, LB!Spec

\* Between calls no instance has had more than one call more than another, and one more for
\* each time the counter started again, for any number of callers and instances and a
\* counter of any width (balancer.go:60-96).
THEOREM SharesStayEven == LibSpec => []EvenShares
<1>1. ShareInv => EvenShares
  <2>. SUFFICES ASSUME ShareInv, LB!InFlight = {}, strategy # "WeightedRoundRobin",
                       NEW i \in LB!Indices, NEW j \in LB!Indices
                PROVE  picks[i] <= picks[j] + 1 + wraps
    BY DEF EvenShares, LB!EvenShares
  <2>. USE DEF ShareInv
  <2>1. picks[i] \in Nat /\ picks[j] \in Nat /\ wraps \in Nat /\ i \in Nat /\ j \in Nat
    BY BalancerAssumption DEF ShareTypes, LB!Indices
  <2>2. CASE strategy = "LeastConnection"
    <3>1. picks = connections /\ picks[i] <= picks[j] + 1
      BY <2>2 DEF LeastShares
    <3>. QED  BY <2>1, <3>1
  <2>3. CASE strategy # "LeastConnection"
    <3>1. strategy \in {"New", "RoundRobin"}
      BY <2>3 DEF ShareTypes
    <3>2. Cardinality(Owed(i)) = 0 /\ Cardinality(Owed(j)) = 0
      <4>1. Owed(i) = {} /\ Owed(j) = {}
        BY DEF Owed, LB!InFlight
      <4>. QED  BY <4>1, FS_EmptySet
    <3>3. CASE i <= j
      <4>1. Rounds(i) <= Rounds(j) + wraps
        BY <3>1, <3>3 DEF RobinShares
      <4>. QED  BY <2>1, <3>2, <3>3, <4>1 DEF Rounds
    <3>4. CASE j <= i
      <4>1. Rounds(i) <= Rounds(j)
        BY <3>1, <3>4 DEF RobinShares
      <4>2. next % Size \in Nat
        <5>1. next \in Nat
          BY DEF ShareTypes
        <5>. QED  BY <5>1, BalancerAssumption, NextRemainder
      <4>. QED  BY <2>1, <3>2, <3>4, <4>1, <4>2 DEF Rounds
    <3>. QED  BY <2>1, <3>3, <3>4
  <2>. QED  BY <2>2, <2>3
<1>. QED  BY <1>1, SharesStart, SharesStep, BalancerRuns, PTL DEF LB!Spec
-----------------------------------------------------------------------------
(* The circuit breaker that one goroutine uses.  Its promises are proved in module *)
(* CircuitBreakerProofs for any settings; One is that module for the breaker CB.   *)

One == INSTANCE CircuitBreakerProofs WITH
  Callers <- {NoObserver}, NoCaller <- "nobody",
  MaxConcurrent <- 2, MinRequests <- 2, ErrNum <- 1, ErrDen <- 2,
  BucketTicks <- 1, SleepWindow <- 2, MaxTotal <- 3,
  state <- brkState, mu <- brkMu, buckets <- brkBuckets

\* The instance of CircuitBreaker and that of its theorems say the same.
LEMMA SameDecisions ==
  /\ \A bs : CB!shouldOpen(bs) <=> One!shouldOpen(bs)
  /\ \A b : CB!shouldClose(b) <=> One!shouldClose(b)
<1>1. \A bs : CB!TotalFailures(bs) = One!TotalFailures(bs)
  BY DEF CB!TotalFailures, One!TotalFailures, CB!MapThenSumSet, One!MapThenSumSet,
         CB!MapThenFoldSet, One!MapThenFoldSet, CB!BucketIds, One!BucketIds
<1>2. \A bs : CB!TotalRequests(bs) = One!TotalRequests(bs)
  BY DEF CB!TotalRequests, One!TotalRequests, CB!MapThenSumSet, One!MapThenSumSet,
         CB!MapThenFoldSet, One!MapThenFoldSet, CB!BucketIds, One!BucketIds, CB!Total, One!Total
<1>. QED
  BY <1>1, <1>2 DEF CB!shouldOpen, One!shouldOpen, CB!shouldClose, One!shouldClose,
     CB!AboveErrorRate, One!AboveErrorRate, CB!Total, One!Total

\* They record an outcome alike.
LEMMA SameRecord == \A ok : CB!Record(ok) <=> One!Record(ok)
BY DEF CB!Record, One!Record, CB!alignBucket, One!alignBucket, CB!targetIdx, One!targetIdx,
   CB!Counted, One!Counted, CB!Total, One!Total, CB!EmptyBucket, One!EmptyBucket

\* They admit a call alike.
LEMMA SameAllow == \A c : CB!Allow(c) <=> One!Allow(c)
<1>. USE DEF CB!Goto, One!Goto, CB!sharedVars, One!sharedVars, CB!ghosts, One!ghosts
<1>1. \A c : CB!AllowLoadState(c) <=> One!AllowLoadState(c)
  BY DEF CB!AllowLoadState, One!AllowLoadState
<1>2. \A c : CB!AllowReadOpenedAt(c) <=> One!AllowReadOpenedAt(c)
  BY DEF CB!AllowReadOpenedAt, One!AllowReadOpenedAt
<1>3. \A c : CB!AllowAsleep(c) <=> One!AllowAsleep(c)
  BY DEF CB!AllowAsleep, One!AllowAsleep
<1>4. \A c : CB!AllowStoreHalfOpen(c) <=> One!AllowStoreHalfOpen(c)
  BY DEF CB!AllowStoreHalfOpen, One!AllowStoreHalfOpen
<1>5. \A c : CB!AllowAddTicket(c) <=> One!AllowAddTicket(c)
  BY DEF CB!AllowAddTicket, One!AllowAddTicket
<1>6. \A c : CB!AllowUndoTicket(c) <=> One!AllowUndoTicket(c)
  BY DEF CB!AllowUndoTicket, One!AllowUndoTicket
<1>. QED  BY <1>1, <1>2, <1>3, <1>4, <1>5, <1>6, Zenon DEF CB!Allow, One!Allow

\* They report a call's end alike.
LEMMA SameReport == \A c : CB!Report(c) <=> One!Report(c)
<1>. USE DEF CB!Goto, One!Goto, CB!ghosts, One!ghosts
<1>1. \A c : CB!OnSuccess(c) <=> One!OnSuccess(c)
  BY SameRecord, SameDecisions, Zenon DEF CB!OnSuccess, One!OnSuccess, CB!Decide, One!Decide, CB!InCall, One!InCall
<1>2. \A c : CB!OnFailure(c) <=> One!OnFailure(c)
  BY SameRecord, SameDecisions, Zenon DEF CB!OnFailure, One!OnFailure, CB!Decide, One!Decide, CB!InCall, One!InCall
<1>3. \A c : CB!StoreState(c) <=> One!StoreState(c)
  BY DEF CB!StoreState, One!StoreState
<1>4. \A c : CB!Finish(c) <=> One!Finish(c)
  BY DEF CB!Finish, One!Finish, CB!Finishing, One!Finishing
<1>. QED  BY <1>1, <1>2, <1>3, <1>4, Zenon DEF CB!Report, One!Report

\* A behaviour of CB is one of One.
LEMMA SameBreaker == CB!Spec => One!Spec
<1>1. CB!Init => One!Init
  BY DEF CB!Init, One!Init, CB!BucketIds, One!BucketIds, CB!EmptyBucket, One!EmptyBucket,
     CB!Window, One!Window
<1>2. CB!Tick <=> One!Tick
  BY DEF CB!Tick, One!Tick, CB!Window, One!Window, CB!Older, One!Older, CB!ghosts, One!ghosts
<1>3. \A c : CB!CallAbandoned(c) <=> One!CallAbandoned(c)
  BY DEF CB!CallAbandoned, One!CallAbandoned, CB!Goto, One!Goto, CB!InCall, One!InCall,
     CB!sharedVars, One!sharedVars, CB!ghosts, One!ghosts
<1>4. \A c : CB!Reset(c) <=> One!Reset(c)
  BY DEF CB!Reset, One!Reset, CB!Goto, One!Goto, CB!BucketIds, One!BucketIds,
     CB!EmptyBucket, One!EmptyBucket, CB!ghosts, One!ghosts
<1>5. [CB!Next]_CB!vars => [One!Next]_One!vars
  BY <1>2, <1>3, <1>4, SameAllow, SameReport, Zenon DEF CB!Next, One!Next, CB!vars, One!vars
<1>. QED  BY <1>1, <1>5, PTL DEF CB!Spec, One!Spec

\* A behaviour of MCLibrary is one of CB.
LEMMA BreakerRuns == LibSpec => CB!Spec
<1>1. LibInit => CB!Init
  BY DEF LibInit
<1>2. [LibNext]_libVars => [CB!Next]_CB!vars
  BY DEF LibNext, libVars, AppNext, NetNext, BaseNext, appVars, netVars, baseVars, cbVars, CB!vars
<1>. QED  BY <1>1, <1>2, PTL DEF LibSpec, CB!Spec

\* The breaker that one goroutine uses keeps the promises of module Breaker.
THEOREM OneCallerKeepsPromises == LibSpec => KeepsPromises
<1>1. One!CallersAssumption /\ One!ConfigAssumption
  <2>1. One!IsFiniteSet({NoObserver}) <=> IsFiniteSet({NoObserver})
    BY DEF One!IsFiniteSet, IsFiniteSet
  <2>2. IsFiniteSet({NoObserver})
    BY FS_Singleton
  <2>. QED  BY <2>1, <2>2, BreakerAssumption DEF One!CallersAssumption, One!ConfigAssumption
<1>2. One!Spec => One!KeepsPromises
  BY <1>1, One!AloneItKeepsItsPromises
<1>3. One!Abstract!Init => CB!Abstract!Init
  BY DEF One!Abstract!Init, CB!Abstract!Init
<1>4. [One!Abstract!Next]_One!Abstract!vars => [CB!Abstract!Next]_CB!Abstract!vars
  BY DEF One!Abstract!Next, CB!Abstract!Next, One!Abstract!vars, CB!Abstract!vars,
     One!Abstract!OpenUp, CB!Abstract!OpenUp, One!Abstract!WakeUp, CB!Abstract!WakeUp,
     One!Abstract!Probe, CB!Abstract!Probe, One!Abstract!CloseDown, CB!Abstract!CloseDown,
     One!Abstract!Tick, CB!Abstract!Tick
<1>5. One!KeepsPromises => CB!KeepsPromises
  BY <1>3, <1>4, PTL DEF One!KeepsPromises, CB!KeepsPromises, One!Abstract!Spec, CB!Abstract!Spec
<1>. QED  BY <1>2, <1>5, SameBreaker, BreakerRuns, PTL DEF KeepsPromises

-----------------------------------------------------------------------------
(* generator/gateway_generator.go: an upstream that never answers *)

Slots == 0 .. BucketCount - 1

\* The sums over the first n buckets.
IsSum(sum, counts, n) ==
  sum = [m \in 0 .. n |-> IF m = 0 THEN 0 ELSE sum[m - 1] + counts[m - 1]]

\* The loop over the buckets ends, and has added them up.
LEMMA SumsExist ==
  ASSUME NEW counts, NEW n \in Nat
  PROVE  \E sum : IsSum(sum, counts, n)
<1>. DEFINE T == {m \in Nat : ~ \E sum : IsSum(sum, counts, m)}
<1>1. SUFFICES ASSUME T # {}  PROVE FALSE
  OBVIOUS
<1>2. PICK least \in T : \A m \in T : least <= m
  BY <1>1, Smallest
<1>3. CASE least = 0
  <2>1. IsSum([m \in 0 .. 0 |-> 0], counts, 0)
    BY DEF IsSum
  <2>. QED  BY <1>3, <2>1
<1>4. CASE least # 0
  <2>1. least - 1 \in Nat /\ least - 1 \notin T
    BY <1>2, <1>4
  <2>2. PICK sum : IsSum(sum, counts, least - 1)
    BY <2>1
  <2>. DEFINE longer == [m \in 0 .. least |-> IF m = 0 THEN 0 ELSE sum[m - 1] + counts[m - 1]]
  <2>3. \A m \in 0 .. least - 1 : longer[m] = sum[m]
    BY <1>2, <2>2 DEF IsSum
  <2>4. \A m \in 0 .. least : m # 0 => m - 1 \in 0 .. least - 1
    BY <1>2
  <2>5. longer = [m \in 0 .. least |-> IF m = 0 THEN 0 ELSE longer[m - 1] + counts[m - 1]]
    BY <2>3, <2>4
  <2>6. IsSum(longer, counts, least)
    BY <2>5 DEF IsSum
  <2>. QED  BY <1>2, <2>6
<1>. QED  BY <1>3, <1>4

\* What SumBuckets adds up.
LEMMA SumIs ==
  ASSUME NEW counts
  PROVE  \E sum : IsSum(sum, counts, BucketCount) /\ GW!SumBuckets(counts) = sum[BucketCount]
<1>. DEFINE sum == CHOOSE s : IsSum(s, counts, BucketCount)
<1>1. IsSum(sum, counts, BucketCount)
  BY SumsExist, BreakerAssumption
<1>2. GW!SumBuckets(counts) = sum[BucketCount]
  BY DEF GW!SumBuckets, IsSum
<1>. QED  BY <1>1, <1>2

\* Where no bucket has more reports than twice its failures, and one has fewer, the sums do too.
LEMMA MoreFailures ==
  ASSUME NEW failures \in [Slots -> Nat], NEW total \in [Slots -> Nat], NEW s \in Slots,
         \A i \in Slots : total[i] <= 2 * failures[i],
         total[s] < 2 * failures[s]
  PROVE  GW!SumBuckets(total) < 2 * GW!SumBuckets(failures)
<1>1. PICK f : IsSum(f, failures, BucketCount) /\ GW!SumBuckets(failures) = f[BucketCount]
  BY SumIs
<1>2. PICK t : IsSum(t, total, BucketCount) /\ GW!SumBuckets(total) = t[BucketCount]
  BY SumIs
<1>. DEFINE Ahead(n) == /\ f[n] \in Nat /\ t[n] \in Nat
                        /\ t[n] <= 2 * f[n]
                        /\ s < n => t[n] < 2 * f[n]
            T == {m \in Nat : m <= BucketCount /\ ~ Ahead(m)}
<1>3. BucketCount \in Nat \ {0}
  BY BreakerAssumption
<1>4. T = {}
  <2>1. SUFFICES ASSUME T # {}  PROVE FALSE
    OBVIOUS
  <2>2. PICK least \in T : \A m \in T : least <= m
    BY <2>1, Smallest
  <2>3. CASE least = 0
    <3>1. 0 \in 0 .. BucketCount
      BY <1>3
    <3>2. f[0] = 0 /\ t[0] = 0
      BY <1>1, <1>2, <3>1 DEF IsSum
    <3>. QED  BY <2>2, <2>3, <3>2 DEF Slots
  <2>4. CASE least # 0
    <3>1. least - 1 \in Nat /\ least \in 0 .. BucketCount /\ least - 1 \in Slots /\ Ahead(least - 1)
      BY <1>3, <2>2, <2>4 DEF Slots
    <3>2. f[least] = f[least - 1] + failures[least - 1] /\ t[least] = t[least - 1] + total[least - 1]
      BY <1>1, <1>2, <2>4, <3>1 DEF IsSum
    <3>3. failures[least - 1] \in Nat /\ total[least - 1] \in Nat /\ total[least - 1] <= 2 * failures[least - 1]
      BY <3>1
    <3>4. s < least => s < least - 1 \/ s = least - 1
      BY <3>1 DEF Slots
    <3>5. Ahead(least)
      BY <3>1, <3>2, <3>3, <3>4
    <3>. QED  BY <2>2, <3>5
  <2>. QED  BY <2>3, <2>4
<1>5. s < BucketCount
  BY <1>3 DEF Slots
<1>6. Ahead(BucketCount)
  <2>. HIDE DEF Ahead
  <2>. QED  BY <1>3, <1>4
<1>. QED  BY <1>1, <1>2, <1>5, <1>6

IsWindow(b) ==
  /\ b = [field \in {"state", "slept", "bucketIdx", "buckets"} |-> b[field]]
  /\ b.bucketIdx \in Slots
  /\ b.buckets \in [Slots -> [failures : Nat, total : Nat]]

\* Bucket s as a report finds it, emptied unless it is the current one.
Found(b, s) == IF b.bucketIdx = s THEN b.buckets[s] ELSE GW!EmptyBucket

\* Breaker a is what b has become by a report of that many failures in bucket s.
Reported(b, a, s, failures) ==
  /\ IsWindow(a)
  /\ a.bucketIdx = s
  /\ a.buckets = [b.buckets EXCEPT ![s] = [failures |-> Found(b, s).failures + failures,
                                           total |-> Found(b, s).total + 1]]

LEMMA Aligned ==
  ASSUME NEW b, IsWindow(b), NEW s \in Slots
  PROVE  /\ IsWindow(GW!Align(b, s))
         /\ GW!Align(b, s).bucketIdx = s
         /\ GW!Align(b, s).buckets = [b.buckets EXCEPT ![s] = Found(b, s)]
<1>1. CASE s = b.bucketIdx
  BY <1>1 DEF GW!Align, IsWindow, Found
<1>2. CASE s # b.bucketIdx
  BY <1>2 DEF GW!Align, IsWindow, Found, GW!EmptyBucket
<1>. QED  BY <1>1, <1>2

LEMMA SuccessReported ==
  ASSUME NEW b, IsWindow(b), NEW s \in Slots
  PROVE  Reported(b, GW!OnSuccess(b, s), s, 0)
<1>. DEFINE aligned == GW!Align(b, s)
            counted == [aligned EXCEPT !.buckets[s].total = @ + 1]
<1>1. /\ IsWindow(aligned) /\ aligned.bucketIdx = s
      /\ aligned.buckets = [b.buckets EXCEPT ![s] = Found(b, s)]
  BY Aligned
<1>2. GW!OnSuccess(b, s) = IF counted.state = "HalfOpen" /\ GW!ShouldClose(counted)
                           THEN [counted EXCEPT !.state = "Closed"] ELSE counted
  BY DEF GW!OnSuccess
<1>3. Found(b, s) \in [failures : Nat, total : Nat]
  BY DEF Found, IsWindow, GW!EmptyBucket
<1>. HIDE DEF aligned
<1>4. Reported(b, counted, s, 0)
  <2>1. counted = [field \in {"state", "slept", "bucketIdx", "buckets"} |-> counted[field]]
    BY <1>1 DEF IsWindow
  <2>2. counted.buckets = [aligned.buckets EXCEPT ![s].total = @ + 1] /\ counted.bucketIdx = s
    BY <1>1 DEF IsWindow
  <2>3. aligned.buckets[s] = Found(b, s)
    BY <1>1 DEF IsWindow
  <2>4. counted.buckets = [b.buckets EXCEPT ![s] = [failures |-> Found(b, s).failures + 0,
                                                    total |-> Found(b, s).total + 1]]
    BY <1>1, <1>3, <2>2, <2>3 DEF IsWindow
  <2>5. counted.buckets \in [Slots -> [failures : Nat, total : Nat]]
    <3>1. [failures |-> Found(b, s).failures + 0, total |-> Found(b, s).total + 1]
            \in [failures : Nat, total : Nat]
      BY <1>3
    <3>2. b.buckets \in [Slots -> [failures : Nat, total : Nat]]
      BY DEF IsWindow
    <3>3. \A x \in [failures : Nat, total : Nat] :
            [b.buckets EXCEPT ![s] = x] \in [Slots -> [failures : Nat, total : Nat]]
      BY <3>2, Zenon
    <3>. QED  BY <2>4, <3>1, <3>3, Zenon
  <2>. QED  BY <2>1, <2>2, <2>4, <2>5 DEF IsWindow, Reported
<1>. HIDE DEF counted
<1>. QED  BY <1>2, <1>4 DEF IsWindow, Reported

LEMMA FailureReported ==
  ASSUME NEW b, IsWindow(b), NEW s \in Slots
  PROVE  /\ Reported(b, GW!OnFailure(b, s), s, 1)
         /\ GW!OnFailure(b, s).state = "Open" \/ ~ GW!ShouldOpen(GW!OnFailure(b, s))
<1>. DEFINE aligned == GW!Align(b, s)
            counted == [aligned EXCEPT !.buckets[s].total = @ + 1, !.buckets[s].failures = @ + 1]
<1>1. /\ IsWindow(aligned) /\ aligned.bucketIdx = s
      /\ aligned.buckets = [b.buckets EXCEPT ![s] = Found(b, s)]
  BY Aligned
<1>2. GW!OnFailure(b, s) = IF counted.state = "HalfOpen" \/ GW!ShouldOpen(counted)
                           THEN GW!Opened(counted) ELSE counted
  BY DEF GW!OnFailure
<1>3. Found(b, s) \in [failures : Nat, total : Nat]
  BY DEF Found, IsWindow, GW!EmptyBucket
<1>. HIDE DEF aligned
<1>4. Reported(b, counted, s, 1)
  BY <1>1, <1>3 DEF IsWindow, Reported
<1>. HIDE DEF counted
<1>. QED  BY <1>2, <1>4 DEF IsWindow, Reported, GW!Opened

Steps == {"idle", "global", "service", "shed", "breaker", "discover", "proxy", "served", "failed"}

GateTypes ==
  /\ step \in [Requests -> Steps]
  /\ slot \in Slots
  /\ IsWindow(breaker)

\* The requests whose error is reported as a failure, and not yet as a success.
Failing == {r \in Requests : step[r] = "failed"}

\* At least half of the reports of each bucket are failures.
Balanced == \A i \in Slots : breaker.buckets[i].total <= 2 * breaker.buckets[i].failures

\* In the current one the successes that are still to be reported fit in too.
Owing ==
  breaker.bucketIdx = slot =>
    breaker.buckets[slot].total + Cardinality(Failing) <= 2 * breaker.buckets[slot].failures

\* An upstream that has answered nobody, whose errors were reported within one bucket each.
GateInv ==
  \/ reached \/ straddled
  \/ /\ \A r \in Requests : step[r] # "served"
     /\ Failing # {} => breaker.bucketIdx = slot
     /\ Balanced
     /\ Owing

\* There are finitely many requests.
LEMMA FailingFinite == \A T \in SUBSET Requests : IsFiniteSet(T) /\ Cardinality(T) \in Nat
BY RequestsAssumption, FS_Subset, FS_CardinalityType

\* A failure of request r, which owes a success after it, or, for a URL it cannot use, nothing.
LEMMA FailureOwed ==
  ASSUME GateTypes, Balanced, Owing, Failing # {} => breaker.bucketIdx = slot,
         NEW r \in Requests, step[r] = "proxy", breaker' = GW!OnFailure(breaker, slot), slot' = slot,
         Failing' = Failing \cup {r} \/ Failing' = Failing
  PROVE  breaker'.bucketIdx = slot' /\ Balanced' /\ Owing'
<1>1. Reported(breaker, breaker', slot, 1)
  BY FailureReported DEF GateTypes
<1>2. r \notin Failing /\ Failing \in SUBSET Requests
  BY DEF Failing
<1>3. Cardinality(Failing') \in Nat /\ Cardinality(Failing) \in Nat
      /\ Cardinality(Failing') <= Cardinality(Failing) + 1
  BY <1>2, FailingFinite, FS_AddElement
<1>4. breaker.bucketIdx # slot => Cardinality(Failing) = 0
  BY FS_EmptySet
<1>. DEFINE found == Found(breaker, slot)
<1>5. /\ found.total \in Nat /\ found.failures \in Nat
      /\ found.total + Cardinality(Failing) <= 2 * found.failures
  BY <1>3, <1>4 DEF Owing, GateTypes, IsWindow, Found, GW!EmptyBucket
<1>6. /\ breaker'.buckets[slot].total = found.total + 1
      /\ breaker'.buckets[slot].failures = found.failures + 1
      /\ \A i \in Slots : i # slot => breaker'.buckets[i] = breaker.buckets[i]
  BY <1>1 DEF Reported, GateTypes, IsWindow
<1>. HIDE DEF found
<1>7. Balanced'
  BY <1>3, <1>5, <1>6 DEF Balanced
<1>8. Owing'
  BY <1>3, <1>5, <1>6 DEF Owing
<1>. QED  BY <1>1, <1>7, <1>8 DEF Reported

\* The success that request r owed.
LEMMA SuccessPays ==
  ASSUME GateTypes, Balanced, Owing, breaker.bucketIdx = slot,
         NEW r \in Failing, breaker' = GW!OnSuccess(breaker, slot), slot' = slot,
         Failing' = Failing \ {r}
  PROVE  breaker'.bucketIdx = slot' /\ Balanced' /\ Owing'
<1>1. Reported(breaker, breaker', slot, 0)
  BY SuccessReported DEF GateTypes
<1>2. Cardinality(Failing') = Cardinality(Failing) - 1 /\ Cardinality(Failing) \in Nat
      /\ Cardinality(Failing') \in Nat
  BY FailingFinite, FS_RemoveElement DEF Failing
<1>3. /\ breaker.buckets[slot].total \in Nat /\ breaker.buckets[slot].failures \in Nat
      /\ breaker.buckets[slot].total + Cardinality(Failing) <= 2 * breaker.buckets[slot].failures
  BY DEF Owing, GateTypes, IsWindow
<1>4. /\ breaker'.buckets[slot].total = breaker.buckets[slot].total + 1
      /\ breaker'.buckets[slot].failures = breaker.buckets[slot].failures
      /\ \A i \in Slots : i # slot => breaker'.buckets[i] = breaker.buckets[i]
  <2>1. Found(breaker, slot) = breaker.buckets[slot]
    BY DEF Found
  <2>2. breaker'.buckets = [breaker.buckets EXCEPT ![slot] =
                              [failures |-> breaker.buckets[slot].failures + 0,
                               total |-> breaker.buckets[slot].total + 1]]
    BY <1>1, <2>1 DEF Reported
  <2>. QED  BY <1>3, <2>2 DEF GateTypes, IsWindow
<1>5. Balanced'
  BY <1>2, <1>3, <1>4 DEF Balanced
<1>6. Owing'
  BY <1>2, <1>3, <1>4 DEF Owing
<1>. QED  BY <1>1, <1>5, <1>6 DEF Reported

\* What a step of request r leaves alone.
LEMMA OtherSteps ==
  ASSUME GateTypes, NEW r \in Requests, NEW s \in Steps, step' = [step EXCEPT ![r] = s]
  PROVE  /\ step' \in [Requests -> Steps] /\ step'[r] = s
         /\ \A q \in Requests : q # r => step'[q] = step[q]
         /\ s = "failed" => Failing' = Failing \cup {r}
         /\ s # "failed" => Failing' = Failing \ {r}
BY DEF GateTypes, Failing

LEMMA GateInvariant == GW!Spec => [](GateTypes /\ GateInv)
<1>1. GW!Init => GateTypes /\ GateInv
  <2>. SUFFICES ASSUME GW!Init  PROVE GateTypes /\ GateInv
    OBVIOUS
  <2>1. 0 \in Slots
    BY BreakerAssumption DEF Slots
  <2>2. IsWindow(breaker) /\ \A i \in Slots : breaker.buckets[i] = [failures |-> 0, total |-> 0]
    BY <2>1 DEF GW!Init, GW!NewBreaker, GW!Slots, Slots, GW!EmptyBucket, IsWindow
  <2>3. GateTypes
    BY <2>1, <2>2 DEF GW!Init, GateTypes, Steps
  <2>4. Failing = {} /\ Cardinality(Failing) = 0
    BY FS_EmptySet DEF Failing, GW!Init
  <2>5. Balanced /\ Owing
    BY <2>1, <2>2, <2>4 DEF Balanced, Owing, GW!Init
  <2>. QED  BY <2>3, <2>4, <2>5 DEF GateInv, GW!Init
<1>2. GateTypes /\ GateInv /\ [GW!Next]_GW!vars => (GateTypes /\ GateInv)'
  <2>. SUFFICES ASSUME GateTypes, GateInv, [GW!Next]_GW!vars  PROVE (GateTypes /\ GateInv)'
    OBVIOUS
  \* The steps that leave the breaker's buckets and what is owed alone
  <2>1. ASSUME UNCHANGED <<slot, reached, straddled>>, step' \in [Requests -> Steps], IsWindow(breaker'),
               breaker'.buckets = breaker.buckets, breaker'.bucketIdx = breaker.bucketIdx,
               \A r \in Requests : step'[r] \in {"served", "failed"} \/ step[r] \in {"served", "failed"}
                                     => step'[r] = step[r]
        PROVE  (GateTypes /\ GateInv)'
    <3>1. GateTypes'
      BY <2>1 DEF GateTypes
    <3>2. Failing' = Failing
      BY <2>1 DEF Failing
    <3>3. Balanced => Balanced'
      BY <2>1 DEF Balanced
    <3>4. Owing => Owing'
      BY <2>1, <3>2 DEF Owing
    <3>5. (\A r \in Requests : step[r] # "served") => \A r \in Requests : step'[r] # "served"
      BY <2>1
    <3>. QED  BY <2>1, <3>1, <3>2, <3>3, <3>4, <3>5, Zenon DEF GateInv
  <2>2. CASE UNCHANGED GW!vars
    BY <2>1, <2>2 DEF GW!vars, GateTypes
  <2>3. ASSUME NEW r \in Requests,
               \/ GW!FindRoute(r) \/ GW!AllowGlobal(r) \/ GW!AllowService(r) \/ GW!Shed(r) \/ GW!Discover(r)
        PROVE  (GateTypes /\ GateInv)'
    <3>1. PICK s \in {"idle", "global", "service", "shed", "breaker", "proxy"} :
            /\ step' = [step EXCEPT ![r] = s]
            /\ step[r] \notin {"served", "failed"}
            /\ UNCHANGED <<breaker, slot, reached, straddled>>
      BY <2>3 DEF GW!FindRoute, GW!AllowGlobal, GW!AllowService, GW!Shed, GW!Discover, GW!Goto, GW!Answer
    <3>. QED  BY <2>1, <3>1, OtherSteps DEF Steps, GateTypes
  <2>4. ASSUME NEW r \in Requests, GW!AskBreaker(r)  PROVE (GateTypes /\ GateInv)'
    <3>1. PICK s \in {"idle", "discover"} :
            /\ step' = [step EXCEPT ![r] = s]
            /\ step[r] \notin {"served", "failed"}
            /\ breaker' = breaker \/ breaker' = [breaker EXCEPT !.state = "HalfOpen"]
            /\ UNCHANGED <<slot, reached, straddled>>
      BY <2>4 DEF GW!AskBreaker, GW!Goto, GW!Answer, GW!Allowed
    <3>2. IsWindow(breaker') /\ breaker'.buckets = breaker.buckets /\ breaker'.bucketIdx = breaker.bucketIdx
      BY <3>1 DEF GateTypes, IsWindow
    <3>. QED  BY <2>1, <3>1, <3>2, OtherSteps DEF Steps
  <2>5. ASSUME NEW r \in Requests, GW!BadUrl(r) \/ GW!ProxyError(r)  PROVE (GateTypes /\ GateInv)'
    <3>1. PICK s \in {"idle", "failed"} :
            /\ step' = [step EXCEPT ![r] = s]
            /\ step[r] = "proxy"
            /\ breaker' = GW!OnFailure(breaker, slot)
            /\ UNCHANGED <<slot, reached, straddled>>
      BY <2>5 DEF GW!BadUrl, GW!ProxyError, GW!Goto, GW!Answer
    <3>2. /\ step' \in [Requests -> Steps]
          /\ \A q \in Requests : step'[q] = "served" => step[q] = "served"
          /\ Failing' = Failing \cup {r} \/ Failing' = Failing
      BY <3>1, OtherSteps DEF Steps, Failing
    <3>3. IsWindow(breaker')
      BY <3>1, FailureReported DEF GateTypes, Reported
    <3>4. GateTypes'
      BY <3>1, <3>2, <3>3 DEF GateTypes
    <3>5. CASE reached \/ straddled
      BY <3>1, <3>4, <3>5 DEF GateInv
    <3>6. CASE ~reached /\ ~straddled
      <4>1. Balanced /\ Owing /\ (Failing # {} => breaker.bucketIdx = slot)
        BY <3>6 DEF GateInv
      <4>2. breaker'.bucketIdx = slot' /\ Balanced' /\ Owing'
        BY <3>1, <3>2, <4>1, FailureOwed
      <4>. QED  BY <3>2, <3>4, <3>6, <4>2 DEF GateInv
    <3>. QED  BY <3>5, <3>6
  <2>6. ASSUME NEW r \in Requests, GW!Proxied(r) \/ GW!Aborted(r)  PROVE (GateTypes /\ GateInv)'
    <3>1. reached' /\ UNCHANGED <<breaker, slot>> /\ \E s \in Steps : step' = [step EXCEPT ![r] = s]
      BY <2>6 DEF GW!Proxied, GW!Aborted, GW!Goto, GW!Answer, Steps
    <3>. QED  BY <3>1, OtherSteps DEF GateTypes, GateInv
  <2>7. ASSUME NEW r \in Requests, GW!ReportSuccess(r)  PROVE (GateTypes /\ GateInv)'
    <3>1. /\ step' = [step EXCEPT ![r] = "idle"]
          /\ step[r] \in {"served", "failed"}
          /\ breaker' = GW!OnSuccess(breaker, slot)
          /\ UNCHANGED <<slot, reached, straddled>>
      BY <2>7 DEF GW!ReportSuccess, GW!Goto
    <3>2. /\ step' \in [Requests -> Steps]
          /\ \A q \in Requests : step'[q] = "served" => step[q] = "served"
          /\ Failing' = Failing \ {r}
      BY <3>1, OtherSteps DEF Steps
    <3>3. IsWindow(breaker')
      BY <3>1, SuccessReported DEF GateTypes, Reported
    <3>4. GateTypes'
      BY <3>1, <3>2, <3>3 DEF GateTypes
    <3>5. CASE reached \/ straddled
      BY <3>1, <3>4, <3>5 DEF GateInv
    <3>6. CASE ~reached /\ ~straddled
      <4>1. r \in Failing
        BY <3>1, <3>6 DEF GateInv, Failing
      <4>2. Balanced /\ Owing /\ breaker.bucketIdx = slot
        BY <3>6, <4>1 DEF GateInv
      <4>3. breaker'.bucketIdx = slot' /\ Balanced' /\ Owing'
        BY <3>1, <3>2, <4>1, <4>2, SuccessPays
      <4>. QED  BY <3>2, <3>4, <3>6, <4>3 DEF GateInv
    <3>. QED  BY <3>5, <3>6
  <2>8. CASE GW!NextBucket
    <3>1. /\ slot' \in Slots
          /\ UNCHANGED <<step, breaker, reached>>
          /\ Failing' = Failing
      BY <2>8, BreakerAssumption DEF GW!NextBucket, GateTypes, Slots, Failing
    <3>2. GateTypes'
      BY <3>1 DEF GateTypes
    <3>3. CASE straddled \/ \E r \in Requests : step[r] = "failed"
      BY <2>8, <3>2, <3>3 DEF GW!NextBucket, GateInv
    <3>4. CASE Failing = {}
      <4>1. Cardinality(Failing') = 0
        BY <3>1, <3>4, FS_EmptySet
      <4>2. Balanced => Balanced' /\ Owing'
        <5>. SUFFICES ASSUME Balanced  PROVE Balanced' /\ Owing'
          OBVIOUS
        <5>1. Balanced'
          BY <3>1 DEF Balanced
        <5>2. breaker'.buckets[slot'].total \in Nat /\ breaker'.buckets[slot'].failures \in Nat
          BY <3>2 DEF GateTypes, IsWindow
        <5>. QED  BY <3>1, <4>1, <5>1, <5>2 DEF Owing, Balanced
      <4>3. reached' = reached /\ (straddled => straddled')
        BY <2>8, <3>1 DEF GW!NextBucket
      <4>. QED  BY <3>1, <3>2, <3>4, <4>2, <4>3 DEF GateInv
    <3>. QED  BY <3>3, <3>4 DEF Failing
  <2>9. CASE GW!SleepOver
    <3>1. IsWindow(breaker') /\ breaker'.buckets = breaker.buckets /\ breaker'.bucketIdx = breaker.bucketIdx
      BY <2>9 DEF GW!SleepOver, GateTypes, IsWindow
    <3>. QED  BY <2>1, <2>9, <3>1 DEF GW!SleepOver, GateTypes
  <2>. QED  BY <2>2, <2>3, <2>4, <2>5, <2>6, <2>7, <2>8, <2>9 DEF GW!Next, GW!ServeHTTP
<1>. QED  BY <1>1, <1>2, PTL DEF GW!Spec

LEMMA GatewayRuns == LibSpec => GW!Spec
<1>1. LibInit => GW!Init
  BY DEF LibInit
<1>2. [LibNext]_libVars => [GW!Next]_GW!vars
  BY DEF LibNext, libVars, AppNext, NetNext, BaseNext, appVars, netVars, baseVars, gwVars, GW!vars
<1>. QED  BY <1>1, <1>2, PTL DEF LibSpec, GW!Spec

\* An upstream that answers nobody opens the breaker with the error that makes MinRequests
\* reports, for any requests, buckets and limits (gateway_generator.go:434, 446).
THEOREM DeadUpstreamsTrip == LibSpec => DeadUpstreamTrips
<1>1. ASSUME GateTypes, GateInv, GateInv', GateTypes', [GW!Next]_GW!vars, NEW r \in Requests,
             step[r] = "proxy", step'[r] = "failed", ~reached, ~straddled,
             GW!Total(breaker)' >= MinRequests
      PROVE  breaker'.state = "Open"
  <2>1. GW!ProxyError(r)
    <3>1. PICK q \in Requests : GW!ServeHTTP(q)
      BY <1>1 DEF GW!Next, GW!vars, GW!NextBucket, GW!SleepOver
    <3>2. q = r
      BY <1>1, <3>1 DEF GateTypes, GW!ServeHTTP, GW!FindRoute, GW!AllowGlobal, GW!AllowService, GW!Shed,
         GW!AskBreaker, GW!Discover, GW!BadUrl, GW!Proxied, GW!Aborted, GW!ProxyError, GW!ReportSuccess,
         GW!Goto, GW!Answer
    <3>. QED
      BY <1>1, <3>1, <3>2 DEF GateTypes, GW!ServeHTTP, GW!FindRoute, GW!AllowGlobal, GW!AllowService,
         GW!Shed, GW!AskBreaker, GW!Discover, GW!BadUrl, GW!Proxied, GW!Aborted, GW!ReportSuccess,
         GW!Goto, GW!Answer
  <2>2. breaker' = GW!OnFailure(breaker, slot) /\ UNCHANGED <<slot, reached, straddled>>
    BY <2>1 DEF GW!ProxyError
  <2>3. Reported(breaker, breaker', slot, 1) /\ (breaker'.state = "Open" \/ ~ GW!ShouldOpen(breaker)')
    BY <1>1, <2>2, FailureReported DEF GateTypes, GW!ShouldOpen, GW!Total, GW!Failures
  <2>4. Balanced' /\ Owing' /\ breaker'.bucketIdx = slot' /\ slot' \in Slots
    BY <1>1, <2>2, <2>3 DEF GateInv, GateTypes, Reported
  <2>5. Cardinality(Failing') \in Nat /\ Cardinality(Failing') > 0
    <3>1. r \in Failing' /\ Failing' \in SUBSET Requests
      BY <1>1 DEF Failing
    <3>2. IsFiniteSet(Failing') /\ Cardinality(Failing') \in Nat
      BY <3>1, FailingFinite
    <3>. QED  BY <3>1, <3>2, FS_EmptySet
  <2>. DEFINE f == [i \in Slots |-> breaker'.buckets[i].failures]
              t == [i \in Slots |-> breaker'.buckets[i].total]
  <2>6. f \in [Slots -> Nat] /\ t \in [Slots -> Nat]
    BY <1>1 DEF GateTypes, IsWindow
  <2>7. \A i \in Slots : t[i] <= 2 * f[i]
    BY <2>4 DEF Balanced
  <2>8. t[slot'] < 2 * f[slot']
    <3>1. t[slot'] \in Nat /\ f[slot'] \in Nat
      BY <2>4, <2>6
    <3>. QED  BY <2>4, <2>5, <3>1 DEF Owing
  <2>9. GW!SumBuckets(t) < 2 * GW!SumBuckets(f)
    <3>. HIDE DEF f, t
    <3>. QED  BY <2>4, <2>6, <2>7, <2>8, MoreFailures
  <2>10. GW!Total(breaker)' = GW!SumBuckets(t) /\ GW!Failures(breaker)' = GW!SumBuckets(f)
    BY DEF GW!Total, GW!Failures, GW!Slots, Slots
  <2>11. GW!ShouldOpen(breaker)'
    BY <1>1, <2>9, <2>10 DEF GW!ShouldOpen
  <2>. QED  BY <2>3, <2>11
<1>2. (GateTypes /\ GateInv) /\ (GateTypes /\ GateInv)' /\ [GW!Next]_GW!vars
        => \A r \in Requests :
             /\ step[r] = "proxy" /\ step'[r] = "failed"
             /\ ~reached /\ ~straddled
             /\ GW!Total(breaker)' >= MinRequests
             => breaker'.state = "Open"
  BY <1>1
<1>3. [](GateTypes /\ GateInv) /\ GW!Spec => DeadUpstreamTrips
  BY <1>2, PTL DEF GW!Spec, DeadUpstreamTrips, GW!DeadUpstreamTrips
<1>. QED  BY <1>3, GatewayRuns, GateInvariant, PTL
=============================================================================
