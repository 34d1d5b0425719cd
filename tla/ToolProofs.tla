------------------------------ MODULE ToolProofs ------------------------------
(***************************************************************************)
(* What the nx tool guarantees of the trees it writes, for any .api files  *)
(* that declare what they mention, any number of commands and any faults;  *)
(* and what the configuration reads back, for any well-formed files and    *)
(* any environments.                                                       *)
(***************************************************************************)
EXTENDS MCTools, SequenceTheorems, FiniteSetTheorems, TLAPS

-----------------------------------------------------------------------------
(* Sequences *)

\* A set of numbers has a least one.
LEMMA LeastNumber ==
  ASSUME NEW T, T \subseteq Nat, T # {}
  PROVE  \E x \in T : \A y \in T : x <= y
<1>1. PICK x \in T : \A y \in T : ~ (<<y, x>> \in OpToRel(<, Nat))
  BY WFMin, NatLessThanWellFounded, Zenon
<1>2. \A y \in T : ~(y < x)
  BY <1>1 DEF OpToRel
<1>. QED  BY <1>2

\* The elements of two sequences, one after the other.
LEMMA JoinElements ==
  ASSUME NEW S, NEW one \in Seq(S), NEW other \in Seq(S)
  PROVE  /\ one \o other \in Seq(S)
         /\ \A e : e \in NX!ToSet(one \o other) <=> e \in NX!ToSet(one) \/ e \in NX!ToSet(other)
<1>1. \A i \in DOMAIN (one \o other) :
        (one \o other)[i] = IF i <= Len(one) THEN one[i] ELSE other[i - Len(one)]
  OBVIOUS
<1>2. \A i \in DOMAIN one : i \in DOMAIN (one \o other) /\ (one \o other)[i] = one[i]
  OBVIOUS
<1>3. \A i \in DOMAIN other : i + Len(one) \in DOMAIN (one \o other)
                               /\ (one \o other)[i + Len(one)] = other[i]
  OBVIOUS
<1>4. \A i \in DOMAIN (one \o other) : i \notin DOMAIN one => i - Len(one) \in DOMAIN other
  OBVIOUS
<1>5. \A e : e \in NX!ToSet(one \o other) => e \in NX!ToSet(one) \/ e \in NX!ToSet(other)
  BY <1>1, <1>4 DEF NX!ToSet
<1>6. \A e : e \in NX!ToSet(one) => e \in NX!ToSet(one \o other)
  BY <1>2, Zenon DEF NX!ToSet
<1>7. \A e : e \in NX!ToSet(other) => e \in NX!ToSet(one \o other)
  BY <1>3, Zenon DEF NX!ToSet
<1>8. one \o other \in Seq(S)
  OBVIOUS
<1>. QED  BY <1>5, <1>6, <1>7, <1>8

\* How FlattenSeq joins the first n sequences, as a function of n that refers to itself.
Joins(f, seqs, n) == f = [i \in 1..n |-> IF i = 1 THEN seqs[i] ELSE f[i - 1] \o seqs[i]]

\* There is such a function.
LEMMA JoinsExist ==
  ASSUME NEW seqs, NEW n \in Nat
  PROVE  \E f : Joins(f, seqs, n)
<1>. DEFINE T == {m \in Nat : ~ \E f : Joins(f, seqs, m)}
<1>1. SUFFICES ASSUME T # {} PROVE FALSE
  OBVIOUS
<1>2. PICK m \in T : \A l \in T : m <= l
  BY <1>1, LeastNumber
<1>3. CASE m = 0
  <2>1. Joins([i \in 1..0 |-> 0], seqs, 0)
    BY DEF Joins
  <2>. QED  BY <2>1, <1>3
<1>4. CASE m # 0
  <2>1. m - 1 \in Nat /\ m - 1 \notin T
    BY <1>2, <1>4
  <2>2. PICK f : Joins(f, seqs, m - 1)
    BY <2>1
  <2>. DEFINE g == [i \in 1..m |-> IF i = 1 THEN seqs[i] ELSE f[i - 1] \o seqs[i]]
  <2>3. \A i \in 1..(m - 1) : g[i] = f[i]
    <3>1. \A i \in 1..(m - 1) : f[i] = IF i = 1 THEN seqs[i] ELSE f[i - 1] \o seqs[i]
      BY <2>2, Zenon DEF Joins
    <3>2. \A i \in 1..(m - 1) : i \in 1..m
      BY <2>1
    <3>. QED  BY <3>1, <3>2, Zenon
  <2>4. \A i \in 1..m : g[i] = IF i = 1 THEN seqs[i] ELSE g[i - 1] \o seqs[i]
    <3>1. \A i \in 1..m : i # 1 => i - 1 \in 1..(m - 1)
      BY <2>1
    <3>. QED  BY <2>3, <3>1, Zenon
  <2>5. g = [i \in 1..m |-> g[i]]
    OBVIOUS
  <2>. HIDE DEF g
  <2>6. Joins(g, seqs, m)
    BY <2>4, <2>5 DEF Joins
  <2>. QED  BY <2>6
<1>. QED  BY <1>3, <1>4

\* FlattenSeq has the elements of all the sequences it joins.
LEMMA FlattenElements ==
  ASSUME NEW S, NEW seqs \in Seq(Seq(S))
  PROVE  /\ NX!FlattenSeq(seqs) \in Seq(S)
         /\ \A e : e \in NX!ToSet(NX!FlattenSeq(seqs))
                     <=> \E i \in DOMAIN seqs : e \in NX!ToSet(seqs[i])
<1>1. CASE Len(seqs) = 0
  BY <1>1 DEF NX!FlattenSeq, NX!ToSet
<1>2. CASE Len(seqs) # 0
  <2>. DEFINE n == Len(seqs)
              flatten == CHOOSE f : Joins(f, seqs, n)
              Fine(i) == /\ flatten[i] \in Seq(S)
                         /\ \A e : e \in NX!ToSet(flatten[i])
                                     <=> \E j \in 1..i : e \in NX!ToSet(seqs[j])
              T == {i \in 1..n : ~ Fine(i)}
  <2>1. n \in Nat \ {0}
    BY <1>2
  <2>2. NX!FlattenSeq(seqs) = flatten[n]
    BY <1>2 DEF NX!FlattenSeq, Joins
  <2>3. Joins(flatten, seqs, n)
    BY <2>1, JoinsExist
  <2>. HIDE DEF flatten, n
  <2>4. \A i \in 1..n : flatten[i] = IF i = 1 THEN seqs[i] ELSE flatten[i - 1] \o seqs[i]
    BY <2>3, <2>1 DEF Joins
  <2>5. \A i \in 1..n : seqs[i] \in Seq(S)
    BY DEF n
  <2>6. T = {}
    <3>1. SUFFICES ASSUME T # {} PROVE FALSE
      OBVIOUS
    <3>2. T \subseteq Nat
      BY <2>1
    <3>3. PICK i \in T : \A j \in T : i <= j
      BY <3>1, <3>2, LeastNumber
    <3>4. CASE i = 1
      <4>1. flatten[i] = seqs[1]
        BY <2>4, <3>3, <3>4
      <4>. QED  BY <4>1, <3>3, <3>4, <2>5
    <3>5. CASE i # 1
      <4>1. i - 1 \in 1..n /\ Fine(i - 1)
        <5>1. i - 1 \in 1..n /\ ~(i <= i - 1)
          BY <3>3, <3>5, <2>1
        <5>2. i - 1 \notin T
          BY <5>1, <3>3
        <5>. HIDE DEF Fine
        <5>. QED  BY <5>1, <5>2
      <4>2. flatten[i] = flatten[i - 1] \o seqs[i]
        BY <2>4, <3>3, <3>5
      <4>3. /\ flatten[i] \in Seq(S)
            /\ \A e : e \in NX!ToSet(flatten[i])
                        <=> e \in NX!ToSet(flatten[i - 1]) \/ e \in NX!ToSet(seqs[i])
        BY <4>1, <4>2, <3>3, <2>5, JoinElements
      <4>4. \A j : j \in 1..i <=> j \in 1..(i - 1) \/ j = i
        BY <3>3, <4>1
      <4>. QED  BY <4>1, <4>3, <4>4, <3>3
    <3>. QED  BY <3>4, <3>5
  <2>7. Fine(n)
    <3>1. n \in 1..n
      BY <2>1
    <3>. HIDE DEF Fine
    <3>. QED  BY <3>1, <2>6
  <2>8. DOMAIN seqs = 1..n
    BY DEF n
  <2>. QED  BY <2>2, <2>7, <2>8
<1>. QED  BY <1>1, <1>2
-----------------------------------------------------------------------------
(* The files of a command *)

\* What a file needs of the others is declared by a file that every command which writes
\* its path writes alike (Stable), or by one that no command rewrites without the file
\* that needs it (Local), or by none (MissingWhats).
Stable ==
  {"type", "NewConfig", "ServiceContext", "NewServiceContext", "yaml", "Config", "Client",
   "Register", "Load", "Services", "New"}

Local == {"SSEHandler", "NewLogic", "NewSSELogic", "Logic.Execute", "message"}

\* The stable symbols of a file are a matter of its path.
Owned(path) ==
  LET dir == path[1]
      own(what) == {NX!One(dir, what)}
  IN CASE dir[1] = "service" /\ Len(dir) = 3 ->
            (CASE dir[3] = "dto" -> {NX!In(dir, "type", path[2])}
               [] dir[3] = "config" -> own("NewConfig")
               [] dir[3] = "svc" -> own("ServiceContext") \cup own("NewServiceContext")
               [] dir[3] = "etc" -> own("yaml")
               [] dir[3] = "router" -> own("Register")
               [] OTHER -> {})
       [] dir[1] = "rpc" /\ Len(dir) = 3 ->
            (CASE dir[3] = "etc" -> own("yaml")
               [] dir[3] = "config" -> own("Load")
               [] dir[3] = "pool" -> own("Services")
               [] dir[3] \in {"server", "proxy", "router"} -> own("Register")
               [] dir[3] = "handler" -> own("New")
               [] OTHER -> {})
       [] dir = NX!Gateway("config") -> own("Config")
       [] dir = NX!Gateway("etc") -> own("yaml")
       [] path = <<<<"client", "user-client">>, <<"client">>>> -> {NX!One(<<"client">>, "Client")}
       [] OTHER -> {}

\* Where a local symbol is needed.
UserPath(symbol) ==
  LET inside == <<"service", symbol[1][2], "handler">>
  IN CASE symbol[2] = "SSEHandler" -> <<symbol[1], <<"routes">>>>
       [] symbol[2] = "NewSSELogic" -> <<inside, Append(symbol[3], "sse")>>
       [] symbol[2] = "message" -> <<symbol[1], <<symbol[1][2], "proto">>>>
       [] OTHER -> <<inside, symbol[3]>>

\* The file that a command writes with the one at a path.
Companion(path) ==
  LET dir == path[1]
  IN CASE dir[1] = "service" /\ Len(dir) = 3 /\ dir[3] = "handler" -> <<dir, <<"routes">>>>
       [] dir[1] = "service" /\ Len(dir) = 3 /\ dir[3] = "logic" ->
            <<<<"service", dir[2], "handler">>, path[2]>>
       [] OTHER -> path

\* A file as commands write them: its local symbols are needed in its companion only, and
\* it needs none where it is not the one to do so.
Orderly(path, contents) ==
  /\ \A u \in contents.declares :
       /\ u[2] \in Stable => u \in Owned(path)
       /\ u[2] \in Local => UserPath(u) = Companion(path)
  /\ \A u \in contents.uses :
       \/ u[2] \in NX!MissingWhats \cup Stable
       \/ u[2] \in Local /\ UserPath(u) = path

\* The files of a command that ran to its end, or of one that did not.
Regular(files) ==
  \A f \in files : Orderly(f.path, f) /\ Owned(f.path) \subseteq f.declares
Complete(files) ==
  /\ Regular(files)
  /\ \A f \in files :
       /\ \E g \in files : g.path = Companion(f.path)
       /\ \A u \in f.uses : u[2] \in NX!MissingWhats \/ \E g \in files : u \in g.declares

\* What may be written.
AllFiles ==
  UNION {NX!ToSet(files) : files \in
           {NX!Generate(edition) : edition \in Editions}
             \cup {NX!genGateway, NX!newGateway, NX!genClient, NX!newRpc, NX!newRpcGateway}}

\* How many of its files the last command has written.
Done == Len(writes) - Len(todo)

\* The files that it wrote hold what it wrote last.
LastWrites ==
  \A j \in 1..Done : \E i \in j..Done :
    /\ writes[i].path = writes[j].path /\ writes[i].path \in DOMAIN tree
    /\ tree[writes[i].path] = [declares |-> writes[i].declares, uses |-> writes[i].uses]
    /\ \A k \in i + 1..Done : writes[k].path # writes[i].path

\* A file that is not its own finds what it needs, or will once the command is done, or
\* did not before.
Explained ==
  \A p \in DOMAIN tree \ NX!Written : \A u \in tree[p].uses :
    \/ u[2] \in NX!MissingWhats
    \/ \E q \in DOMAIN tree : u \in tree[q].declares
    \/ \E i \in DOMAIN writes : u \in writes[i].declares
    \/ <<p, u>> \in dangled

TreeInv ==
  /\ \A p \in DOMAIN tree : Orderly(p, tree[p])
  /\ writes \in Seq(AllFiles) /\ todo \in Seq(AllFiles)
  /\ sound =>
       /\ Complete(NX!ToSet(writes))
       /\ Done >= 0 /\ \A i \in DOMAIN todo : todo[i] = writes[i + Done]
       /\ LastWrites
       /\ Explained

-----------------------------------------------------------------------------
(* The commands without an .api file *)

\* The elements of the lists below.
LEMMA ListElements ==
  /\ \A a, b : NX!ToSet(<<a, b>>) = {a, b}
  /\ \A a, b, c, d : NX!ToSet(<<a, b, c, d>>) = {a, b, c, d}
  /\ \A a, b, c, d, e, f, g : NX!ToSet(<<a, b, c, d, e, f, g>>) = {a, b, c, d, e, f, g}
BY DEF NX!ToSet

\* nx gen gateway
LEMMA GenGatewayComplete == Complete(NX!ToSet(NX!genGateway))
<1>. DEFINE F == {NX!generateGatewayMain, NX!generateGatewayConfig, NX!generateProxyHandler, NX!generateGatewayYAML}
<1>1. NX!ToSet(NX!genGateway) = F
  BY DEF NX!genGateway, NX!ToSet
<1>. USE DEF NX!generateGatewayMain, NX!generateGatewayConfig, NX!generateProxyHandler, NX!generateGatewayYAML,
     NX!File, NX!In, NX!One, NX!gatewayConfig, NX!gatewayYAML, NX!Gateway
<1>2. \A f \in F : Orderly(f.path, f)
  BY DEF Orderly, Owned, Stable, Local
<1>3. \A f \in F : Owned(f.path) \subseteq f.declares
  BY DEF Owned
<1>4. \A f \in F : Companion(f.path) = f.path
  BY DEF Companion
<1>5. \A f \in F : \A u \in f.uses : \E g \in F : u \in g.declares
  OBVIOUS
<1>. HIDE DEF F
<1>. QED  BY <1>1, <1>2, <1>3, <1>4, <1>5, Zenon DEF Complete, Regular

\* nx new gateway, whose main.go needs a package that is missing
LEMMA NewGatewayComplete == Complete(NX!ToSet(NX!newGateway))
<1>. DEFINE mainFile == NX!File(<<"gateway">>, <<"main">>, {},
                            {NX!One(<<"gateway", "gateway">>, "gateway/gateway"), NX!gatewayYAML})
            configFile == NX!File(NX!Gateway("config"), <<"config">>, {NX!gatewayConfig}, {})
            etcFile == NX!File(NX!Gateway("etc"), <<"gateway">>, {NX!gatewayYAML}, {})
            specFile == NX!File(<<"gateway">>, <<"gateway", "api">>, {}, {})
            F == {mainFile, configFile, etcFile, specFile}
<1>1. NX!ToSet(NX!newGateway) = F
  BY ListElements DEF NX!newGateway
<1>. USE DEF NX!File, NX!In, NX!One, NX!gatewayConfig, NX!gatewayYAML, NX!Gateway
<1>2. \A f \in F : Orderly(f.path, f)
  BY DEF Orderly, Owned, Stable, Local, NX!MissingWhats, NX!Gateway
<1>3. \A f \in F : Owned(f.path) \subseteq f.declares
  BY DEF Owned
<1>4. \A f \in F : Companion(f.path) = f.path
  BY DEF Companion
<1>5. \A f \in F : \A u \in f.uses : u[2] \in NX!MissingWhats \/ \E g \in F : u \in g.declares
  BY DEF NX!MissingWhats
<1>. HIDE DEF F
<1>. QED  BY <1>1, <1>2, <1>3, <1>4, <1>5, Zenon DEF Complete, Regular

\* nx gen client
LEMMA GenClientComplete == Complete(NX!ToSet(NX!genClient))
<1>. DEFINE clientFile == NX!File(<<"client", "user-client">>, <<"client">>, {NX!One(<<"client">>, "Client")}, {})
            readmeFile == NX!File(<<"client", "user-client">>, <<"README">>, {}, {NX!One(<<"client">>, "Client")})
            F == {clientFile, readmeFile}
<1>1. NX!ToSet(NX!genClient) = F
  BY ListElements DEF NX!genClient
<1>. USE DEF NX!File, NX!In, NX!One
<1>2. \A f \in F : Orderly(f.path, f)
  BY DEF Orderly, Owned, Stable, Local, NX!Gateway
<1>3. \A f \in F : Owned(f.path) \subseteq f.declares
  BY DEF Owned, NX!Gateway
<1>4. \A f \in F : Companion(f.path) = f.path
  BY DEF Companion
<1>5. \A f \in F : \A u \in f.uses : \E g \in F : u \in g.declares
  OBVIOUS
<1>. HIDE DEF F
<1>. QED  BY <1>1, <1>2, <1>3, <1>4, <1>5, Zenon DEF Complete, Regular

\* nx new rpc
LEMMA NewRpcComplete == Complete(NX!ToSet(NX!newRpc))
<1>. DEFINE dir(name) == <<"rpc", "user", name>>
            register == NX!One(dir("server"), "Register")
            protoFile == NX!File(dir("proto"), <<"user">>, {NX!One(dir("proto"), "service")}, {})
            etcFile == NX!File(dir("etc"), <<"user">>, {NX!One(dir("etc"), "yaml")}, {})
            servingFile == NX!File(dir("server"), <<"server">>, {register}, {NX!One(<<"rpc", "pkg">>, "pb")})
            mainFile == NX!File(<<"rpc", "user">>, <<"main">>, {}, {register})
            F == {protoFile, etcFile, servingFile, mainFile}
<1>0. NX!newRpc = <<protoFile, etcFile, servingFile, mainFile>>
  BY DEF NX!newRpc
<1>1. NX!ToSet(NX!newRpc) = F
  <2>. HIDE DEF protoFile, etcFile, servingFile, mainFile
  <2>. QED  BY <1>0, ListElements
<1>. USE DEF NX!File, NX!In, NX!One
<1>2. \A f \in F : Orderly(f.path, f)
  BY DEF Orderly, Owned, Stable, Local, NX!MissingWhats, NX!Gateway
<1>3. \A f \in F : Owned(f.path) \subseteq f.declares
  BY DEF Owned, NX!Gateway
<1>4. \A f \in F : Companion(f.path) = f.path
  BY DEF Companion
<1>5. \A f \in F : \A u \in f.uses : u[2] \in NX!MissingWhats \/ \E g \in F : u \in g.declares
  BY DEF NX!MissingWhats
<1>. HIDE DEF F
<1>. QED  BY <1>1, <1>2, <1>3, <1>4, <1>5, Zenon DEF Complete, Regular

\* nx new rpc-gateway
LEMMA NewRpcGatewayComplete == Complete(NX!ToSet(NX!newRpcGateway))
<1>. DEFINE dir(name) == <<"rpc", "gateway", name>>
            yaml == NX!One(dir("etc"), "yaml")
            load == NX!One(dir("config"), "Load")
            served == NX!One(dir("pool"), "Services")
            proxies == NX!One(dir("proxy"), "Register")
            new == NX!One(dir("handler"), "New")
            routes == NX!One(dir("router"), "Register")
            etcFile == NX!File(dir("etc"), <<"gateway">>, {yaml}, {})
            configFile == NX!File(dir("config"), <<"config">>, {load}, {})
            poolFile == NX!File(dir("pool"), <<"pool">>, {served}, {})
            proxyFile == NX!File(dir("proxy"), <<"proxy">>, {proxies}, {served})
            handlerFile == NX!File(dir("handler"), <<"handler">>, {new}, {served})
            routerFile == NX!File(dir("router"), <<"router">>, {routes}, {new, served})
            mainFile == NX!File(<<"rpc", "gateway">>, <<"main">>, {}, {load, served, yaml, routes, proxies})
            F == {etcFile, configFile, poolFile, proxyFile, handlerFile, routerFile, mainFile}
<1>1. NX!newRpcGateway = <<etcFile, configFile, poolFile, proxyFile, handlerFile, routerFile, mainFile>>
  BY DEF NX!newRpcGateway
<1>2. NX!ToSet(NX!newRpcGateway) = F
  <2>. HIDE DEF etcFile, configFile, poolFile, proxyFile, handlerFile, routerFile, mainFile
  <2>. QED  BY <1>1, ListElements
<1>. USE DEF NX!File, NX!In, NX!One
<1>3. \A f \in F : Orderly(f.path, f)
  BY DEF Orderly, Owned, Stable, Local, NX!Gateway
<1>4. \A f \in F : Owned(f.path) \subseteq f.declares
  BY DEF Owned, NX!Gateway
<1>5. \A f \in F : Companion(f.path) = f.path
  BY DEF Companion
<1>6. \A f \in F : \A u \in f.uses : \E g \in F : u \in g.declares
  OBVIOUS
<1>. HIDE DEF F
<1>. QED  BY <1>2, <1>3, <1>4, <1>5, <1>6, Zenon DEF Complete, Regular

-----------------------------------------------------------------------------
(* nx gen api *)

TypeFile(svc, type) ==
  NX!File(NX!Dir(svc, "dto"), type.name, {NX!In(NX!Dir(svc, "dto"), "type", type.name)},
          {NX!In(NX!Dir(svc, "dto"), "type", f) : f \in type.fields})

HandlerFile(svc, h) ==
  NX!File(NX!Dir(svc, "handler"), NX!FileName(h), {NX!HandlerFunc(svc, h)},
          {NX!NewLogic(svc, h), NX!Execute(svc, h), NX!ServiceContext(svc)})

\* The files of a service, as a set: those before generateRouter, and those from it.
FirstFiles(svc, edition) ==
  {TypeFile(svc, t) : t \in NX!ToSet(edition.types)}
    \cup {HandlerFile(svc, h) : h \in NX!ToSet(svc.handlers)}
    \cup {NX!LogicFile(svc, h, NX!FileName(h)) : h \in NX!ToSet(svc.handlers)}
    \cup {NX!generateConfig(svc), NX!generateRoutes(svc), NX!generateServiceContext(svc)}

LastFiles(svc, edition) ==
  {NX!generateRouter(svc), NX!generateMiddleware(svc), NX!generateClient(svc), NX!generateOpenAPI(svc),
   NX!generateMain(svc), NX!generateProto(svc, edition), NX!generateServiceYAML(svc)}

\* What WellFormed says of the parts of an edition.
LEMMA Parts ==
  ASSUME NEW edition, NX!WellFormed(edition)
  PROVE  /\ edition.info \in BOOLEAN
         /\ DOMAIN edition.types = 1..Len(edition.types) /\ Len(edition.types) \in Nat
         /\ DOMAIN edition.services = 1..Len(edition.services) /\ Len(edition.services) \in Nat
         /\ \A t \in NX!ToSet(edition.types) : \A f \in t.fields :
              \E s \in NX!ToSet(edition.types) : s.name = f
         /\ \A svc \in NX!ToSet(edition.services) :
              /\ DOMAIN svc.handlers = 1..Len(svc.handlers) /\ Len(svc.handlers) \in Nat
              /\ \A h \in NX!ToSet(svc.handlers) :
                   /\ h.name \in Seq(STRING) /\ h.sse \in BOOLEAN
                   /\ h.grpc => \A suffix \in {"req", "resp"} :
                        \E s \in NX!ToSet(edition.types) : s.name = Append(h.name, suffix)
<1>. DEFINE declared == {t.name : t \in NX!ToSet(edition.types)}
            H == [name : Seq(STRING), sse : BOOLEAN, grpc : BOOLEAN]
            V == [group : STRING, handlers : Seq(H)]
            Y == [name : Seq(STRING), fields : SUBSET declared]
<1>1. /\ edition.info \in BOOLEAN /\ edition.types \in Seq(Y) /\ edition.services \in Seq(V)
      /\ \A svc \in NX!ToSet(edition.services) : \A h \in NX!ToSet(svc.handlers) :
           h.grpc => {Append(h.name, "req"), Append(h.name, "resp")} \subseteq declared
  BY Zenon DEF NX!WellFormed
<1>2. /\ DOMAIN edition.types = 1..Len(edition.types) /\ Len(edition.types) \in Nat
      /\ DOMAIN edition.services = 1..Len(edition.services) /\ Len(edition.services) \in Nat
  <2>. HIDE DEF Y, V
  <2>. QED  BY <1>1
<1>3. \A t \in NX!ToSet(edition.types) : t \in Y
  <2>. HIDE DEF Y
  <2>. QED  BY <1>1 DEF NX!ToSet
<1>4. \A svc \in NX!ToSet(edition.services) : svc \in V
  <2>. HIDE DEF V
  <2>. QED  BY <1>1 DEF NX!ToSet
<1>5. \A svc \in V : /\ DOMAIN svc.handlers = 1..Len(svc.handlers) /\ Len(svc.handlers) \in Nat
                     /\ \A h \in NX!ToSet(svc.handlers) : h \in H
  <2>. HIDE DEF H
  <2>. QED  BY DEF NX!ToSet
<1>6. \A t \in NX!ToSet(edition.types) : \A f \in t.fields : f \in declared
  <2>. HIDE DEF declared
  <2>. QED  BY <1>3
<1>7. \A h \in H : h.name \in Seq(STRING) /\ h.sse \in BOOLEAN
  OBVIOUS
<1>8. \A n \in declared : \E s \in NX!ToSet(edition.types) : s.name = n
  OBVIOUS
<1>. HIDE DEF declared, H, V, Y
<1>9. \A svc \in NX!ToSet(edition.services) : \A h \in NX!ToSet(svc.handlers) :
        h.grpc => \A suffix \in {"req", "resp"} : Append(h.name, suffix) \in declared
  BY <1>1
<1>. QED  BY <1>1, <1>2, <1>4, <1>5, <1>6, <1>7, <1>8, <1>9

\* BeforeRouter and FromRouter list these files.
LEMMA ServiceLists ==
  ASSUME NEW edition, NX!WellFormed(edition), NEW svc \in NX!ToSet(edition.services)
  PROVE  /\ NX!BeforeRouter(svc, edition) \in Seq(FirstFiles(svc, edition))
         /\ NX!ToSet(NX!BeforeRouter(svc, edition)) = FirstFiles(svc, edition)
         /\ NX!FromRouter(svc, edition) \in Seq(LastFiles(svc, edition))
         /\ NX!ToSet(NX!FromRouter(svc, edition)) = LastFiles(svc, edition)
<1>. DEFINE S == FirstFiles(svc, edition)
            dto == NX!generateDTO(svc, edition)
            handling == [i \in DOMAIN svc.handlers |-> HandlerFile(svc, svc.handlers[i])]
            logic == NX!generateLogic(svc)
<1>1. /\ DOMAIN edition.types = 1..Len(edition.types) /\ Len(edition.types) \in Nat
      /\ DOMAIN svc.handlers = 1..Len(svc.handlers) /\ Len(svc.handlers) \in Nat
  BY Parts
<1>2. /\ dto = [i \in 1..Len(edition.types) |-> TypeFile(svc, edition.types[i])]
      /\ handling = [i \in 1..Len(svc.handlers) |-> HandlerFile(svc, svc.handlers[i])]
      /\ logic = [i \in 1..Len(svc.handlers) |->
                    NX!LogicFile(svc, svc.handlers[i], NX!FileName(svc.handlers[i]))]
      /\ NX!generateHandlers(svc) = handling \o <<NX!generateRoutes(svc)>>
  BY <1>1, Zenon DEF NX!generateDTO, TypeFile, NX!generateHandlers, HandlerFile, NX!generateLogic
<1>3. /\ \A i \in 1..Len(edition.types) : TypeFile(svc, edition.types[i]) \in S
      /\ \A i \in 1..Len(svc.handlers) : HandlerFile(svc, svc.handlers[i]) \in S
      /\ \A i \in 1..Len(svc.handlers) :
           NX!LogicFile(svc, svc.handlers[i], NX!FileName(svc.handlers[i])) \in S
      /\ NX!generateConfig(svc) \in S /\ NX!generateRoutes(svc) \in S
      /\ NX!generateServiceContext(svc) \in S
  BY <1>1 DEF FirstFiles, NX!ToSet
<1>4. /\ dto \in Seq(S) /\ handling \in Seq(S) /\ logic \in Seq(S)
      /\ <<NX!generateConfig(svc)>> \in Seq(S)
      /\ <<NX!generateRoutes(svc)>> \in Seq(S)
      /\ <<NX!generateServiceContext(svc)>> \in Seq(S)
  <2>. HIDE DEF S, dto, handling, logic
  <2>1. \A n \in Nat : \A f : f = [i \in 1..n |-> f[i]] /\ (\A i \in 1..n : f[i] \in S) => f \in Seq(S)
    OBVIOUS
  <2>2. dto = [i \in 1..Len(edition.types) |-> dto[i]] /\ \A i \in 1..Len(edition.types) : dto[i] \in S
    BY <1>2, <1>3
  <2>3. dto \in Seq(S)
    BY <1>1, <2>1, <2>2, Zenon
  <2>4. handling = [i \in 1..Len(svc.handlers) |-> handling[i]] /\ \A i \in 1..Len(svc.handlers) : handling[i] \in S
    BY <1>2, <1>3
  <2>5. handling \in Seq(S)
    BY <1>1, <2>1, <2>4, Zenon
  <2>6. logic = [i \in 1..Len(svc.handlers) |-> logic[i]] /\ \A i \in 1..Len(svc.handlers) : logic[i] \in S
    BY <1>2, <1>3
  <2>7. logic \in Seq(S)
    BY <1>1, <2>1, <2>6, Zenon
  <2>8. \A e \in S : <<e>> \in Seq(S)
    OBVIOUS
  <2>. QED  BY <1>3, <2>3, <2>5, <2>7, <2>8, Zenon
<1>5. /\ \A e : e \in NX!ToSet(dto) <=> \E t \in NX!ToSet(edition.types) : e = TypeFile(svc, t)
      /\ \A e : e \in NX!ToSet(handling) <=> \E h \in NX!ToSet(svc.handlers) : e = HandlerFile(svc, h)
      /\ \A e : e \in NX!ToSet(logic) <=> \E h \in NX!ToSet(svc.handlers) :
                                            e = NX!LogicFile(svc, h, NX!FileName(h))
  <2>. HIDE DEF S, dto, handling, logic
  <2>. QED  BY <1>1, <1>2 DEF NX!ToSet
<1>6. \A e : NX!ToSet(<<e>>) = {e}
  BY DEF NX!ToSet
<1>. HIDE DEF S, dto, handling, logic
<1>7. NX!BeforeRouter(svc, edition) =
        (((dto \o <<NX!generateConfig(svc)>>) \o (handling \o <<NX!generateRoutes(svc)>>)) \o logic)
          \o <<NX!generateServiceContext(svc)>>
  BY <1>2, Zenon DEF NX!BeforeRouter, dto, logic
<1>8. /\ dto \o <<NX!generateConfig(svc)>> \in Seq(S)
      /\ \A e : e \in NX!ToSet(dto \o <<NX!generateConfig(svc)>>)
                  <=> e \in NX!ToSet(dto) \/ e = NX!generateConfig(svc)
  BY <1>4, <1>6, JoinElements, ZenonT(30)
<1>9. /\ handling \o <<NX!generateRoutes(svc)>> \in Seq(S)
      /\ \A e : e \in NX!ToSet(handling \o <<NX!generateRoutes(svc)>>)
                  <=> e \in NX!ToSet(handling) \/ e = NX!generateRoutes(svc)
  BY <1>4, <1>6, JoinElements, ZenonT(30)
<1>10. /\ NX!BeforeRouter(svc, edition) \in Seq(S)
       /\ \A e : e \in NX!ToSet(NX!BeforeRouter(svc, edition)) <=>
            \/ e \in NX!ToSet(dto) \/ e \in NX!ToSet(handling) \/ e \in NX!ToSet(logic)
            \/ e \in {NX!generateConfig(svc), NX!generateRoutes(svc), NX!generateServiceContext(svc)}
  <2>. DEFINE one == dto \o <<NX!generateConfig(svc)>>
              handled == handling \o <<NX!generateRoutes(svc)>>
              two == one \o handled
              three == two \o logic
              last == <<NX!generateServiceContext(svc)>>
  <2>1. /\ two \in Seq(S)
        /\ \A e : e \in NX!ToSet(two) <=> e \in NX!ToSet(one) \/ e \in NX!ToSet(handled)
    <3>1. one \in Seq(S) /\ handled \in Seq(S)
      BY <1>8, <1>9
    <3>. HIDE DEF one, handled
    <3>. QED  BY <3>1, JoinElements
  <2>2. /\ three \in Seq(S)
        /\ \A e : e \in NX!ToSet(three) <=> e \in NX!ToSet(two) \/ e \in NX!ToSet(logic)
    <3>. HIDE DEF two
    <3>. QED  BY <2>1, <1>4, JoinElements
  <2>3. /\ three \o last \in Seq(S)
        /\ \A e : e \in NX!ToSet(three \o last) <=> e \in NX!ToSet(three) \/ e \in NX!ToSet(last)
    <3>. HIDE DEF two, three
    <3>. QED  BY <2>2, <1>4, JoinElements
  <2>4. NX!BeforeRouter(svc, edition) = three \o last
    BY <1>7
  <2>5. \A e : e \in NX!ToSet(one) <=> e \in NX!ToSet(dto) \/ e = NX!generateConfig(svc)
    BY <1>8
  <2>6. \A e : e \in NX!ToSet(handled) <=> e \in NX!ToSet(handling) \/ e = NX!generateRoutes(svc)
    BY <1>9
  <2>7. \A e : e \in NX!ToSet(last) <=> e = NX!generateServiceContext(svc)
    BY <1>6
  <2>. HIDE DEF one, handled, two, three, last
  <2>8. NX!BeforeRouter(svc, edition) \in Seq(S)
    BY <2>3, <2>4
  <2>9. \A e : e \in NX!ToSet(NX!BeforeRouter(svc, edition)) <=>
               \/ e \in NX!ToSet(three)
               \/ e \in NX!ToSet(last)
    BY <2>3, <2>4
  <2>. QED  BY <2>1, <2>2, <2>5, <2>6, <2>7, <2>8, <2>9
<1>11. \A e : e \in S <=>
            \/ \E t \in NX!ToSet(edition.types) : e = TypeFile(svc, t)
            \/ \E h \in NX!ToSet(svc.handlers) : e = HandlerFile(svc, h)
            \/ \E h \in NX!ToSet(svc.handlers) : e = NX!LogicFile(svc, h, NX!FileName(h))
            \/ e \in {NX!generateConfig(svc), NX!generateRoutes(svc), NX!generateServiceContext(svc)}
  BY Zenon DEF S, FirstFiles
<1>12. NX!ToSet(NX!BeforeRouter(svc, edition)) = S
  BY <1>5, <1>10, <1>11
<1>13. NX!ToSet(NX!FromRouter(svc, edition)) = LastFiles(svc, edition)
  BY ListElements DEF NX!FromRouter, LastFiles
<1>14. NX!FromRouter(svc, edition) \in Seq(LastFiles(svc, edition))
  BY DEF NX!FromRouter, LastFiles
<1>. QED  BY <1>10, <1>12, <1>13, <1>14 DEF S

\* What a file of a service owns, by its directory.
LEMMA OwnedHere ==
  ASSUME NEW svc, NEW d, NEW n
  PROVE  LET dir == NX!Dir(svc, d) IN
         /\ d = "dto" => Owned(<<dir, n>>) = {<<dir, "type", n>>}
         /\ d = "config" => Owned(<<dir, n>>) = {<<dir, "NewConfig", <<>>>>}
         /\ d = "svc" => Owned(<<dir, n>>) = {<<dir, "ServiceContext", <<>>>>, <<dir, "NewServiceContext", <<>>>>}
         /\ d = "etc" => Owned(<<dir, n>>) = {<<dir, "yaml", <<>>>>}
         /\ d = "router" => Owned(<<dir, n>>) = {<<dir, "Register", <<>>>>}
         /\ d \notin {"dto", "config", "svc", "etc", "router"} => Owned(<<dir, n>>) = {}
<1>. DEFINE dir == NX!Dir(svc, d)
<1>1. dir[1] = "service" /\ Len(dir) = 3 /\ dir[3] = d
  BY DEF NX!Dir
<1>2. <<dir, n>>[1] = dir /\ <<dir, n>>[2] = n
  OBVIOUS
<1>. HIDE DEF dir
<1>. USE <1>1, <1>2 DEF Owned, NX!Gateway, NX!In, NX!One
<1>3. d = "dto" => Owned(<<dir, n>>) = {<<dir, "type", n>>}
  OBVIOUS
<1>4. d = "config" => Owned(<<dir, n>>) = {<<dir, "NewConfig", <<>>>>}
  OBVIOUS
<1>5. d = "svc" => Owned(<<dir, n>>) = {<<dir, "ServiceContext", <<>>>>, <<dir, "NewServiceContext", <<>>>>}
  OBVIOUS
<1>6. d = "etc" => Owned(<<dir, n>>) = {<<dir, "yaml", <<>>>>}
  OBVIOUS
<1>7. d = "router" => Owned(<<dir, n>>) = {<<dir, "Register", <<>>>>}
  OBVIOUS
<1>8. d \notin {"dto", "config", "svc", "etc", "router"} => Owned(<<dir, n>>) = {}
  OBVIOUS
<1>. QED  BY <1>3, <1>4, <1>5, <1>6, <1>7, <1>8, Zenon DEF dir

\* And one that is beside these directories.
LEMMA ModuleOwnsNothing == \A svc, n : Owned(<<NX!Module(svc), n>>) = {}
BY DEF Owned, NX!Module, NX!Gateway

\* What a command writes with a file of a service.
LEMMA CompanionHere ==
  ASSUME NEW svc, NEW n
  PROVE  /\ Companion(<<NX!Dir(svc, "handler"), n>>) = <<NX!Dir(svc, "handler"), <<"routes">>>>
         /\ Companion(<<NX!Dir(svc, "logic"), n>>) = <<NX!Dir(svc, "handler"), n>>
         /\ Companion(<<NX!Module(svc), n>>) = <<NX!Module(svc), n>>
BY DEF NX!Dir, NX!Module, Companion

\* Nothing, elsewhere.
LEMMA NoCompanion ==
  ASSUME NEW svc, NEW d, NEW n, d \notin {"handler", "logic"}
  PROVE  Companion(<<NX!Dir(svc, d), n>>) = <<NX!Dir(svc, d), n>>
BY DEF NX!Dir, Companion

\* Where the local symbols of a service are needed.
LEMMA UserHere ==
  ASSUME NEW svc, NEW n
  PROVE  /\ UserPath(<<NX!Dir(svc, "handler"), "SSEHandler", n>>) = <<NX!Dir(svc, "handler"), <<"routes">>>>
         /\ UserPath(<<NX!Dir(svc, "logic"), "NewLogic", n>>) = <<NX!Dir(svc, "handler"), n>>
         /\ UserPath(<<NX!Dir(svc, "logic"), "Logic.Execute", n>>) = <<NX!Dir(svc, "handler"), n>>
         /\ UserPath(<<NX!Dir(svc, "logic"), "NewSSELogic", n>>) = <<NX!Dir(svc, "handler"), Append(n, "sse")>>
         /\ UserPath(<<NX!Module(svc), "message", n>>) = <<NX!Module(svc), <<svc.group, "proto">>>>
BY DEF NX!Dir, NX!Module, UserPath

\* What Complete says of one of the files.
FitsIn(f, files) ==
  /\ Orderly(f.path, f) /\ Owned(f.path) \subseteq f.declares
  /\ \E g \in files : g.path = Companion(f.path)
  /\ \A u \in f.uses : u[2] \in NX!MissingWhats \/ \E g \in files : u \in g.declares

\* The files of a service before its router are what a command may write.
LEMMA FirstComplete ==
  ASSUME NEW edition, NX!WellFormed(edition), NEW svc \in NX!ToSet(edition.services)
  PROVE  Complete(FirstFiles(svc, edition))
<1>. DEFINE F == FirstFiles(svc, edition)
            configFile == NX!generateConfig(svc)
            routesFile == NX!generateRoutes(svc)
            contextFile == NX!generateServiceContext(svc)
            SC == NX!ServiceContext(svc)
<1>1. /\ configFile \in F /\ routesFile \in F /\ contextFile \in F
      /\ \A t \in NX!ToSet(edition.types) : TypeFile(svc, t) \in F
      /\ \A h \in NX!ToSet(svc.handlers) :
           HandlerFile(svc, h) \in F /\ NX!LogicFile(svc, h, NX!FileName(h)) \in F
  BY DEF FirstFiles
<1>. HIDE DEF F
<1>. USE DEF NX!File, NX!In, NX!One
<1>10. /\ \A n : Companion(<<NX!Dir(svc, "handler"), n>>) = <<NX!Dir(svc, "handler"), <<"routes">>>>
       /\ \A n : Companion(<<NX!Dir(svc, "logic"), n>>) = <<NX!Dir(svc, "handler"), n>>
       /\ \A n : Companion(<<NX!Dir(svc, "svc"), n>>) = <<NX!Dir(svc, "svc"), n>>
  <2>1. \A n : Companion(<<NX!Dir(svc, "svc"), n>>) = <<NX!Dir(svc, "svc"), n>>
    BY NoCompanion
  <2>. QED  BY <2>1, CompanionHere, Zenon
<1>2. SC \in contextFile.declares
  BY DEF NX!generateServiceContext
<1>3. FitsIn(configFile, F)
  <2>. USE DEF NX!generateConfig, NX!NewConfig
  <2>1. Owned(configFile.path) = configFile.declares
    BY OwnedHere
  <2>2. Orderly(configFile.path, configFile)
    BY <2>1 DEF Orderly, Local
  <2>3. Companion(configFile.path) = configFile.path /\ configFile.uses = {}
    BY NoCompanion
  <2>. QED  BY <1>1, <2>1, <2>2, <2>3 DEF FitsIn
<1>4. FitsIn(contextFile, F)
  <2>. USE DEF NX!generateServiceContext, NX!ServiceContext, NX!NewConfig
  <2>1. Owned(contextFile.path) = contextFile.declares
    BY OwnedHere
  <2>2. Orderly(contextFile.path, contextFile)
    BY <2>1 DEF Orderly, Stable, Local
  <2>3. Companion(contextFile.path) = contextFile.path
    <3>1. contextFile.path = <<NX!Dir(svc, "svc"), <<"service", "context">>>>
      OBVIOUS
    <3>. HIDE DEF contextFile
    <3>. QED  BY <3>1, <1>10, Zenon
  <2>4. \A u \in contextFile.uses : u \in configFile.declares
    BY DEF NX!generateConfig
  <2>. QED  BY <1>1, <2>1, <2>2, <2>3, <2>4 DEF FitsIn
<1>5. FitsIn(routesFile, F)
  <2>. USE DEF NX!generateRoutes, NX!ServiceContext, NX!HandlerFunc
  <2>0. routesFile.path = <<NX!Dir(svc, "handler"), <<"routes">>>>
    OBVIOUS
  <2>1. Owned(routesFile.path) = {}
    BY OwnedHere
  <2>2. \A u \in routesFile.declares : u[2] \notin Stable \cup Local
    BY DEF Stable, Local
  <2>3. \A u \in routesFile.uses :
          \/ u[2] \in Stable \cup NX!MissingWhats
          \/ u[2] \in Local /\ UserPath(u) = routesFile.path
    <3>1. \A u \in routesFile.uses :
            \/ u[2] \in {"ServiceContext", "HandlerWrapper"}
            \/ \E n : u = <<NX!Dir(svc, "handler"), "SSEHandler", n>>
      OBVIOUS
    <3>2. \A n : LET u == <<NX!Dir(svc, "handler"), "SSEHandler", n>>
                IN UserPath(u) = routesFile.path /\ u[2] = "SSEHandler"
      BY <2>0, UserHere
    <3>. HIDE DEF routesFile
    <3>. QED  BY <3>1, <3>2 DEF Stable, Local, NX!MissingWhats
  <2>4. Companion(routesFile.path) = routesFile.path
    <3>. HIDE DEF routesFile
    <3>. QED  BY <2>0, <1>10, Zenon
  <2>5. \A u \in routesFile.uses : u = SC \/ u[2] \in NX!MissingWhats
            \/ \E h \in NX!ToSet(svc.handlers) : u \in HandlerFile(svc, h).declares
    BY DEF HandlerFile, NX!MissingWhats
  <2>6. Orderly(routesFile.path, routesFile)
    BY <2>2, <2>3 DEF Orderly
  <2>. QED  BY <1>1, <1>2, <2>1, <2>4, <2>5, <2>6 DEF FitsIn
<1>6. ASSUME NEW t \in NX!ToSet(edition.types) PROVE FitsIn(TypeFile(svc, t), F)
  <2>. DEFINE f == TypeFile(svc, t)
  <2>1. Owned(f.path) = f.declares
    BY OwnedHere DEF TypeFile
  <2>2. Orderly(f.path, f)
    BY <2>1 DEF TypeFile, Orderly, Stable, Local
  <2>3. Companion(f.path) = f.path
    BY NoCompanion DEF TypeFile
  <2>4. \A u \in f.uses : \E s \in NX!ToSet(edition.types) : u \in TypeFile(svc, s).declares
    <3>1. \A n \in t.fields : \E s \in NX!ToSet(edition.types) : s.name = n
      BY Parts
    <3>. QED  BY <3>1 DEF TypeFile
  <2>. HIDE DEF f
  <2>. QED  BY <1>1, <2>1, <2>2, <2>3, <2>4 DEF FitsIn, f
<1>7. ASSUME NEW h \in NX!ToSet(svc.handlers) PROVE FitsIn(HandlerFile(svc, h), F)
  <2>. DEFINE f == HandlerFile(svc, h)
              logic == NX!LogicFile(svc, h, NX!FileName(h))
  <2>. USE DEF NX!HandlerFunc, NX!NewLogic, NX!Execute, NX!ServiceContext
  <2>0. h.sse \in BOOLEAN
    BY Parts
  <2>1. Owned(f.path) = {}
    BY OwnedHere DEF HandlerFile
  <2>2. Companion(f.path) = routesFile.path
    <3>1. f.path = <<NX!Dir(svc, "handler"), NX!FileName(h)>>
      BY DEF HandlerFile
    <3>2. routesFile.path = <<NX!Dir(svc, "handler"), <<"routes">>>>
      BY DEF NX!generateRoutes
    <3>. HIDE DEF f, routesFile
    <3>. QED  BY <3>1, <3>2, <1>10, Zenon
  <2>3. \A u \in f.declares : u[2] \notin Stable /\ (u[2] \in Local => UserPath(u) = Companion(f.path))
    <3>1. routesFile.path = <<NX!Dir(svc, "handler"), <<"routes">>>>
      BY DEF NX!generateRoutes
    <3>2. \A u \in f.declares : u[2] = "Handler" \/ u = <<NX!Dir(svc, "handler"), "SSEHandler", h.name>>
      BY <2>0 DEF HandlerFile
    <3>. DEFINE stream == <<NX!Dir(svc, "handler"), "SSEHandler", h.name>>
    <3>3. stream[2] = "SSEHandler"
      OBVIOUS
    <3>4. UserPath(stream) = <<NX!Dir(svc, "handler"), <<"routes">>>>
      BY UserHere, Zenon
    <3>. HIDE DEF f, routesFile, stream
    <3>5. Companion(f.path) = UserPath(stream)
      BY <2>2, <3>1, <3>4, Zenon
    <3>. QED  BY <3>2, <3>3, <3>5 DEF Stable, Local, stream
  <2>4. \A u \in f.uses :
          \/ u[2] \in Stable \cup NX!MissingWhats
          \/ u[2] \in Local /\ UserPath(u) = f.path
    <3>. DEFINE new == <<NX!Dir(svc, "logic"), "NewLogic", h.name>>
                run == <<NX!Dir(svc, "logic"), "Logic.Execute", h.name>>
                stream == <<NX!Dir(svc, "logic"), "NewSSELogic", h.name>>
    <3>1. CASE h.sse
      <4>1. f.path = <<NX!Dir(svc, "handler"), Append(h.name, "sse")>>
        BY <3>1 DEF HandlerFile, NX!FileName
      <4>2. \A u \in f.uses : u[2] \in {"SSELogic.Execute", "ServiceContext"} \/ u = stream
        BY <3>1 DEF HandlerFile
      <4>3. stream[2] = "NewSSELogic"
        OBVIOUS
      <4>4. UserPath(stream) = <<NX!Dir(svc, "handler"), Append(h.name, "sse")>>
        BY UserHere, Zenon
      <4>. HIDE DEF f, stream
      <4>5. UserPath(stream) = f.path
        BY <4>1, <4>4, Zenon
      <4>. QED  BY <4>2, <4>3, <4>5 DEF Stable, Local, NX!MissingWhats
    <3>2. CASE ~h.sse
      <4>1. f.path = <<NX!Dir(svc, "handler"), h.name>>
        BY <3>2 DEF HandlerFile, NX!FileName
      <4>2. \A u \in f.uses : u[2] = "ServiceContext" \/ u = new \/ u = run
        BY <3>2 DEF HandlerFile
      <4>3. new[2] = "NewLogic" /\ run[2] = "Logic.Execute"
        OBVIOUS
      <4>4. UserPath(new) = <<NX!Dir(svc, "handler"), h.name>> /\ UserPath(run) = <<NX!Dir(svc, "handler"), h.name>>
        BY UserHere, Zenon
      <4>. HIDE DEF f, new, run
      <4>5. UserPath(new) = f.path /\ UserPath(run) = f.path
        BY <4>1, <4>4, Zenon
      <4>. QED  BY <4>2, <4>3, <4>5 DEF Stable, Local
    <3>. QED  BY <3>1, <3>2
  <2>5. \A u \in f.uses : u[2] \in NX!MissingWhats \/ u = SC \/ u \in logic.declares
    BY <2>0 DEF HandlerFile, NX!LogicFile, NX!MissingWhats
  <2>6. Orderly(f.path, f)
    BY <2>3, <2>4 DEF Orderly
  <2>. HIDE DEF f, logic
  <2>. QED  BY <1>1, <1>2, <2>1, <2>2, <2>5, <2>6 DEF FitsIn, f, logic
<1>8. ASSUME NEW h \in NX!ToSet(svc.handlers) PROVE FitsIn(NX!LogicFile(svc, h, NX!FileName(h)), F)
  <2>. DEFINE f == NX!LogicFile(svc, h, NX!FileName(h))
              handled == HandlerFile(svc, h)
  <2>. USE DEF NX!NewLogic, NX!Execute, NX!ServiceContext
  <2>0. h.sse \in BOOLEAN
    BY Parts
  <2>1. Owned(f.path) = {}
    BY OwnedHere DEF NX!LogicFile
  <2>2. Companion(f.path) = <<NX!Dir(svc, "handler"), NX!FileName(h)>>
    BY CompanionHere DEF NX!LogicFile
  <2>3. handled.path = Companion(f.path)
    BY <2>2 DEF HandlerFile
  <2>4. \A u \in f.declares : u[2] \notin Stable /\ UserPath(u) = Companion(f.path)
    <3>1. CASE h.sse
      <4>1. NX!FileName(h) = Append(h.name, "sse")
        BY <3>1 DEF NX!FileName
      <4>2. \A u \in f.declares : u = <<NX!Dir(svc, "logic"), "NewSSELogic", h.name>> /\ u[2] = "NewSSELogic"
        BY <3>1 DEF NX!LogicFile
      <4>3. UserPath(<<NX!Dir(svc, "logic"), "NewSSELogic", h.name>>) = <<NX!Dir(svc, "handler"), Append(h.name, "sse")>>
        BY UserHere, Zenon
      <4>. HIDE DEF f
      <4>4. \A u \in f.declares : UserPath(u) = Companion(f.path)
        BY <2>2, <4>1, <4>2, <4>3, Zenon
      <4>. QED  BY <4>2, <4>4 DEF Stable
    <3>2. CASE ~h.sse
      <4>1. NX!FileName(h) = h.name
        BY <3>2 DEF NX!FileName
      <4>2. \A u \in f.declares :
              /\ \/ u = <<NX!Dir(svc, "logic"), "NewLogic", h.name>>
                 \/ u = <<NX!Dir(svc, "logic"), "Logic.Execute", h.name>>
              /\ u[2] \in {"NewLogic", "Logic.Execute"}
        BY <3>2 DEF NX!LogicFile
      <4>3. /\ UserPath(<<NX!Dir(svc, "logic"), "NewLogic", h.name>>) = <<NX!Dir(svc, "handler"), h.name>>
            /\ UserPath(<<NX!Dir(svc, "logic"), "Logic.Execute", h.name>>) = <<NX!Dir(svc, "handler"), h.name>>
        BY UserHere, Zenon
      <4>. HIDE DEF f
      <4>4. \A u \in f.declares : UserPath(u) = Companion(f.path)
        BY <2>2, <4>1, <4>2, <4>3, Zenon
      <4>. QED  BY <4>2, <4>4 DEF Stable
    <3>. QED  BY <3>1, <3>2
  <2>5. \A u \in f.uses : u = SC /\ u[2] \in Stable
    BY DEF NX!LogicFile, Stable
  <2>6. Orderly(f.path, f)
    BY <2>4, <2>5 DEF Orderly
  <2>. HIDE DEF f, handled
  <2>. QED  BY <1>1, <1>2, <2>1, <2>3, <2>5, <2>6 DEF FitsIn, f, handled
<1>9. \A f \in F : FitsIn(f, F)
  <2>. HIDE DEF configFile, routesFile, contextFile
  <2>. QED  BY <1>3, <1>4, <1>5, <1>6, <1>7, <1>8 DEF F, FirstFiles, configFile, routesFile, contextFile
<1>. QED  BY <1>9, Zenon DEF FitsIn, Complete, Regular, F

\* Its other files find what they need among all of them.
LEMMA LastFit ==
  ASSUME NEW edition, NX!WellFormed(edition), NEW svc \in NX!ToSet(edition.services), NEW F,
         FirstFiles(svc, edition) \subseteq F, LastFiles(svc, edition) \subseteq F
  PROVE  \A f \in LastFiles(svc, edition) : FitsIn(f, F)
<1>. DEFINE configFile == NX!generateConfig(svc)
            contextFile == NX!generateServiceContext(svc)
            routerFile == NX!generateRouter(svc)
            authFile == NX!generateMiddleware(svc)
            clientFile == NX!generateClient(svc)
            docsFile == NX!generateOpenAPI(svc)
            mainFile == NX!generateMain(svc)
            protoFile == NX!generateProto(svc, edition)
            yamlFile == NX!generateServiceYAML(svc)
            SC == NX!ServiceContext(svc)
<1>1. /\ configFile \in F /\ contextFile \in F /\ routerFile \in F /\ authFile \in F /\ clientFile \in F
      /\ docsFile \in F /\ mainFile \in F /\ protoFile \in F /\ yamlFile \in F
  BY DEF FirstFiles, LastFiles
<1>. USE DEF NX!File, NX!In, NX!One
<1>2. SC \in contextFile.declares
  BY DEF NX!generateServiceContext
<1>3. FitsIn(routerFile, F)
  <2>1. /\ routerFile.path = <<NX!Dir(svc, "router"), <<"router">>>>
        /\ routerFile.declares = {<<NX!Dir(svc, "router"), "Register", <<>>>>}
    BY DEF NX!generateRouter
  <2>2. \A u \in routerFile.uses :
          \/ u = SC /\ u[2] = "ServiceContext"
          \/ u[2] \in {"NewHandler", "Handler.Method"}
    BY DEF NX!generateRouter, NX!ServiceContext
  <2>. HIDE DEF routerFile, contextFile, SC
  <2>3. Owned(routerFile.path) = routerFile.declares
    BY <2>1, OwnedHere
  <2>4. Companion(routerFile.path) = routerFile.path
    BY <2>1, NoCompanion
  <2>5. Orderly(routerFile.path, routerFile)
    BY <2>1, <2>2, <2>3 DEF Orderly, Stable, Local, NX!MissingWhats
  <2>. QED  BY <1>1, <1>2, <2>2, <2>3, <2>4, <2>5 DEF FitsIn, NX!MissingWhats
<1>4. FitsIn(authFile, F)
  <2>1. /\ authFile.path = <<NX!Dir(svc, "middleware"), <<"auth">>>> /\ authFile.uses = {}
        /\ \A u \in authFile.declares : u[2] = "AuthMiddleware"
    BY DEF NX!generateMiddleware
  <2>. HIDE DEF authFile
  <2>2. Owned(authFile.path) = {}
    BY <2>1, OwnedHere
  <2>3. Companion(authFile.path) = authFile.path
    BY <2>1, NoCompanion
  <2>4. Orderly(authFile.path, authFile)
    BY <2>1 DEF Orderly, Stable, Local
  <2>. QED  BY <1>1, <2>1, <2>2, <2>3, <2>4 DEF FitsIn
<1>5. FitsIn(clientFile, F)
  <2>1. /\ clientFile.path = <<NX!Dir(svc, "client"), <<"http", "client">>>> /\ clientFile.uses = {}
        /\ \A u \in clientFile.declares : u[2] = "Client.Method"
    BY DEF NX!generateClient
  <2>. HIDE DEF clientFile
  <2>2. Owned(clientFile.path) = {}
    BY <2>1, OwnedHere
  <2>3. Companion(clientFile.path) = clientFile.path
    BY <2>1, NoCompanion
  <2>4. Orderly(clientFile.path, clientFile)
    BY <2>1 DEF Orderly, Stable, Local
  <2>. QED  BY <1>1, <2>1, <2>2, <2>3, <2>4 DEF FitsIn
<1>6. FitsIn(docsFile, F)
  <2>1. /\ docsFile.path = <<NX!Dir(svc, "docs"), <<"openapi">>>>
        /\ \A u \in docsFile.declares : u[2] = "Response"
        /\ \A u \in docsFile.uses : u[2] = "Response.Schema"
    BY DEF NX!generateOpenAPI
  <2>. HIDE DEF docsFile
  <2>2. Owned(docsFile.path) = {}
    BY <2>1, OwnedHere
  <2>3. Companion(docsFile.path) = docsFile.path
    BY <2>1, NoCompanion
  <2>4. Orderly(docsFile.path, docsFile)
    BY <2>1 DEF Orderly, Stable, Local, NX!MissingWhats
  <2>. QED  BY <1>1, <2>1, <2>2, <2>3, <2>4 DEF FitsIn, NX!MissingWhats
<1>7. FitsIn(yamlFile, F)
  <2>1. /\ yamlFile.path = <<NX!Dir(svc, "etc"), <<svc.group>>>> /\ yamlFile.uses = {}
        /\ yamlFile.declares = {<<NX!Dir(svc, "etc"), "yaml", <<>>>>}
    BY DEF NX!generateServiceYAML, NX!Etc
  <2>. HIDE DEF yamlFile
  <2>2. Owned(yamlFile.path) = yamlFile.declares
    BY <2>1, OwnedHere
  <2>3. Companion(yamlFile.path) = yamlFile.path
    BY <2>1, NoCompanion
  <2>4. Orderly(yamlFile.path, yamlFile)
    BY <2>1, <2>2 DEF Orderly, Stable, Local
  <2>. QED  BY <1>1, <2>1, <2>2, <2>3, <2>4 DEF FitsIn
<1>8. FitsIn(mainFile, F)
  <2>1. /\ mainFile.path = <<NX!Module(svc), <<"main">>>> /\ mainFile.declares = {}
    BY DEF NX!generateMain
  <2>2. \A u \in mainFile.uses :
          \/ u[2] = "RegisterHTTPRoutes"
          \/ u[2] = "NewConfig" /\ u \in configFile.declares
          \/ u[2] = "NewServiceContext" /\ u \in contextFile.declares
          \/ u[2] = "yaml" /\ u \in yamlFile.declares
    BY DEF NX!generateMain, NX!generateConfig, NX!NewConfig, NX!generateServiceContext, NX!generateServiceYAML, NX!Etc
  <2>. HIDE DEF mainFile, configFile, contextFile, yamlFile
  <2>3. Owned(mainFile.path) = {}
    BY <2>1, ModuleOwnsNothing
  <2>4. Companion(mainFile.path) = mainFile.path
    BY <2>1, CompanionHere, Zenon
  <2>5. Orderly(mainFile.path, mainFile)
    BY <2>1, <2>2 DEF Orderly, Stable, NX!MissingWhats
  <2>. QED  BY <1>1, <2>2, <2>3, <2>4, <2>5 DEF FitsIn, NX!MissingWhats
<1>9. FitsIn(protoFile, F)
  <2>1. /\ protoFile.path = <<NX!Module(svc), <<svc.group, "proto">>>>
        /\ \A u \in protoFile.declares \cup protoFile.uses :
             u[2] = "message" /\ \E n : u = <<NX!Module(svc), "message", n>>
    BY DEF NX!generateProto, NX!Message
  <2>2. \A u \in protoFile.uses : u \in protoFile.declares
    <3>1. protoFile.declares = {<<NX!Module(svc), "message", t.name>> : t \in NX!ToSet(edition.types)}
      BY DEF NX!generateProto, NX!Message
    <3>2. ASSUME NEW h \in NX!ToSet(svc.handlers), h.grpc, NEW suffix \in {"req", "resp"}
          PROVE  \E s \in NX!ToSet(edition.types) : s.name = Append(h.name, suffix)
      BY <3>2, Parts
    <3>3. ASSUME NEW n \in UNION {t.fields : t \in NX!ToSet(edition.types)}
          PROVE  \E s \in NX!ToSet(edition.types) : s.name = n
      BY <3>3, Parts
    <3>4. ASSUME NEW u \in protoFile.uses
          PROVE  \/ \E h \in NX!ToSet(svc.handlers) : \E suffix \in {"req", "resp"} :
                      h.grpc /\ u = <<NX!Module(svc), "message", Append(h.name, suffix)>>
                 \/ \E n \in UNION {t.fields : t \in NX!ToSet(edition.types)} :
                      u = <<NX!Module(svc), "message", n>>
      BY <3>4 DEF NX!generateProto, NX!Message
    <3>5. \A s \in NX!ToSet(edition.types) : <<NX!Module(svc), "message", s.name>> \in protoFile.declares
      BY <3>1
    <3>6. \A h \in NX!ToSet(svc.handlers) : \A suffix \in {"req", "resp"} :
            h.grpc => <<NX!Module(svc), "message", Append(h.name, suffix)>> \in protoFile.declares
      <4>. HIDE DEF protoFile
      <4>. QED  BY <3>2, <3>5
    <3>7. \A n \in UNION {t.fields : t \in NX!ToSet(edition.types)} :
            <<NX!Module(svc), "message", n>> \in protoFile.declares
      <4>. HIDE DEF protoFile
      <4>. QED  BY <3>3, <3>5
    <3>. HIDE DEF protoFile
    <3>. QED  BY <3>4, <3>6, <3>7, Zenon
  <2>. HIDE DEF protoFile
  <2>3. Owned(protoFile.path) = {}
    BY <2>1, ModuleOwnsNothing
  <2>4. Companion(protoFile.path) = protoFile.path
    BY <2>1, CompanionHere, Zenon
  <2>5. \A u \in protoFile.declares \cup protoFile.uses : UserPath(u) = protoFile.path
    <3>1. \A n : UserPath(<<NX!Module(svc), "message", n>>) = protoFile.path
      BY <2>1, UserHere, Zenon
    <3>. QED  BY <2>1, <3>1, Zenon
  <2>6. Orderly(protoFile.path, protoFile)
    BY <2>1, <2>4, <2>5 DEF Orderly, Stable, Local
  <2>. QED  BY <1>1, <2>2, <2>3, <2>4, <2>6 DEF FitsIn
<1>. HIDE DEF routerFile, authFile, clientFile, docsFile, mainFile, protoFile, yamlFile
<1>. QED  BY <1>3, <1>4, <1>5, <1>6, <1>7, <1>8, <1>9
          DEF LastFiles, routerFile, authFile, clientFile, docsFile, mainFile, protoFile, yamlFile

\* The files of one service need those of no other.
LEMMA ServiceComplete ==
  ASSUME NEW edition, NX!WellFormed(edition), NEW svc \in NX!ToSet(edition.services)
  PROVE  \A f \in FirstFiles(svc, edition) \cup LastFiles(svc, edition) :
           FitsIn(f, FirstFiles(svc, edition) \cup LastFiles(svc, edition))
<1>. DEFINE F == FirstFiles(svc, edition)
            A == F \cup LastFiles(svc, edition)
<1>1. Complete(F)
  BY FirstComplete
<1>2. \A f \in F : FitsIn(f, F)
  <2>. HIDE DEF F
  <2>. QED  BY <1>1, Zenon DEF Complete, Regular, FitsIn
<1>3. \A f \in F : FitsIn(f, A)
  <2>1. \A g \in F : g \in A
    OBVIOUS
  <2>. HIDE DEF F, A
  <2>. QED  BY <1>2, <2>1, Zenon DEF FitsIn
<1>4. \A f \in LastFiles(svc, edition) : FitsIn(f, A)
  BY LastFit
<1>. QED  BY <1>3, <1>4

\* An edition's command lists files that are orderly, and with an info block complete.
LEMMA GenerateFiles ==
  ASSUME NEW edition, NX!WellFormed(edition)
  PROVE  /\ NX!Generate(edition) \in Seq(NX!ToSet(NX!Generate(edition)))
         /\ \A f \in NX!ToSet(NX!Generate(edition)) : Orderly(f.path, f)
         /\ edition.info => Complete(NX!ToSet(NX!Generate(edition)))
<1>. DEFINE A(svc) == FirstFiles(svc, edition) \cup LastFiles(svc, edition)
            S == UNION {A(svc) : svc \in NX!ToSet(edition.services)}
            parts == [i \in DOMAIN edition.services |->
                        NX!BeforeRouter(edition.services[i], edition) \o NX!FromRouter(edition.services[i], edition)]
<1>1. DOMAIN edition.services = 1..Len(edition.services) /\ Len(edition.services) \in Nat
  BY Parts
<1>2. \A i \in DOMAIN edition.services : edition.services[i] \in NX!ToSet(edition.services)
  BY DEF NX!ToSet
<1>3. ASSUME NEW svc \in NX!ToSet(edition.services)
      PROVE  /\ NX!BeforeRouter(svc, edition) \in Seq(S)
             /\ NX!FromRouter(svc, edition) \in Seq(S)
             /\ NX!ToSet(NX!BeforeRouter(svc, edition)) = FirstFiles(svc, edition)
             /\ NX!ToSet(NX!FromRouter(svc, edition)) = LastFiles(svc, edition)
  <2>1. FirstFiles(svc, edition) \subseteq S /\ LastFiles(svc, edition) \subseteq S
    OBVIOUS
  <2>2. \A X, Y, q : q \in Seq(X) /\ X \subseteq Y => q \in Seq(Y)
    OBVIOUS
  <2>. HIDE DEF S
  <2>. QED  BY <2>1, <2>2, ServiceLists
<1>4. \A f \in S : FitsIn(f, S)
  <2>1. ASSUME NEW f \in S PROVE FitsIn(f, S)
    <3>1. PICK svc \in NX!ToSet(edition.services) : f \in A(svc)
      OBVIOUS
    <3>2. FitsIn(f, A(svc))
      BY <3>1, ServiceComplete
    <3>3. \A g \in A(svc) : g \in S
      OBVIOUS
    <3>. HIDE DEF A, S
    <3>. QED  BY <3>2, <3>3, Zenon DEF FitsIn
  <2>. HIDE DEF S
  <2>. QED  BY <2>1
<1>5. CASE edition.info \/ edition.services = <<>>
  <2>1. NX!Generate(edition) = NX!FlattenSeq(parts)
    BY <1>5, Zenon DEF NX!Generate
  <2>2. \A i \in DOMAIN edition.services :
          /\ parts[i] \in Seq(S)
          /\ \A e : e \in NX!ToSet(parts[i]) <=> e \in A(edition.services[i])
    <3>1. ASSUME NEW i \in DOMAIN edition.services
          PROVE  /\ parts[i] \in Seq(S)
                 /\ \A e : e \in NX!ToSet(parts[i]) <=> e \in A(edition.services[i])
      <4>. DEFINE one == NX!BeforeRouter(edition.services[i], edition)
                  other == NX!FromRouter(edition.services[i], edition)
      <4>1. parts[i] = one \o other
        OBVIOUS
      <4>2. /\ one \in Seq(S) /\ other \in Seq(S)
            /\ \A e : e \in A(edition.services[i]) <=> e \in NX!ToSet(one) \/ e \in NX!ToSet(other)
        <5>. HIDE DEF S
        <5>. QED  BY <1>2, <1>3
      <4>. HIDE DEF S, A, parts, one, other
      <4>. QED  BY <4>1, <4>2, JoinElements
    <3>. HIDE DEF S, A, parts
    <3>. QED  BY <3>1
  <2>3. parts \in Seq(Seq(S))
    <3>1. DOMAIN parts = 1..Len(edition.services) /\ parts = [i \in 1..Len(edition.services) |-> parts[i]]
      BY <1>1
    <3>. HIDE DEF S, A, parts
    <3>. QED  BY <1>1, <2>2, <3>1
  <2>4. /\ NX!Generate(edition) \in Seq(S)
        /\ \A e : e \in NX!ToSet(NX!Generate(edition)) <=> \E i \in DOMAIN parts : e \in NX!ToSet(parts[i])
    <3>. HIDE DEF S, A, parts
    <3>. QED  BY <2>1, <2>3, FlattenElements
  <2>5. \A e : e \in S <=> \E i \in DOMAIN edition.services : e \in A(edition.services[i])
    <3>. HIDE DEF A
    <3>. QED  BY DEF NX!ToSet
  <2>6. DOMAIN parts = DOMAIN edition.services
    OBVIOUS
  <2>7. NX!ToSet(NX!Generate(edition)) = S
    <3>. HIDE DEF S, A, parts
    <3>. QED  BY <2>2, <2>4, <2>5, <2>6
  <2>. HIDE DEF S, A, parts
  <2>. QED  BY <1>4, <2>4, <2>7, Zenon DEF Complete, Regular, FitsIn
<1>6. CASE ~(edition.info \/ edition.services = <<>>)
  <2>1. edition.services[1] \in NX!ToSet(edition.services)
    <3>1. Len(edition.services) # 0
      BY <1>6, <1>1
    <3>. QED  BY <1>1, <1>2, <3>1
  <2>2. NX!Generate(edition) = NX!BeforeRouter(edition.services[1], edition)
    BY <1>6, Zenon DEF NX!Generate
  <2>3. NX!Generate(edition) \in Seq(FirstFiles(edition.services[1], edition))
        /\ NX!ToSet(NX!Generate(edition)) = FirstFiles(edition.services[1], edition)
    BY <2>1, <2>2, ServiceLists
  <2>4. Complete(FirstFiles(edition.services[1], edition))
    BY <2>1, FirstComplete
  <2>. HIDE DEF S, A, parts
  <2>. QED  BY <1>6, <2>3, <2>4, Zenon DEF Complete, Regular
<1>. QED  BY <1>5, <1>6

-----------------------------------------------------------------------------
(* The tree *)

\* What the commands write is orderly, and complete if they come to their end.
LEMMA CommandFiles ==
  /\ \A edition \in Editions :
       /\ NX!Generate(edition) \in Seq(AllFiles)
       /\ edition.info => Complete(NX!ToSet(NX!Generate(edition)))
  /\ \A files \in {NX!genGateway, NX!newGateway, NX!genClient, NX!newRpc, NX!newRpcGateway} :
       files \in Seq(AllFiles) /\ Complete(NX!ToSet(files))
  /\ \A f \in AllFiles : Orderly(f.path, f)
<1>. DEFINE Fixed == {NX!genGateway, NX!newGateway, NX!genClient, NX!newRpc, NX!newRpcGateway}
            Generated == {NX!Generate(edition) : edition \in Editions}
<1>1. \A files \in Generated \cup Fixed : NX!ToSet(files) \subseteq AllFiles
  BY DEF AllFiles
<1>2. \A X, Y, q : q \in Seq(X) /\ X \subseteq Y => q \in Seq(Y)
  OBVIOUS
<1>3. ASSUME NEW edition \in Editions
      PROVE  /\ NX!Generate(edition) \in Seq(AllFiles)
             /\ edition.info => Complete(NX!ToSet(NX!Generate(edition)))
             /\ \A f \in NX!ToSet(NX!Generate(edition)) : Orderly(f.path, f)
  <2>1. NX!WellFormed(edition)
    BY EditionsAssumption
  <2>2. NX!ToSet(NX!Generate(edition)) \subseteq AllFiles
    BY <1>1
  <2>. QED  BY <1>2, <2>1, <2>2, GenerateFiles, Zenon
<1>4. ASSUME NEW files \in Fixed
      PROVE  files \in Seq(NX!ToSet(files)) /\ Complete(NX!ToSet(files))
  <2>1. /\ NX!genGateway \in Seq(NX!ToSet(NX!genGateway)) /\ NX!newGateway \in Seq(NX!ToSet(NX!newGateway))
        /\ NX!genClient \in Seq(NX!ToSet(NX!genClient)) /\ NX!newRpc \in Seq(NX!ToSet(NX!newRpc))
        /\ NX!newRpcGateway \in Seq(NX!ToSet(NX!newRpcGateway))
    <3>1. /\ \A a, b : <<a, b>> \in Seq(NX!ToSet(<<a, b>>))
          /\ \A a, b, c, d : <<a, b, c, d>> \in Seq(NX!ToSet(<<a, b, c, d>>))
          /\ \A a, b, c, d, e, f, g : <<a, b, c, d, e, f, g>> \in Seq(NX!ToSet(<<a, b, c, d, e, f, g>>))
      BY ListElements
    <3>2. NX!genGateway \in Seq(NX!ToSet(NX!genGateway))
      BY <3>1, Zenon DEF NX!genGateway
    <3>3. NX!newGateway \in Seq(NX!ToSet(NX!newGateway))
      BY <3>1, Zenon DEF NX!newGateway
    <3>4. NX!genClient \in Seq(NX!ToSet(NX!genClient))
      BY <3>1, Zenon DEF NX!genClient
    <3>5. NX!newRpc \in Seq(NX!ToSet(NX!newRpc))
      BY <3>1, Zenon DEF NX!newRpc
    <3>6. NX!newRpcGateway \in Seq(NX!ToSet(NX!newRpcGateway))
      BY <3>1, Zenon DEF NX!newRpcGateway
    <3>. QED  BY <3>2, <3>3, <3>4, <3>5, <3>6
  <2>. QED  BY <2>1, GenGatewayComplete, NewGatewayComplete, GenClientComplete, NewRpcComplete, NewRpcGatewayComplete
<1>5. \A files \in Fixed : files \in Seq(AllFiles)
  BY <1>1, <1>2, <1>4
<1>6. \A f \in AllFiles : Orderly(f.path, f)
  <2>1. \A files \in Fixed : \A f \in NX!ToSet(files) : Orderly(f.path, f)
    BY <1>4, Zenon DEF Complete, Regular
  <2>2. \A files \in Generated : \A f \in NX!ToSet(files) : Orderly(f.path, f)
    BY <1>3
  <2>. HIDE DEF Fixed, Generated
  <2>. QED  BY <2>1, <2>2 DEF AllFiles, Fixed, Generated
<1>. QED  BY <1>3, <1>4, <1>5, <1>6

\* A command that rewrites the file that declares a symbol, and not the one that needs
\* it, declares the symbol again.
LEMMA NothingTaken ==
  ASSUME NEW F, Complete(F), NEW k \in F,
         NEW q, NEW declarer, Orderly(q, declarer), k.path = q,
         NEW p, NEW user, Orderly(p, user), \A f \in F : f.path # p,
         NEW u, u \in declarer.declares, u \in user.uses, u[2] \notin NX!MissingWhats
  PROVE  u \in k.declares
<1>1. CASE u[2] \in Stable
  <2>1. u \in Owned(q)
    BY <1>1, Zenon DEF Orderly
  <2>2. Owned(q) \subseteq k.declares
    BY Zenon DEF Complete, Regular
  <2>. QED  BY <2>1, <2>2
<1>2. CASE u[2] \notin Stable
  <2>1. u[2] \in Local /\ UserPath(u) = p
    BY <1>2 DEF Orderly
  <2>2. UserPath(u) = Companion(q)
    BY <2>1, Zenon DEF Orderly
  <2>3. PICK g \in F : g.path = Companion(q)
    BY Zenon DEF Complete
  <2>. QED  BY <2>1, <2>2, <2>3
<1>. QED  BY <1>1, <1>2

\* An empty directory.
LEMMA TreeStarts == NX!Init => TreeInv
<1>. SUFFICES ASSUME NX!Init PROVE TreeInv
  OBVIOUS
<1>1. DOMAIN tree = {} /\ writes = <<>> /\ todo = <<>>
  BY DEF NX!Init
<1>2. Complete(NX!ToSet(writes))
  BY <1>1 DEF Complete, Regular, NX!ToSet
<1>3. Done = 0 /\ writes \in Seq(AllFiles) /\ todo \in Seq(AllFiles)
  BY <1>1 DEF Done
<1>4. LastWrites /\ Explained
  BY <1>1, <1>3 DEF LastWrites, Explained
<1>. QED  BY <1>1, <1>2, <1>3, <1>4 DEF TreeInv

\* A command begins: whatever dangles is noted.
LEMMA RunKeeps ==
  ASSUME TreeInv, NEW files \in Seq(AllFiles), NEW whole, whole => Complete(NX!ToSet(files)),
         NX!Run(files, whole)
  PROVE  TreeInv'
<1>1. /\ tree' = tree /\ writes' = files /\ todo' = files /\ sound' = whole
      /\ dangled' = NX!Dangling /\ Len(files) \in Nat
  BY DEF NX!Run
<1>2. Done' = 0
  BY <1>1 DEF Done
<1>3. LastWrites'
  BY <1>2 DEF LastWrites
<1>4. Explained'
  <2>1. SUFFICES ASSUME NEW p \in DOMAIN tree, NEW u \in tree[p].uses,
                        ~ \E q \in DOMAIN tree : u \in tree[q].declares
                 PROVE  <<p, u>> \in NX!Dangling
    BY <1>1 DEF Explained
  <2>2. <<p, u>> \in UNION {{q} \X tree[q].uses : q \in DOMAIN tree} /\ <<p, u>>[2] = u
    OBVIOUS
  <2>3. u \notin UNION {tree[q].declares : q \in DOMAIN tree}
    BY <2>1
  <2>. QED  BY <2>2, <2>3 DEF NX!Dangling
<1>5. \A i \in DOMAIN files : files[i] = files[i + 0]
  OBVIOUS
<1>6. (\A p \in DOMAIN tree : Orderly(p, tree[p]))'
  BY <1>1 DEF TreeInv
<1>7. whole => Complete(NX!ToSet(writes))'
  BY <1>1
<1>. QED  BY <1>1, <1>2, <1>3, <1>4, <1>5, <1>6, <1>7 DEF TreeInv

\* Writing a file, whether it is cut or not.
LEMMA PutKeeps ==
  ASSUME NEW p, NEW contents, Orderly(p, contents), \A q \in DOMAIN tree : Orderly(q, tree[q]),
         tree' = [q \in DOMAIN tree \cup {p} |-> IF q = p THEN contents ELSE tree[q]]
  PROVE  \A q \in DOMAIN tree' : Orderly(q, tree'[q])
<1>1. \A q \in DOMAIN tree' : tree'[q] = IF q = p THEN contents ELSE tree[q]
  BY Zenon
<1>2. \A q \in DOMAIN tree' : q # p => q \in DOMAIN tree
  OBVIOUS
<1>. QED  BY <1>1, <1>2, Zenon

\* The next file of the list, written.
LEMMA WriteFileKeeps == TreeInv /\ NX!WriteFile => TreeInv'
<1>. SUFFICES ASSUME TreeInv, NX!WriteFile PROVE TreeInv'
  OBVIOUS
<1>. DEFINE f == Head(todo)
            F == NX!ToSet(writes)
            put == [declares |-> f.declares, uses |-> f.uses]
<1>1. /\ todo # <<>> /\ todo' = Tail(todo)
      /\ UNCHANGED <<writes, sound, dangled>>
      /\ tree' = [q \in DOMAIN tree \cup {f.path} |-> IF q = f.path THEN put ELSE tree[q]]
  BY DEF NX!WriteFile, NX!Put
<1>2. /\ f \in AllFiles /\ todo' \in Seq(AllFiles) /\ Len(todo) \in Nat \ {0} /\ Len(todo') = Len(todo) - 1
      /\ f = todo[1] /\ \A i \in DOMAIN todo' : i + 1 \in DOMAIN todo /\ todo'[i] = todo[i + 1]
      /\ DOMAIN todo = 1..Len(todo)
  <2>1. todo \in Seq(AllFiles) /\ todo # <<>>
    BY <1>1 DEF TreeInv
  <2>. QED  BY <1>1, <2>1
<1>3. /\ Len(writes) \in Nat /\ DOMAIN writes = 1..Len(writes) /\ Done' = Done + 1 /\ Done \in Int
  <2>1. writes \in Seq(AllFiles)
    BY DEF TreeInv
  <2>. QED  BY <1>1, <1>2, <2>1 DEF Done
<1>4. Orderly(f.path, put)
  <2>1. Orderly(f.path, f)
    BY <1>2, CommandFiles
  <2>2. put.declares = f.declares /\ put.uses = f.uses
    OBVIOUS
  <2>. HIDE DEF put
  <2>. QED  BY <2>1, <2>2, Zenon DEF Orderly
<1>5. /\ DOMAIN tree' = DOMAIN tree \cup {f.path}
      /\ tree'[f.path] = put
      /\ \A q \in DOMAIN tree : q # f.path => tree'[q] = tree[q]
  <2>. HIDE DEF f, put
  <2>. QED  BY <1>1
<1>6. \A q \in DOMAIN tree : Orderly(q, tree[q])
  BY DEF TreeInv
<1>7. \A q \in DOMAIN tree' : Orderly(q, tree'[q])
  <2>. HIDE DEF f, put
  <2>. QED  BY <1>5, <1>4, <1>6, Zenon
<1>8. ASSUME sound
      PROVE  /\ Complete(F) /\ Done' >= 0
             /\ \A i \in DOMAIN todo' : todo'[i] = writes[i + Done']
             /\ LastWrites' /\ Explained'
  <2>1. /\ Complete(F) /\ Done >= 0 /\ \A i \in DOMAIN todo : todo[i] = writes[i + Done]
        /\ LastWrites /\ Explained
    BY <1>8, Zenon DEF TreeInv
  <2>2. \A i \in DOMAIN todo' : todo'[i] = writes[i + Done']
    <3>1. ASSUME NEW i \in DOMAIN todo' PROVE todo'[i] = writes[i + Done']
      <4>1. i \in Nat
        BY <1>2
      <4>2. i + 1 \in DOMAIN todo /\ todo'[i] = todo[i + 1]
        BY <1>2
      <4>3. todo'[i] = writes[(i + 1) + Done] /\ (i + 1) + Done = i + Done'
        BY <1>3, <2>1, <4>1, <4>2
      <4>. QED  BY <4>3, Zenon
    <3>. QED  BY <3>1
  <2>3. Done' \in DOMAIN writes /\ writes[Done'] = f
    <3>1. 1 \in DOMAIN todo /\ todo[1] = writes[1 + Done] /\ 1 + Done = Done'
      BY <1>2, <1>3, <2>1
    <3>2. Done + 1 <= Len(writes)
      BY <1>2, <1>3 DEF Done
    <3>. QED  BY <1>2, <1>3, <2>1, <3>1, <3>2
  <2>. HIDE DEF f
  <2>4. LastWrites'
    <3>1. SUFFICES ASSUME NEW j \in 1..(Done + 1)
                   PROVE  \E i \in j..(Done + 1) :
                            /\ writes[i].path = writes[j].path /\ writes[i].path \in DOMAIN tree'
                            /\ tree'[writes[i].path] = [declares |-> writes[i].declares, uses |-> writes[i].uses]
                            /\ \A k \in i + 1..Done + 1 : writes[k].path # writes[i].path
      <4>1. writes' = writes /\ Done' = Done + 1
        BY <1>1, <1>3
      <4>. QED  BY <4>1 DEF LastWrites
    <3>2. CASE writes[j].path = f.path
      <4>1. Done + 1 \in j..(Done + 1) /\ (Done + 1) + 1..Done + 1 = {}
        BY <1>3
      <4>2. writes[Done + 1] = f
        BY <1>3, <2>3
      <4>. QED  BY <3>2, <4>1, <4>2, <1>5
    <3>3. CASE writes[j].path # f.path
      <4>1. j # Done + 1
        BY <1>3, <2>3, <3>3
      <4>2. j \in 1..Done
        BY <1>3, <4>1
      <4>3. PICK i \in j..Done :
              /\ writes[i].path = writes[j].path /\ writes[i].path \in DOMAIN tree
              /\ tree[writes[i].path] = [declares |-> writes[i].declares, uses |-> writes[i].uses]
              /\ \A k \in i + 1..Done : writes[k].path # writes[i].path
        BY <2>1, <4>2 DEF LastWrites
      <4>4. i \in j..(Done + 1)
        BY <1>3
      <4>5. writes[i].path \in DOMAIN tree' /\ tree'[writes[i].path] = tree[writes[i].path]
        BY <1>5, <3>3, <4>3
      <4>6. \A k \in i + 1..Done + 1 : writes[k].path # writes[i].path
        <5>1. \A k \in i + 1..Done + 1 : k \in i + 1..Done \/ k = Done'
          BY <1>3
        <5>. QED  BY <2>3, <3>3, <4>3, <5>1
      <4>. QED  BY <4>3, <4>4, <4>5, <4>6
    <3>. QED  BY <3>2, <3>3
  <2>5. Explained'
    <3>1. SUFFICES ASSUME NEW p \in DOMAIN tree' \ NX!Written, NEW u \in tree'[p].uses,
                          u[2] \notin NX!MissingWhats,
                          ~ \E i \in DOMAIN writes : u \in writes[i].declares,
                          <<p, u>> \notin dangled
                   PROVE  \E q \in DOMAIN tree' : u \in tree'[q].declares
      <4>1. writes' = writes /\ dangled' = dangled
        BY <1>1
      <4>2. (NX!Written)' = NX!Written
        BY <4>1, Zenon DEF NX!Written
      <4>. QED  BY <4>1, <4>2, Zenon DEF Explained
    <3>2. f \in F /\ f.path \in NX!Written /\ \A g \in F : g.path # p
      BY <2>3, <3>1 DEF NX!ToSet, NX!Written
    <3>3. p # f.path /\ p \in DOMAIN tree /\ tree'[p] = tree[p]
      BY <1>5, <3>2
    <3>4. PICK q \in DOMAIN tree : u \in tree[q].declares
      BY <2>1, <3>1, <3>3 DEF Explained
    <3>5. CASE q # f.path
      BY <1>5, <3>4, <3>5
    <3>6. CASE q = f.path
      <4>1. u \in f.declares
        <5>1. Complete(F) /\ f \in F /\ f.path = q /\ Orderly(q, tree[q]) /\ Orderly(p, tree[p])
          BY <2>1, <3>2, <3>3, <3>4, <3>6, <1>6
        <5>2. (\A g \in F : g.path # p) /\ u \in tree[q].declares /\ u \in tree[p].uses
          BY <3>1, <3>2, <3>3, <3>4
        <5>. HIDE DEF F
        <5>3. u[2] \notin NX!MissingWhats
          BY <3>1
        <5>. QED  BY <5>1, <5>2, <5>3, NothingTaken
      <4>2. u \in writes[Done'].declares
        BY <2>3, <4>1
      <4>. QED  BY <2>3, <3>1, <4>2
    <3>. QED  BY <3>5, <3>6
  <2>. QED  BY <1>3, <2>1, <2>2, <2>4, <2>5
<1>9. writes' \in Seq(AllFiles)
  BY <1>1 DEF TreeInv
<1>. HIDE DEF f, put, F
<1>10. sound' => /\ Complete(NX!ToSet(writes))' /\ Done' >= 0
                 /\ (\A i \in DOMAIN todo : todo[i] = writes[i + Done])' /\ LastWrites' /\ Explained'
  BY <1>1, <1>8 DEF F
<1>. QED  BY <1>2, <1>7, <1>9, <1>10 DEF TreeInv

\* A write that fails leaves an old file or an empty one, and the command is not sound.
LEMMA WriteFailsKeeps == TreeInv /\ NX!WriteFails => TreeInv'
<1>. SUFFICES ASSUME TreeInv, NX!WriteFails PROVE TreeInv'
  OBVIOUS
<1>. DEFINE p == Head(todo).path
            empty == [declares |-> {}, uses |-> {}]
<1>1. todo # <<>> /\ todo' = Tail(todo) /\ writes' = writes /\ sound' = FALSE
  BY DEF NX!WriteFails
<1>2. todo' \in Seq(AllFiles) /\ writes' \in Seq(AllFiles)
  BY <1>1 DEF TreeInv
<1>3. \A q \in DOMAIN tree : Orderly(q, tree[q])
  BY DEF TreeInv
<1>4. \A q \in DOMAIN tree' : Orderly(q, tree'[q])
  <2>1. CASE tree' = tree
    BY <1>3, <2>1
  <2>2. CASE tree' = [q \in DOMAIN tree \cup {p} |-> IF q = p THEN empty ELSE tree[q]]
    <3>1. Orderly(p, empty)
      BY DEF Orderly
    <3>. HIDE DEF p, empty
    <3>. QED  BY <1>3, <2>2, <3>1, PutKeeps
  <2>. QED  BY <2>1, <2>2 DEF NX!WriteFails, NX!Put
<1>. QED  BY <1>1, <1>2, <1>4 DEF TreeInv

\* The tree invariant is inductive.
LEMMA TreeSteps == TreeInv /\ [NX!Next]_NX!vars => TreeInv'
<1>1. ASSUME TreeInv, NEW edition \in Editions, NX!Run(NX!Generate(edition), edition.info) PROVE TreeInv'
  <2>1. NX!Generate(edition) \in Seq(AllFiles)
    BY CommandFiles, Zenon
  <2>2. edition.info => Complete(NX!ToSet(NX!Generate(edition)))
    BY CommandFiles, Zenon
  <2>. QED  BY <1>1, <2>1, <2>2, RunKeeps, Zenon
<1>2. ASSUME TreeInv, NEW files \in {NX!genGateway, NX!newGateway, NX!genClient, NX!newRpc, NX!newRpcGateway},
             NX!Run(files, TRUE)
      PROVE  TreeInv'
  <2>1. files \in Seq(AllFiles)
    BY CommandFiles, Zenon
  <2>2. Complete(NX!ToSet(files))
    BY CommandFiles, Zenon
  <2>. QED  BY <1>2, <2>1, <2>2, RunKeeps, Zenon
<1>3. ASSUME TreeInv, NX!Interrupt PROVE TreeInv'
  <2>1. tree' = tree /\ writes' = writes /\ todo' = <<>> /\ sound' = FALSE
    BY <1>3 DEF NX!Interrupt
  <2>. QED  BY <1>3, <2>1 DEF TreeInv
<1>4. ASSUME TreeInv, UNCHANGED NX!vars PROVE TreeInv'
  <2>1. tree' = tree /\ writes' = writes /\ todo' = todo /\ sound' = sound /\ dangled' = dangled
    BY <1>4 DEF NX!vars
  <2>2. Done' = Done /\ (NX!Written)' = NX!Written
    BY <2>1 DEF Done, NX!Written
  <2>3. LastWrites' = LastWrites
    BY <2>1, <2>2 DEF LastWrites
  <2>4. Explained' = Explained
    BY <2>1, <2>2 DEF Explained
  <2>. QED  BY <1>4, <2>1, <2>2, <2>3, <2>4 DEF TreeInv
<1>. QED  BY <1>1, <1>2, <1>3, <1>4, WriteFileKeeps, WriteFailsKeeps, Zenon DEF NX!Next

\* What the tree invariant says of a command that ran to its end.
LEMMA TreeResolves == TreeInv => NX!ReferencesResolve
<1>. SUFFICES ASSUME TreeInv, todo = <<>>, sound, NEW d \in NX!Dangling,
                     d[2][2] \notin NX!MissingWhats, d[2] \notin NX!Overwritten
              PROVE  d[1] \notin NX!Written /\ d \in dangled
  BY DEF NX!ReferencesResolve
<1>. DEFINE p == d[1]
            u == d[2]
<1>1. /\ d = <<p, u>> /\ p \in DOMAIN tree /\ u \in tree[p].uses
      /\ \A q \in DOMAIN tree : u \notin tree[q].declares
  BY DEF NX!Dangling
<1>2. /\ Done = Len(writes) /\ DOMAIN writes = 1..Done /\ Done \in Nat
      /\ Complete(NX!ToSet(writes)) /\ LastWrites /\ Explained
  BY DEF TreeInv, Done
<1>. HIDE DEF p, u
<1>3. ASSUME NEW j \in DOMAIN writes, u \in writes[j].declares PROVE FALSE
  <2>1. PICK i \in j..Done :
          /\ writes[i].path = writes[j].path /\ writes[i].path \in DOMAIN tree
          /\ tree[writes[i].path] = [declares |-> writes[i].declares, uses |-> writes[i].uses]
    BY <1>2 DEF LastWrites
  <2>2. CASE i = j
    BY <1>1, <1>3, <2>1, <2>2
  <2>3. CASE i # j
    <3>1. i \in j + 1..Len(writes)
      BY <1>2, <2>1, <2>3
    <3>. QED  BY <1>3, <2>1, <3>1 DEF NX!Overwritten, u
  <2>. QED  BY <2>2, <2>3
<1>4. CASE p \in NX!Written
  <2>1. PICK j \in DOMAIN writes : writes[j].path = p
    BY <1>4 DEF NX!Written
  <2>2. PICK i \in j..Done :
          /\ writes[i].path = p
          /\ tree[writes[i].path] = [declares |-> writes[i].declares, uses |-> writes[i].uses]
    BY <1>2, <2>1 DEF LastWrites
  <2>3. u \in writes[i].uses /\ writes[i] \in NX!ToSet(writes)
    BY <1>1, <1>2, <2>2 DEF NX!ToSet
  <2>4. PICK g \in NX!ToSet(writes) : u \in g.declares
    BY <1>2, <2>3 DEF Complete, u
  <2>. QED  BY <1>3, <2>4 DEF NX!ToSet
<1>5. CASE p \notin NX!Written
  <2>1. <<p, u>> \in dangled
    BY <1>1, <1>2, <1>3, <1>5 DEF Explained, u
  <2>. QED  BY <1>1, <1>5, <2>1 DEF p
<1>. QED  BY <1>4, <1>5

\* The nx command of the tools, by itself.
LEMMA NXRuns == ToolSpec => NX!Spec
<1>. DEFINE Step == \E tool \in {"dsl", "config", "nx"} : ToolNext(tool)
<1>1. ToolInit => NX!Init
  BY DEF ToolInit
<1>2. [Step]_toolVars => [NX!Next]_NX!vars
  <2>1. SUFFICES ASSUME [Step]_toolVars, ~ UNCHANGED NX!vars PROVE NX!Next
    OBVIOUS
  <2>2. ~ UNCHANGED nxVars
    BY <2>1, Zenon DEF nxVars, NX!vars
  <2>3. ~ UNCHANGED toolVars
    BY <2>2 DEF toolVars
  <2>. QED  BY <2>1, <2>2, <2>3 DEF ToolNext
<1>. QED  BY <1>1, <1>2, PTL DEF ToolSpec, NX!Spec

\* A command that ran to its end leaves a tree whose files find what they need.
THEOREM ReferencesAlwaysResolve == ToolSpec => []ReferencesResolve
<1>1. NX!Init => TreeInv
  BY TreeStarts
<1>2. TreeInv /\ [NX!Next]_NX!vars => TreeInv'
  BY TreeSteps
<1>3. TreeInv => NX!ReferencesResolve
  BY TreeResolves
<1>4. NX!Spec => []NX!ReferencesResolve
  BY <1>1, <1>2, <1>3, PTL DEF NX!Spec
<1>. QED  BY <1>4, NXRuns, PTL DEF ReferencesResolve

-----------------------------------------------------------------------------
(* Documents *)

Keys == Seq(STRING)

\* The last key of a path, and the rest.
LEMMA PathSplits ==
  ASSUME NEW S, NEW path \in Seq(S), path # <<>>
  PROVE  /\ CFG!Front(path) \in Seq(S) /\ CFG!Last(path) \in S
         /\ path = CFG!Front(path) \o <<CFG!Last(path)>>
         /\ \A front \in Seq(S), key \in S :
              path = front \o <<key>> => CFG!Front(path) = front /\ CFG!Last(path) = key
<1>. DEFINE n == Len(path)
<1>1. n \in Nat \ {0} /\ \A i \in 1..n : path[i] \in S
  OBVIOUS
<1>2. CFG!Front(path) \in Seq(S) /\ CFG!Last(path) \in S
  BY <1>1 DEF CFG!Front, CFG!Last
<1>3. /\ Len(CFG!Front(path)) = n - 1
      /\ \A i \in 1..(n - 1) : CFG!Front(path)[i] = path[i]
  <2>1. CFG!Front(path) = SubSeq(path, 1, n - 1)
    BY DEF CFG!Front
  <2>. HIDE DEF n
  <2>2. \A i \in 1..(n - 1) : path[i] \in S
    BY <1>1
  <2>. QED  BY <1>1, <2>1, <2>2, SubSeqProperties
<1>4. path = CFG!Front(path) \o <<CFG!Last(path)>>
  <2>. DEFINE other == CFG!Front(path) \o <<CFG!Last(path)>>
  <2>1. other \in Seq(S) /\ Len(other) = n
    BY <1>1, <1>2, <1>3
  <2>2. \A i \in 1..n : other[i] = path[i]
    BY <1>1, <1>2, <1>3 DEF CFG!Last
  <2>. HIDE DEF other
  <2>. QED  BY <2>1, <2>2, SeqEqual, Zenon DEF other
<1>5. ASSUME NEW front \in Seq(S), NEW key \in S, path = front \o <<key>>
      PROVE  CFG!Front(path) = front /\ CFG!Last(path) = key
  <2>1. n = Len(front) + 1 /\ path[n] = key /\ \A i \in 1..Len(front) : path[i] = front[i]
    BY <1>5
  <2>2. \A i \in 1..Len(front) : CFG!Front(path)[i] = front[i]
    BY <2>1, <1>3
  <2>3. Len(CFG!Front(path)) = Len(front)
    BY <2>1, <1>3
  <2>4. CFG!Front(path) = front
    BY <2>2, <2>3, <1>2, SeqEqual
  <2>. QED  BY <2>1, <2>4 DEF CFG!Last
<1>. QED  BY <1>2, <1>4, <1>5

\* A path that is known to end in a key.
LEMMA PathEnds ==
  ASSUME NEW S, NEW path \in Seq(S), path # <<>>, NEW front \in Seq(S), NEW key \in S, path = front \o <<key>>
  PROVE  CFG!Front(path) = front /\ CFG!Last(path) = key
<1>1. \A first \in Seq(S), k \in S : path = first \o <<k>> => CFG!Front(path) = first /\ CFG!Last(path) = k
  BY PathSplits, Zenon
<1>. QED  BY <1>1, Zenon

\* The first key of a path, and the rest.
LEMMA PathStarts ==
  ASSUME NEW S, NEW path \in Seq(S), path # <<>>
  PROVE  /\ path[1] \in S /\ Tail(path) \in Seq(S) /\ path = <<path[1]>> \o Tail(path)
         /\ Len(path) = 1 => path = <<path[1]>>
         /\ Len(path) # 1 => Tail(path) # <<>>
<1>1. Len(path) \in Nat \ {0} /\ path[1] \in S /\ Tail(path) \in Seq(S) /\ Len(Tail(path)) = Len(path) - 1
  OBVIOUS
<1>2. path = <<path[1]>> \o Tail(path)
  <2>. DEFINE other == <<path[1]>> \o Tail(path)
  <2>1. other \in Seq(S) /\ Len(other) = Len(path)
    BY <1>1
  <2>2. \A i \in 1..Len(path) : other[i] = path[i]
    BY <1>1
  <2>. HIDE DEF other
  <2>. QED  BY <2>1, <2>2, SeqEqual, Zenon DEF other
<1>3. Len(path) = 1 => path = <<path[1]>>
  <2>1. SUFFICES ASSUME Len(path) = 1 PROVE path = <<path[1]>>
    OBVIOUS
  <2>2. <<path[1]>> \in Seq(S) /\ Len(<<path[1]>>) = 1
    BY <1>1
  <2>3. \A i \in 1..Len(path) : path[i] = <<path[1]>>[i]
    BY <2>1
  <2>. QED  BY <2>1, <2>2, <2>3, SeqEqual
<1>4. Len(path) # 1 => Tail(path) # <<>>
  <2>1. Tail(path) = <<>> => Len(Tail(path)) = 0
    <3>1. Len(<<>>) = 0
      OBVIOUS
    <3>. QED  BY <3>1, Zenon
  <2>. QED  BY <1>1, <2>1
<1>. QED  BY <1>1, <1>2, <1>3, <1>4

\* A path that goes on after a beginning.
LEMMA PathContinues ==
  ASSUME NEW S, NEW front \in Seq(S), NEW rest \in Seq(S), rest # <<>>
  PROVE  /\ front \o (<<rest[1]>> \o Tail(rest)) = (front \o <<rest[1]>>) \o Tail(rest)
         /\ Len(rest) # 1 => /\ Len(front) + 1 \in 1..Len(front \o rest) - 1
                             /\ SubSeq(front \o rest, 1, Len(front) + 1) = front \o <<rest[1]>>
<1>1. rest[1] \in S /\ <<rest[1]>> \in Seq(S) /\ Tail(rest) \in Seq(S)
  BY PathStarts
<1>2. front \o (<<rest[1]>> \o Tail(rest)) = (front \o <<rest[1]>>) \o Tail(rest)
  BY <1>1, ConcatAssociative
<1>3. ASSUME Len(rest) # 1
      PROVE  /\ Len(front) + 1 \in 1..Len(front \o rest) - 1
             /\ SubSeq(front \o rest, 1, Len(front) + 1) = front \o <<rest[1]>>
  <2>0. Len(rest) \in Nat /\ Len(rest) >= 2
    <3>1. Len(rest) \in Nat \ {0}
      BY EmptySeq, Zenon
    <3>2. \A n \in Nat \ {0} : n # 1 => n \in Nat /\ n >= 2
      OBVIOUS
    <3>. QED  BY <1>3, <3>1, <3>2, Zenon
  <2>1. /\ Len(front) \in Nat
        /\ front \o rest \in Seq(S) /\ Len(front \o rest) = Len(front) + Len(rest)
    BY <1>3
  <2>2. Len(front) + 1 \in 1..Len(front \o rest) - 1
    <3>1. \A a, b, c \in Int : a >= 0 /\ b >= 2 /\ c = a + b => a + 1 \in 1..c - 1
      OBVIOUS
    <3>2. Len(front) \in Int /\ Len(rest) \in Int /\ Len(front \o rest) \in Int
          /\ Len(front) >= 0 /\ Len(rest) >= 2
      BY <2>0, <2>1
    <3>. QED  BY <2>1, <3>1, <3>2, Zenon
  <2>3. front \o <<rest[1]>> \in Seq(S) /\ Len(front \o <<rest[1]>>) = Len(front) + 1
    BY <1>1
  <2>4. \A k \in 1..Len(front) + 1 : (front \o rest)[k] = (front \o <<rest[1]>>)[k]
    BY <1>1, <2>0, <2>1
  <2>5. /\ SubSeq(front \o rest, 1, Len(front) + 1) \in Seq(S)
        /\ Len(SubSeq(front \o rest, 1, Len(front) + 1)) = Len(front) + 1
        /\ \A k \in 1..Len(front) + 1 : SubSeq(front \o rest, 1, Len(front) + 1)[k] = (front \o rest)[k]
    BY <2>0, <2>1
  <2>. QED  BY <2>2, <2>3, <2>4, <2>5, SeqEqual
<1>. QED  BY <1>2, <1>3

\* A key before a path, after another.
LEMMA KeyBetween ==
  ASSUME NEW S, NEW front \in Seq(S), NEW key \in S, NEW rest \in Seq(S)
  PROVE  /\ front \o (<<key>> \o rest) = (front \o <<key>>) \o rest
         /\ <<key>> \o rest \in Seq(S) /\ <<key>> \o rest # <<>>
<1>1. <<key>> \in Seq(S)
  OBVIOUS
<1>. QED  BY <1>1, ConcatAssociative

\* The path of the entry that opened a map.
PathOf(doc, m) == IF m = 0 THEN <<>> ELSE doc[m].path

\* An entry stands in a map that an earlier entry opened, or in the root.
LEMMA Parents ==
  ASSUME NEW doc, CFG!WellFormed(doc)
  PROVE  /\ Len(doc) \in Nat /\ DOMAIN doc = 1..Len(doc)
         /\ \A i \in DOMAIN doc : /\ doc[i].path \in Seq(Keys) /\ doc[i].path # <<>> /\ doc[i].indent \in Nat \ {0}
                                  /\ doc[i].text \in STRING /\ doc[i].quoted \in BOOLEAN
         /\ \A i, j \in DOMAIN doc : doc[i].path = doc[j].path => i = j
         /\ \A i \in DOMAIN doc : \E m \in 0..i - 1 :
              /\ m # 0 => CFG!Nested(doc[m]) /\ doc[m].indent < doc[i].indent
              /\ CFG!Front(doc[i].path) = PathOf(doc, m)
              /\ \A k \in m + 1..i - 1 : doc[k].indent >= doc[i].indent
<1>. DEFINE Entry == [path : Seq(Keys) \ {<<>>}, text : STRING, quoted : BOOLEAN, indent : Nat \ {0}]
<1>1. doc \in Seq(Entry) /\ \A i, j \in DOMAIN doc : doc[i].path = doc[j].path => i = j
  BY Zenon DEF CFG!WellFormed, Keys
<1>2. Len(doc) \in Nat /\ DOMAIN doc = 1..Len(doc) /\ \A i \in DOMAIN doc : doc[i] \in Entry
  <2>. HIDE DEF Entry
  <2>. QED  BY <1>1
<1>3. \A i \in DOMAIN doc : /\ doc[i].path \in Seq(Keys) /\ doc[i].path # <<>> /\ doc[i].indent \in Nat \ {0}
                            /\ doc[i].text \in STRING /\ doc[i].quoted \in BOOLEAN
  BY <1>2
<1>. HIDE DEF Entry
<1>4. ASSUME NEW i \in DOMAIN doc
      PROVE  \E m \in 0..i - 1 :
              /\ m # 0 => CFG!Nested(doc[m]) /\ doc[m].indent < doc[i].indent
              /\ CFG!Front(doc[i].path) = PathOf(doc, m)
              /\ \A k \in m + 1..i - 1 : doc[k].indent >= doc[i].indent
  <2>1. \/ Len(doc[i].path) = 1 /\ \A k \in 0 + 1..i - 1 : doc[k].indent >= doc[i].indent
        \/ \E m \in 1..i - 1 :
             /\ CFG!Nested(doc[m]) /\ doc[m].path = CFG!Front(doc[i].path)
             /\ doc[m].indent < doc[i].indent /\ \A k \in m + 1..i - 1 : doc[k].indent >= doc[i].indent
    BY Zenon DEF CFG!WellFormed
  <2>2. i \in Nat \ {0}
    BY <1>2
  <2>3. CASE Len(doc[i].path) = 1 /\ \A k \in 0 + 1..i - 1 : doc[k].indent >= doc[i].indent
    <3>1. CFG!Front(doc[i].path) = <<>>
      BY <2>3, <1>3 DEF CFG!Front
    <3>2. 0 \in 0..i - 1
      BY <2>2
    <3>. QED  BY <3>1, <3>2, <2>3 DEF PathOf
  <2>4. ASSUME NEW m \in 1..i - 1, CFG!Nested(doc[m]), doc[m].path = CFG!Front(doc[i].path),
               doc[m].indent < doc[i].indent, \A k \in m + 1..i - 1 : doc[k].indent >= doc[i].indent
        PROVE  \E l \in 0..i - 1 :
              /\ l # 0 => CFG!Nested(doc[l]) /\ doc[l].indent < doc[i].indent
              /\ CFG!Front(doc[i].path) = PathOf(doc, l)
              /\ \A k \in l + 1..i - 1 : doc[k].indent >= doc[i].indent
    <3>1. m \in 0..i - 1 /\ m # 0
      BY <2>2
    <3>. QED  BY <3>1, <2>4 DEF PathOf
  <2>. QED  BY <2>1, <2>3, <2>4, Zenon
<1>. QED  BY <1>1, <1>2, <1>3, <1>4

\* Every beginning of a path is that of an entry which opened a map.
LEMMA Beginnings ==
  ASSUME NEW doc, CFG!WellFormed(doc)
  PROVE  \A i \in DOMAIN doc : \A n \in 1..Len(doc[i].path) - 1 :
           \E m \in DOMAIN doc : CFG!Nested(doc[m]) /\ doc[m].path = SubSeq(doc[i].path, 1, n)
<1>. DEFINE Begun(i) == \A n \in 1..Len(doc[i].path) - 1 :
              \E m \in DOMAIN doc : CFG!Nested(doc[m]) /\ doc[m].path = SubSeq(doc[i].path, 1, n)
            T == {i \in DOMAIN doc : ~ Begun(i)}
<1>. SUFFICES ASSUME T # {} PROVE FALSE
  BY Zenon
<1>1. DOMAIN doc = 1..Len(doc) /\ Len(doc) \in Nat
  BY Parents
<1>2. PICK i \in T : \A j \in T : i <= j
  <2>1. T \subseteq Nat
    BY <1>1
  <2>. QED  BY <2>1, LeastNumber
<1>3. i \in DOMAIN doc /\ i \in Nat \ {0}
  BY <1>1, <1>2
<1>. HIDE DEF Begun
<1>4. PICK m \in 0..i - 1 : /\ m # 0 => CFG!Nested(doc[m])
                            /\ CFG!Front(doc[i].path) = PathOf(doc, m)
  BY <1>3, Parents
<1>5. doc[i].path \in Seq(Keys) /\ Len(doc[i].path) \in Nat \ {0}
  <2>1. doc[i].path \in Seq(Keys) /\ doc[i].path # <<>>
    BY <1>3, Parents
  <2>. QED  BY <2>1
<1>6. /\ Len(CFG!Front(doc[i].path)) = Len(doc[i].path) - 1
      /\ \A n \in 1..Len(doc[i].path) - 1 :
           SubSeq(CFG!Front(doc[i].path), 1, n) = SubSeq(doc[i].path, 1, n)
  <2>1. CFG!Front(doc[i].path) = SubSeq(doc[i].path, 1, Len(doc[i].path) - 1)
    BY DEF CFG!Front
  <2>2. Len(CFG!Front(doc[i].path)) = Len(doc[i].path) - 1
    BY <2>1, <1>5
  <2>3. ASSUME NEW n \in 1..Len(doc[i].path) - 1
        PROVE  SubSeq(CFG!Front(doc[i].path), 1, n) = SubSeq(doc[i].path, 1, n)
    BY <1>5, <2>1, <2>3
  <2>. QED  BY <2>2, <2>3
<1>7. Begun(i)
  <2>1. SUFFICES ASSUME NEW n \in 1..Len(doc[i].path) - 1
                 PROVE  \E l \in DOMAIN doc : CFG!Nested(doc[l]) /\ doc[l].path = SubSeq(doc[i].path, 1, n)
    BY DEF Begun
  <2>2. m \in DOMAIN doc /\ CFG!Nested(doc[m]) /\ doc[m].path = CFG!Front(doc[i].path)
    <3>1. m # 0
      <4>1. SUFFICES ASSUME m = 0 PROVE FALSE
        OBVIOUS
      <4>2. CFG!Front(doc[i].path) = <<>>
        BY <4>1, <1>4, Zenon DEF PathOf
      <4>3. Len(CFG!Front(doc[i].path)) = 0
        <5>1. Len(<<>>) = 0
          OBVIOUS
        <5>. QED  BY <4>2, <5>1, Zenon
      <4>. QED  BY <2>1, <4>3, <1>5, <1>6
    <3>. QED  BY <3>1, <1>1, <1>3, <1>4 DEF PathOf
  <2>3. CASE n = Len(doc[i].path) - 1
    BY <2>2, <2>3 DEF CFG!Front
  <2>4. CASE n # Len(doc[i].path) - 1
    <3>1. m \notin T /\ m < i
      BY <1>2, <1>3, <2>2, <1>4
    <3>2. Begun(m)
      BY <3>1, <2>2
    <3>3. n \in 1..Len(doc[m].path) - 1
      BY <2>2, <2>4, <1>5, <1>6
    <3>4. SubSeq(doc[m].path, 1, n) = SubSeq(doc[i].path, 1, n)
      BY <2>2, <1>6
    <3>. QED  BY <3>2, <3>3, <3>4 DEF Begun
  <2>. QED  BY <2>3, <2>4
<1>. QED  BY <1>2, <1>7

-----------------------------------------------------------------------------
(* Flattening *)

\* What FlattenMap makes of a map, with what it made of those in it.
Children(all, m) == {key \in DOMAIN all[m] : CFG!IsMap(all[m][key])}

Below(all, flat, m) ==
  {<<key>> : key \in DOMAIN all[m]}
    \cup UNION {{<<key>> \o path : path \in DOMAIN flat[all[m][key].map]} : key \in Children(all, m)}

Reached(all, flat, m) ==
  [path \in Below(all, flat, m) |->
     IF Len(path) = 1 THEN all[m][path[1]] ELSE flat[all[m][path[1]].map][Tail(path)]]

Flattens(flat, all) == flat = [m \in DOMAIN all |-> Reached(all, flat, m)]

\* FlattenMap is at the root what such a function is.
LEMMA FlattenMapFlattens ==
  ASSUME NEW all, NEW root
  PROVE  CFG!FlattenMap(all, root) = (CHOOSE flat : Flattens(flat, all))[root]
BY DEF CFG!FlattenMap, Flattens, Reached, Below, Children

\* The values that the entries of a document have: maps are those that its sections open.
Valued(doc, value) ==
  \A i \in DOMAIN doc :
    /\ CFG!IsMap(value[i]) <=> CFG!Nested(doc[i])
    /\ CFG!Nested(doc[i]) => value[i].map = i

\* The maps that hold the first n entries.
InTree(doc, value, n, all) ==
  /\ DOMAIN all = {0} \cup {i \in 1..n : CFG!Nested(doc[i])}
  /\ \A m \in DOMAIN all :
       /\ \A key : key \in DOMAIN all[m] <=>
            \E i \in 1..n : CFG!Front(doc[i].path) = PathOf(doc, m) /\ CFG!Last(doc[i].path) = key
       /\ \A i \in 1..n : CFG!Front(doc[i].path) = PathOf(doc, m) => all[m][CFG!Last(doc[i].path)] = value[i]

\* A map, flattened as it should be: the entries below it, by the rest of their paths.
Right(doc, value, m, flat) ==
  /\ \A i \in DOMAIN doc, rest \in Seq(Keys) :
       rest # <<>> /\ doc[i].path = PathOf(doc, m) \o rest => rest \in DOMAIN flat /\ flat[rest] = value[i]
  /\ \A rest \in DOMAIN flat :
       rest \in Seq(Keys) /\ rest # <<>> /\ \E i \in DOMAIN doc : doc[i].path = PathOf(doc, m) \o rest

\* The keys of a map are the last ones of its entries.
LEMMA MapKeys ==
  ASSUME NEW doc, CFG!WellFormed(doc), NEW value, NEW all, InTree(doc, value, Len(doc), all), NEW m \in DOMAIN all
  PROVE  /\ PathOf(doc, m) \in Seq(Keys)
         /\ m # 0 => m \in DOMAIN doc /\ CFG!Nested(doc[m])
         /\ \A key \in DOMAIN all[m] :
              key \in Keys /\ \E i \in DOMAIN doc : /\ doc[i].path = PathOf(doc, m) \o <<key>>
                                                    /\ all[m][key] = value[i]
         /\ \A key \in Keys, i \in DOMAIN doc :
              doc[i].path = PathOf(doc, m) \o <<key>> => key \in DOMAIN all[m] /\ all[m][key] = value[i]
<1>1. /\ DOMAIN doc = 1..Len(doc)
      /\ \A i \in DOMAIN doc : doc[i].path \in Seq(Keys) /\ doc[i].path # <<>>
  BY Parents
<1>2. m # 0 => m \in DOMAIN doc /\ CFG!Nested(doc[m])
  BY <1>1 DEF InTree
<1>3. PathOf(doc, m) \in Seq(Keys)
  BY <1>1, <1>2 DEF PathOf
<1>4. /\ \A key : key \in DOMAIN all[m] <=>
            \E i \in DOMAIN doc : CFG!Front(doc[i].path) = PathOf(doc, m) /\ CFG!Last(doc[i].path) = key
      /\ \A i \in DOMAIN doc :
           CFG!Front(doc[i].path) = PathOf(doc, m) => all[m][CFG!Last(doc[i].path)] = value[i]
  BY <1>1, Zenon DEF InTree
<1>5. ASSUME NEW key \in DOMAIN all[m]
      PROVE  key \in Keys /\ \E i \in DOMAIN doc : /\ doc[i].path = PathOf(doc, m) \o <<key>>
                                                   /\ all[m][key] = value[i]
  <2>1. PICK i \in DOMAIN doc : CFG!Front(doc[i].path) = PathOf(doc, m) /\ CFG!Last(doc[i].path) = key
    BY <1>4, Zenon
  <2>2. doc[i].path \in Seq(Keys) /\ doc[i].path # <<>>
    BY <1>1
  <2>3. key \in Keys /\ doc[i].path = PathOf(doc, m) \o <<key>>
    BY <2>1, <2>2, PathSplits, Zenon
  <2>4. all[m][key] = value[i]
    BY <1>4, <2>1, Zenon
  <2>. QED  BY <2>3, <2>4, Zenon
<1>6. ASSUME NEW key \in Keys, NEW i \in DOMAIN doc, doc[i].path = PathOf(doc, m) \o <<key>>
      PROVE  key \in DOMAIN all[m] /\ all[m][key] = value[i]
  <2>1. doc[i].path \in Seq(Keys) /\ doc[i].path # <<>>
    BY <1>1
  <2>2. CFG!Front(doc[i].path) = PathOf(doc, m) /\ CFG!Last(doc[i].path) = key
    BY <1>3, <1>6, <2>1, PathEnds
  <2>. QED  BY <1>4, <2>2, Zenon
<1>. QED  BY <1>2, <1>3, <1>5, <1>6

\* A map is flattened rightly if those in it are.
LEMMA ReachedRightly ==
  ASSUME NEW doc, CFG!WellFormed(doc), NEW value, Valued(doc, value),
         NEW all, InTree(doc, value, Len(doc), all), NEW m \in DOMAIN all, NEW flat,
         \A i \in DOMAIN doc, key \in Keys :
           CFG!Nested(doc[i]) /\ doc[i].path = PathOf(doc, m) \o <<key>> => Right(doc, value, i, flat[i])
  PROVE  Right(doc, value, m, Reached(all, flat, m))
<1>. DEFINE P == PathOf(doc, m)
            R == Reached(all, flat, m)
<1>1. /\ DOMAIN doc = 1..Len(doc)
      /\ \A i \in DOMAIN doc : doc[i].path \in Seq(Keys) /\ doc[i].path # <<>>
  BY Parents
<1>2. /\ P \in Seq(Keys)
      /\ \A key \in DOMAIN all[m] :
           key \in Keys /\ \E i \in DOMAIN doc : doc[i].path = P \o <<key>> /\ all[m][key] = value[i]
      /\ \A key \in Keys, i \in DOMAIN doc :
           doc[i].path = P \o <<key>> => key \in DOMAIN all[m] /\ all[m][key] = value[i]
  BY MapKeys
<1>3. /\ DOMAIN R = Below(all, flat, m)
      /\ \A path \in Below(all, flat, m) :
           R[path] = IF Len(path) = 1 THEN all[m][path[1]] ELSE flat[all[m][path[1]].map][Tail(path)]
  BY Zenon DEF Reached
<1>4. \A i \in DOMAIN doc : i # 0 /\ PathOf(doc, i) = doc[i].path
  BY <1>1 DEF PathOf
<1>. HIDE DEF P, R
<1>5. ASSUME NEW i \in DOMAIN doc, NEW rest \in Seq(Keys), rest # <<>>, doc[i].path = P \o rest
      PROVE  rest \in DOMAIN R /\ R[rest] = value[i]
  <2>1. /\ rest[1] \in Keys /\ Tail(rest) \in Seq(Keys) /\ rest = <<rest[1]>> \o Tail(rest)
        /\ Len(rest) = 1 => rest = <<rest[1]>>
        /\ Len(rest) # 1 => Tail(rest) # <<>>
    BY <1>5, PathStarts, Zenon
  <2>2. CASE Len(rest) = 1
    <3>1. rest[1] \in DOMAIN all[m] /\ all[m][rest[1]] = value[i]
      <4>1. rest = <<rest[1]>> /\ rest[1] \in Keys
        BY <2>1, <2>2
      <4>2. doc[i].path = P \o <<rest[1]>>
        BY <1>5, <4>1, Zenon
      <4>. QED  BY <1>2, <4>1, <4>2, Zenon
    <3>2. rest \in Below(all, flat, m)
      BY <2>1, <2>2, <3>1, Zenon DEF Below
    <3>. QED  BY <1>3, <2>2, <3>1, <3>2, Zenon
  <2>3. CASE Len(rest) # 1
    <3>1. PICK j \in DOMAIN doc : CFG!Nested(doc[j]) /\ doc[j].path = P \o <<rest[1]>>
      <4>1. P \in Seq(Keys) /\ Len(P) + 1 \in 1..Len(P \o rest) - 1
            /\ SubSeq(P \o rest, 1, Len(P) + 1) = P \o <<rest[1]>>
        <5>1. P \in Seq(Keys)
          BY <1>2
        <5>. QED  BY <5>1, <1>5, <2>3, PathContinues
      <4>2. \A n \in 1..Len(doc[i].path) - 1 :
              \E j \in DOMAIN doc : CFG!Nested(doc[j]) /\ doc[j].path = SubSeq(doc[i].path, 1, n)
        BY Beginnings
      <4>3. \E j \in DOMAIN doc : CFG!Nested(doc[j]) /\ doc[j].path = SubSeq(doc[i].path, 1, Len(P) + 1)
        BY <1>5, <4>1, <4>2, Zenon
      <4>. QED  BY <1>5, <4>1, <4>3, Zenon
    <3>2. rest[1] \in DOMAIN all[m] /\ all[m][rest[1]] = value[j]
      BY <1>2, <2>1, <3>1, Zenon
    <3>3. CFG!IsMap(value[j]) /\ value[j].map = j
      BY <3>1 DEF Valued
    <3>4. doc[i].path = PathOf(doc, j) \o Tail(rest)
      <4>1. P \o (<<rest[1]>> \o Tail(rest)) = (P \o <<rest[1]>>) \o Tail(rest)
        BY <1>2, <1>5, PathContinues, Zenon
      <4>. QED  BY <1>4, <1>5, <2>1, <3>1, <4>1, Zenon
    <3>5. Tail(rest) \in DOMAIN flat[j] /\ flat[j][Tail(rest)] = value[i]
      <4>1. Right(doc, value, j, flat[j])
        BY <2>1, <3>1 DEF P
      <4>. QED  BY <2>1, <2>3, <3>4, <4>1, Zenon DEF Right
    <3>6. rest \in Below(all, flat, m)
      <4>1. rest[1] \in Children(all, m)
        BY <3>2, <3>3 DEF Children
      <4>2. rest \in {<<rest[1]>> \o path : path \in DOMAIN flat[all[m][rest[1]].map]}
        BY <2>1, <3>2, <3>3, <3>5, Zenon
      <4>. QED  BY <4>1, <4>2, Zenon DEF Below
    <3>. QED  BY <1>3, <2>3, <3>2, <3>3, <3>5, <3>6, Zenon
  <2>. QED  BY <2>2, <2>3
<1>6. ASSUME NEW rest \in DOMAIN R
      PROVE  rest \in Seq(Keys) /\ rest # <<>> /\ \E i \in DOMAIN doc : doc[i].path = P \o rest
  <2>1. CASE rest \in {<<key>> : key \in DOMAIN all[m]}
    <3>1. PICK key \in DOMAIN all[m] : rest = <<key>>
      BY <2>1
    <3>2. rest \in Seq(Keys) /\ rest # <<>>
      BY <1>2, <3>1
    <3>. QED  BY <1>2, <3>1, <3>2, Zenon
  <2>2. ASSUME NEW key \in Children(all, m), NEW path \in DOMAIN flat[all[m][key].map], rest = <<key>> \o path
        PROVE  rest \in Seq(Keys) /\ rest # <<>> /\ \E i \in DOMAIN doc : doc[i].path = P \o rest
    <3>1. key \in DOMAIN all[m] /\ CFG!IsMap(all[m][key])
      BY DEF Children
    <3>2. PICK j \in DOMAIN doc : key \in Keys /\ doc[j].path = P \o <<key>> /\ all[m][key] = value[j]
      BY <1>2, <3>1, Zenon
    <3>3. CFG!Nested(doc[j]) /\ all[m][key].map = j
      BY <3>1, <3>2 DEF Valued
    <3>4. Right(doc, value, j, flat[j])
      BY <3>2, <3>3 DEF P
    <3>5. PICK i \in DOMAIN doc : path \in Seq(Keys) /\ path # <<>> /\ doc[i].path = PathOf(doc, j) \o path
      BY <2>2, <3>3, <3>4, Zenon DEF Right
    <3>6. /\ P \o (<<key>> \o path) = (P \o <<key>>) \o path
          /\ <<key>> \o path \in Seq(Keys) /\ <<key>> \o path # <<>>
      <4>1. P \in Seq(Keys) /\ key \in Keys /\ path \in Seq(Keys)
        BY <1>2, <3>2, <3>5
      <4>. QED  BY <4>1, KeyBetween, SMTT(20)
    <3>. QED  BY <1>4, <2>2, <3>2, <3>5, <3>6, Zenon
  <2>3. rest \in {<<key>> : key \in DOMAIN all[m]}
        \/ \E key \in Children(all, m) : \E path \in DOMAIN flat[all[m][key].map] : rest = <<key>> \o path
    <3>1. rest \in Below(all, flat, m)
      BY <1>3
    <3>. QED  BY <3>1, Zenon DEF Below
  <2>. QED  BY <2>1, <2>2, <2>3
<1>. QED  BY <1>5, <1>6 DEF Right, P, R

\* So FlattenMap gives every entry of a document, by its path, and nothing else.
LEMMA FlattenTree ==
  ASSUME NEW doc, CFG!WellFormed(doc), NEW value, Valued(doc, value),
         NEW all, InTree(doc, value, Len(doc), all)
  PROVE  /\ \A i \in DOMAIN doc : /\ doc[i].path \in DOMAIN CFG!FlattenMap(all, 0)
                                  /\ CFG!FlattenMap(all, 0)[doc[i].path] = value[i]
         /\ \A path \in DOMAIN CFG!FlattenMap(all, 0) : \E i \in DOMAIN doc : path = doc[i].path
<1>1. /\ Len(doc) \in Nat /\ DOMAIN doc = 1..Len(doc)
      /\ \A i \in DOMAIN doc : doc[i].path \in Seq(Keys) /\ doc[i].path # <<>>
      /\ \A i, j \in DOMAIN doc : doc[i].path = doc[j].path => i = j
  BY Parents
<1>2. /\ 0 \in DOMAIN all /\ DOMAIN all \subseteq 0..Len(doc)
      /\ \A i \in DOMAIN doc : CFG!Nested(doc[i]) => i \in DOMAIN all
  BY <1>1 DEF InTree
<1>3. \A m \in DOMAIN all : PathOf(doc, m) \in Seq(Keys)
  BY MapKeys
<1>. DEFINE Rests(m) == {rest \in Seq(Keys) : rest # <<>> /\ \E i \in DOMAIN doc : doc[i].path = PathOf(doc, m) \o rest}
            Whose(m, rest) == CHOOSE i \in DOMAIN doc : doc[i].path = PathOf(doc, m) \o rest
            best == [m \in DOMAIN all |-> [rest \in Rests(m) |-> value[Whose(m, rest)]]]
<1>4. \A m \in DOMAIN all : Right(doc, value, m, best[m])
  <2>1. SUFFICES ASSUME NEW m \in DOMAIN all PROVE Right(doc, value, m, best[m])
    OBVIOUS
  <2>. DEFINE g == [rest \in Rests(m) |-> value[Whose(m, rest)]]
  <2>2. best[m] = g /\ DOMAIN g = Rests(m) /\ \A rest \in Rests(m) : g[rest] = value[Whose(m, rest)]
    OBVIOUS
  <2>. HIDE DEF g, best
  <2>3. ASSUME NEW i \in DOMAIN doc, NEW rest \in Seq(Keys), rest # <<>>, doc[i].path = PathOf(doc, m) \o rest
        PROVE  rest \in DOMAIN g /\ g[rest] = value[i]
    <3>1. rest \in Rests(m)
      BY <2>3
    <3>2. Whose(m, rest) \in DOMAIN doc /\ doc[Whose(m, rest)].path = PathOf(doc, m) \o rest
      BY <2>3, Zenon
    <3>. HIDE DEF Whose
    <3>3. Whose(m, rest) = i
      BY <1>1, <2>3, <3>2
    <3>. QED  BY <2>2, <3>1, <3>3
  <2>. QED  BY <2>2, <2>3 DEF Right
<1>. HIDE DEF best
<1>5. \A m \in DOMAIN all : \A g, h :
        /\ Right(doc, value, m, g) /\ Right(doc, value, m, h)
        /\ g = [rest \in DOMAIN g |-> g[rest]] /\ h = [rest \in DOMAIN h |-> h[rest]]
        => g = h
  <2>1. SUFFICES ASSUME NEW m \in DOMAIN all, NEW g, NEW h, Right(doc, value, m, g), Right(doc, value, m, h)
                 PROVE  DOMAIN g = DOMAIN h /\ \A rest \in DOMAIN g : g[rest] = h[rest]
    OBVIOUS
  <2>2. \A rest \in DOMAIN g : rest \in DOMAIN h /\ g[rest] = h[rest]
    BY <2>1, ZenonT(30) DEF Right
  <2>3. \A rest \in DOMAIN h : rest \in DOMAIN g
    BY <2>1, Zenon DEF Right
  <2>. QED  BY <2>2, <2>3
<1>6. \A m \in DOMAIN all : \A flat :
        Reached(all, flat, m) = [rest \in DOMAIN Reached(all, flat, m) |-> Reached(all, flat, m)[rest]]
  BY DEF Reached
<1>7. Flattens(best, all)
  <2>1. ASSUME NEW m \in DOMAIN all PROVE best[m] = Reached(all, best, m)
    <3>1. Right(doc, value, m, Reached(all, best, m))
      BY <1>2, <1>4, ReachedRightly
    <3>2. best[m] = [rest \in DOMAIN best[m] |-> best[m][rest]]
      BY DEF best
    <3>. QED  BY <1>4, <1>5, <1>6, <3>1, <3>2
  <2>2. best = [m \in DOMAIN all |-> best[m]]
    BY DEF best
  <2>. QED  BY <2>1, <2>2 DEF Flattens
<1>. DEFINE flat == CHOOSE f : Flattens(f, all)
<1>8. Flattens(flat, all)
  BY <1>7, Zenon
<1>. HIDE DEF flat
<1>9. \A m \in DOMAIN all : flat[m] = Reached(all, flat, m)
  BY <1>8 DEF Flattens
<1>10. \A m \in DOMAIN all : Right(doc, value, m, flat[m])
  <2>. DEFINE T == {x \in Nat : \E m \in DOMAIN all : x = Len(doc) - m /\ ~ Right(doc, value, m, flat[m])}
  <2>1. SUFFICES ASSUME NEW m \in DOMAIN all, ~ Right(doc, value, m, flat[m]) PROVE FALSE
    BY Zenon
  <2>2. Len(doc) - m \in T
    BY <1>1, <1>2, <2>1
  <2>3. PICK x \in T : \A y \in T : x <= y
    <3>1. T \subseteq Nat /\ T # {}
      BY <2>2
    <3>. HIDE DEF T
    <3>. QED  BY <3>1, LeastNumber
  <2>4. PICK k \in DOMAIN all : x = Len(doc) - k /\ ~ Right(doc, value, k, flat[k])
    BY <2>3
  <2>5. ASSUME NEW i \in DOMAIN doc, NEW key \in Keys, CFG!Nested(doc[i]), doc[i].path = PathOf(doc, k) \o <<key>>
        PROVE  Right(doc, value, i, flat[i])
    <3>1. PICK l \in 0..i - 1 : /\ l # 0 => CFG!Nested(doc[l])
                                /\ CFG!Front(doc[i].path) = PathOf(doc, l)
      BY Parents
    <3>2. CFG!Front(doc[i].path) = PathOf(doc, k)
      BY <1>1, <1>3, <2>5, PathEnds
    <3>3. k < i
      <4>1. CASE k = 0
        BY <1>1, <4>1
      <4>2. CASE k # 0
        <5>1. k \in DOMAIN doc /\ PathOf(doc, k) = doc[k].path /\ doc[k].path # <<>>
          BY <1>1, <1>2, <4>2 DEF PathOf
        <5>2. l # 0
          BY <3>1, <3>2, <5>1 DEF PathOf
        <5>3. l \in DOMAIN doc /\ PathOf(doc, l) = doc[l].path
          BY <1>1, <3>1, <5>2 DEF PathOf
        <5>4. l = k
          BY <1>1, <3>1, <3>2, <5>1, <5>3
        <5>. QED  BY <1>1, <5>4
      <4>. QED  BY <4>1, <4>2
    <3>4. i \in DOMAIN all /\ Len(doc) - i \in Nat /\ ~ (x <= Len(doc) - i)
      BY <1>1, <1>2, <2>4, <2>5, <3>3
    <3>5. Len(doc) - i \notin T
      BY <2>3, <3>4
    <3>. QED  BY <3>4, <3>5
  <2>6. Right(doc, value, k, Reached(all, flat, k))
    BY <2>5, ReachedRightly
  <2>. QED  BY <1>9, <2>4, <2>6
<1>11. Right(doc, value, 0, flat[0])
  BY <1>2, <1>10
<1>12. \A s \in Seq(Keys) : PathOf(doc, 0) \o s = s
  BY ConcatEmptySeq DEF PathOf
<1>13. \A i \in DOMAIN doc : doc[i].path \in DOMAIN flat[0] /\ flat[0][doc[i].path] = value[i]
  <2>1. \A i \in DOMAIN doc : doc[i].path = PathOf(doc, 0) \o doc[i].path
    BY <1>1, <1>12
  <2>. QED  BY <1>1, <1>11, <2>1, Zenon DEF Right
<1>14. ASSUME NEW path \in DOMAIN flat[0] PROVE \E i \in DOMAIN doc : path = doc[i].path
  <2>1. PICK i \in DOMAIN doc : path \in Seq(Keys) /\ doc[i].path = PathOf(doc, 0) \o path
    BY <1>11, Zenon DEF Right
  <2>. QED  BY <1>12, <2>1
<1>15. CFG!FlattenMap(all, 0) = flat[0]
  BY FlattenMapFlattens DEF flat
<1>. QED  BY <1>13, <1>14, <1>15, Zenon

-----------------------------------------------------------------------------
(* Reading a document line by line *)

\* What the entries of a document are read as.
Values(doc, format) ==
  [i \in DOMAIN doc |->
     IF CFG!Nested(doc[i]) THEN CFG!MapOf(i)
     ELSE IF format = "yaml" THEN CFG!ParseYAMLValue(doc[i].text, doc[i].quoted)
     ELSE CFG!ParseJSONValue(doc[i].text, doc[i].quoted)]

\* No text is read as a map.
LEMMA ValuesAreValued ==
  ASSUME NEW doc, NEW format
  PROVE  Valued(doc, Values(doc, format))
<1>1. \A text, quoted : ~ CFG!IsMap(CFG!ParseYAMLValue(text, quoted)) /\ ~ CFG!IsMap(CFG!ParseJSONValue(text, quoted))
  BY DEF CFG!ParseYAMLValue, CFG!ParseJSONValue, CFG!Value, CFG!IsMap
<1>2. \A i : CFG!IsMap(CFG!MapOf(i)) /\ CFG!MapOf(i).map = i
  BY DEF CFG!IsMap, CFG!MapOf
<1>3. \A i \in DOMAIN doc : Values(doc, format)[i] =
        IF CFG!Nested(doc[i]) THEN CFG!MapOf(i)
        ELSE IF format = "yaml" THEN CFG!ParseYAMLValue(doc[i].text, doc[i].quoted)
        ELSE CFG!ParseJSONValue(doc[i].text, doc[i].quoted)
  BY Zenon DEF Values
<1>4. SUFFICES ASSUME NEW i \in DOMAIN doc
               PROVE  /\ CFG!IsMap(Values(doc, format)[i]) <=> CFG!Nested(doc[i])
                      /\ CFG!Nested(doc[i]) => Values(doc, format)[i].map = i
  BY Zenon DEF Valued
<1>5. CASE CFG!Nested(doc[i])
  BY <1>2, <1>3, <1>5, Zenon
<1>6. CASE ~ CFG!Nested(doc[i])
  BY <1>1, <1>3, <1>6, Zenon
<1>. QED  BY <1>5, <1>6

\* One function over another.
LEMMA OverIs ==
  ASSUME NEW old, NEW new
  PROVE  /\ DOMAIN CFG!Over(old, new) = DOMAIN old \cup DOMAIN new
         /\ \A x \in DOMAIN new : CFG!Over(old, new)[x] = new[x]
         /\ \A x \in DOMAIN old : x \notin DOMAIN new => CFG!Over(old, new)[x] = old[x]
BY DEF CFG!Over

Levels == [prefix : Seq(Keys), indent : Nat, parent : Nat]
Root == [prefix |-> <<>>, indent |-> 0, parent |-> 0]

\* The stack after n lines: sections in their order, with those that the next line may be in.
Opened(doc, n, levels) ==
  /\ levels \in Seq(Levels) /\ Len(levels) \in Nat \ {0} /\ levels[1] = Root
  /\ \A k \in 2..Len(levels) :
       /\ levels[k].parent \in 1..n /\ CFG!Nested(doc[levels[k].parent])
       /\ levels[k].prefix = doc[levels[k].parent].path
       /\ levels[k].indent = doc[levels[k].parent].indent
  /\ \A l, k \in 1..Len(levels) : l < k => levels[l].parent < levels[k].parent
  /\ \A m \in 1..n :
       CFG!Nested(doc[m]) /\ (\A k \in m + 1..n : doc[k].indent > doc[m].indent)
         => \E k \in 2..Len(levels) : levels[k].parent = m

\* The level that a line belongs to is that of its section.
LEMMA LevelIsParent ==
  ASSUME NEW doc, CFG!WellFormed(doc), NEW i \in DOMAIN doc, Opened(doc, i - 1, stack)
  PROVE  LET level == CFG!Level(doc[i].indent)
         IN /\ level \in 1..Len(stack)
            /\ stack[level].prefix = CFG!Front(doc[i].path)
            /\ stack[level].parent \in 0..i - 1
            /\ stack[level].parent # 0 => CFG!Nested(doc[stack[level].parent])
            /\ PathOf(doc, stack[level].parent) = CFG!Front(doc[i].path)
            /\ \A k \in level + 1..Len(stack) : stack[k].indent >= doc[i].indent
<1>. DEFINE d == doc[i].indent
            Fits(n) == /\ n = 1 \/ stack[n].indent < d
                       /\ \A k \in n + 1..Len(stack) : stack[k].indent >= d
<1>1. /\ DOMAIN doc = 1..Len(doc) /\ Len(doc) \in Nat /\ i \in Nat \ {0}
      /\ \A j \in DOMAIN doc : doc[j].indent \in Nat \ {0}
  BY Parents
<1>2. PICK m \in 0..i - 1 : /\ m # 0 => CFG!Nested(doc[m]) /\ doc[m].indent < d
                            /\ CFG!Front(doc[i].path) = PathOf(doc, m)
                            /\ \A k \in m + 1..i - 1 : doc[k].indent >= d
  BY Parents
<1>3. /\ Len(stack) \in Nat \ {0} /\ stack[1] = Root
      /\ \A k \in 2..Len(stack) :
           /\ stack[k].parent \in 1..i - 1 /\ CFG!Nested(doc[stack[k].parent])
           /\ stack[k].prefix = doc[stack[k].parent].path
           /\ stack[k].indent = doc[stack[k].parent].indent
      /\ \A l, k \in 1..Len(stack) : l < k => stack[l].parent < stack[k].parent
  BY DEF Opened
<1>4. PICK n \in 1..Len(stack) : stack[n].parent = m
  <2>1. CASE m = 0
    BY <1>3, <2>1 DEF Root
  <2>2. CASE m # 0
    <3>1. m \in 1..i - 1 /\ m \in DOMAIN doc
      BY <1>1, <2>2
    <3>2. \A k \in m + 1..i - 1 : doc[k].indent > doc[m].indent
      <4>1. \A k \in m + 1..i - 1 : k \in DOMAIN doc
        BY <1>1, <3>1
      <4>. QED  BY <1>1, <1>2, <2>2, <3>1, <4>1
    <3>3. PICK k \in 2..Len(stack) : stack[k].parent = m
      BY <1>2, <2>2, <3>1, <3>2 DEF Opened
    <3>. QED  BY <1>3, <3>3
  <2>. QED  BY <2>1, <2>2
<1>5. Fits(n)
  <2>1. n = 1 \/ stack[n].indent < d
    <3>1. CASE n # 1
      <4>1. n \in 2..Len(stack)
        BY <1>3, <3>1
      <4>. QED  BY <1>1, <1>2, <1>3, <1>4, <4>1
    <3>. QED  BY <3>1
  <2>2. ASSUME NEW k \in n + 1..Len(stack) PROVE stack[k].indent >= d
    <3>1. k \in 2..Len(stack) /\ n < k /\ k \in 1..Len(stack)
      BY <1>3
    <3>2. stack[n].parent < stack[k].parent /\ stack[k].parent \in 1..i - 1
          /\ stack[k].indent = doc[stack[k].parent].indent
      BY <1>3, <3>1
    <3>3. stack[k].parent \in m + 1..i - 1
      BY <1>1, <1>4, <3>2
    <3>. QED  BY <1>2, <3>2, <3>3
  <2>. QED  BY <2>1, <2>2
<1>6. \A l \in 1..Len(stack) : Fits(l) => l = n
  <2>1. SUFFICES ASSUME NEW l \in 1..Len(stack), Fits(l), l # n PROVE FALSE
    BY Zenon
  <2>2. CASE n < l
    <3>1. l \in n + 1..Len(stack) /\ l # 1 /\ l \in 2..Len(stack)
      BY <1>3, <2>2
    <3>2. stack[l].indent >= d /\ stack[l].indent < d
      BY <1>5, <2>1, <3>1
    <3>3. stack[l].indent \in Nat /\ d \in Nat
      <4>1. stack[l].parent \in DOMAIN doc /\ stack[l].indent = doc[stack[l].parent].indent
        BY <1>1, <1>3, <3>1
      <4>. QED  BY <1>1, <4>1
    <3>. QED  BY <3>2, <3>3
  <2>3. CASE l < n
    <3>1. n \in l + 1..Len(stack) /\ n # 1 /\ n \in 2..Len(stack)
      BY <1>3, <2>3
    <3>2. stack[n].indent < d /\ stack[n].indent >= d
      BY <1>5, <2>1, <3>1
    <3>3. stack[n].indent \in Nat /\ d \in Nat
      <4>1. stack[n].parent \in DOMAIN doc /\ stack[n].indent = doc[stack[n].parent].indent
        BY <1>1, <1>3, <3>1
      <4>. QED  BY <1>1, <4>1
    <3>. QED  BY <3>2, <3>3
  <2>. QED  BY <1>3, <2>1, <2>2, <2>3
<1>7. CFG!Level(d) = CHOOSE l \in 1..Len(stack) : Fits(l)
  BY DEF CFG!Level
<1>8. CFG!Level(d) = n
  <2>. HIDE DEF Fits, d
  <2>. QED  BY <1>5, <1>6, <1>7, Zenon
<1>9. stack[n].prefix = CFG!Front(doc[i].path)
  <2>1. CASE n = 1
    <3>1. stack[n] = Root /\ m = 0
      BY <1>3, <1>4, <2>1 DEF Root
    <3>. QED  BY <1>2, <3>1 DEF Root, PathOf
  <2>2. CASE n # 1
    <3>1. n \in 2..Len(stack)
      BY <1>3, <2>2
    <3>2. m # 0 /\ stack[n].prefix = doc[m].path
      BY <1>1, <1>3, <1>4, <3>1
    <3>. QED  BY <1>2, <3>2 DEF PathOf
  <2>. QED  BY <2>1, <2>2
<1>10. \A k \in n + 1..Len(stack) : stack[k].indent >= d
  BY <1>5
<1>. HIDE DEF Fits
<1>. QED  BY <1>2, <1>4, <1>8, <1>9, <1>10

\* A line closes the sections that it is not in.
LEMMA LineCloses ==
  ASSUME NEW doc, CFG!WellFormed(doc), NEW i \in DOMAIN doc, NEW levels, Opened(doc, i - 1, levels),
         NEW level \in 1..Len(levels), \A k \in level + 1..Len(levels) : levels[k].indent >= doc[i].indent
  PROVE  /\ ~ CFG!Nested(doc[i]) => Opened(doc, i, SubSeq(levels, 1, level))
         /\ CFG!Nested(doc[i]) =>
              Opened(doc, i, Append(SubSeq(levels, 1, level),
                                    [prefix |-> doc[i].path, indent |-> doc[i].indent, parent |-> i]))
<1>. DEFINE cut == SubSeq(levels, 1, level)
            new == [prefix |-> doc[i].path, indent |-> doc[i].indent, parent |-> i]
            more == Append(cut, new)
<1>1. /\ DOMAIN doc = 1..Len(doc) /\ Len(doc) \in Nat /\ i \in Nat \ {0}
      /\ \A j \in DOMAIN doc : doc[j].indent \in Nat \ {0} /\ doc[j].path \in Seq(Keys)
  BY Parents
<1>2. /\ levels \in Seq(Levels) /\ Len(levels) \in Nat \ {0} /\ levels[1] = Root
      /\ \A k \in 2..Len(levels) :
           /\ levels[k].parent \in 1..i - 1 /\ CFG!Nested(doc[levels[k].parent])
           /\ levels[k].prefix = doc[levels[k].parent].path
           /\ levels[k].indent = doc[levels[k].parent].indent
      /\ \A l, k \in 1..Len(levels) : l < k => levels[l].parent < levels[k].parent
      /\ \A m \in 1..i - 1 :
           CFG!Nested(doc[m]) /\ (\A k \in m + 1..i - 1 : doc[k].indent > doc[m].indent)
             => \E k \in 2..Len(levels) : levels[k].parent = m
  BY DEF Opened
<1>3. /\ cut \in Seq(Levels) /\ Len(cut) = level /\ level \in Nat \ {0}
      /\ \A k \in 1..level : cut[k] = levels[k]
  BY <1>2
<1>4. new \in Levels
  BY <1>1 DEF Levels
<1>5. /\ more \in Seq(Levels) /\ Len(more) = level + 1 /\ more[level + 1] = new
      /\ \A k \in 1..level : more[k] = levels[k]
  <2>. HIDE DEF cut, new
  <2>. QED  BY <1>3, <1>4, AppendProperties
<1>6. new.prefix = doc[i].path /\ new.indent = doc[i].indent /\ new.parent = i
  OBVIOUS
<1>. HIDE DEF cut, new, more
\* The sections that stay open are those above the cut.
<1>7. ASSUME NEW m \in 1..i - 1, CFG!Nested(doc[m]), \A k \in m + 1..i : doc[k].indent > doc[m].indent
      PROVE  \E k \in 2..level : levels[k].parent = m
  <2>1. PICK k \in 2..Len(levels) : levels[k].parent = m
    BY <1>1, <1>2, <1>7
  <2>2. levels[k].indent = doc[m].indent
    BY <1>2, <2>1, Zenon
  <2>3. k \notin level + 1..Len(levels)
    <3>1. m \in DOMAIN doc /\ i \in m + 1..i
      BY <1>1
    <3>2. doc[m].indent \in Nat /\ doc[i].indent \in Nat
      BY <1>1, <3>1
    <3>3. doc[i].indent > doc[m].indent
      BY <1>7, <3>1, Zenon
    <3>. QED  BY <2>2, <3>2, <3>3
  <2>4. k \in 2..level
    BY <1>2, <1>3, <2>1, <2>3
  <2>. QED  BY <2>1, <2>4
<1>8. ASSUME ~ CFG!Nested(doc[i]) PROVE Opened(doc, i, cut)
  <2>1. cut[1] = Root
    BY <1>2, <1>3
  <2>2. ASSUME NEW k \in 2..Len(cut)
        PROVE  /\ cut[k].parent \in 1..i /\ CFG!Nested(doc[cut[k].parent])
               /\ cut[k].prefix = doc[cut[k].parent].path /\ cut[k].indent = doc[cut[k].parent].indent
    <3>1. k \in 1..level /\ k \in 2..Len(levels)
      BY <1>2, <1>3
    <3>. QED  BY <1>1, <1>2, <1>3, <3>1, SMTT(20)
  <2>3. ASSUME NEW l \in 1..Len(cut), NEW k \in 1..Len(cut), l < k PROVE cut[l].parent < cut[k].parent
    <3>1. l \in 1..Len(levels) /\ k \in 1..Len(levels)
      BY <1>2, <1>3
    <3>. QED  BY <1>2, <1>3, <2>3, <3>1
  <2>4. ASSUME NEW m \in 1..i, CFG!Nested(doc[m]), \A k \in m + 1..i : doc[k].indent > doc[m].indent
        PROVE  \E k \in 2..Len(cut) : cut[k].parent = m
    <3>1. m \in 1..i - 1
      BY <1>1, <1>8, <2>4
    <3>2. PICK k \in 2..level : levels[k].parent = m
      BY <1>7, <2>4, <3>1
    <3>. QED  BY <1>3, <3>2
  <2>. QED  BY <1>3, <2>1, <2>2, <2>3, <2>4 DEF Opened
<1>9. ASSUME CFG!Nested(doc[i]) PROVE Opened(doc, i, more)
  <2>1. more[1] = Root
    BY <1>2, <1>3, <1>5
  <2>2. ASSUME NEW k \in 2..Len(more)
        PROVE  /\ more[k].parent \in 1..i /\ CFG!Nested(doc[more[k].parent])
               /\ more[k].prefix = doc[more[k].parent].path /\ more[k].indent = doc[more[k].parent].indent
    <3>1. CASE k = level + 1
      BY <1>1, <1>5, <1>6, <1>9, <3>1
    <3>2. CASE k # level + 1
      <4>1. k \in 1..level /\ k \in 2..Len(levels)
        BY <1>2, <1>3, <1>5, <3>2
      <4>. QED  BY <1>1, <1>2, <1>5, <4>1, SMTT(20)
    <3>. QED  BY <3>1, <3>2
  <2>3. ASSUME NEW l \in 1..Len(more), NEW k \in 1..Len(more), l < k PROVE more[l].parent < more[k].parent
    <3>1. l \in 1..level /\ l \in 1..Len(levels) /\ more[l] = levels[l]
      BY <1>2, <1>3, <1>5, <2>3
    <3>2. CASE k = level + 1
      <4>1. levels[l].parent < i
        <5>1. CASE l = 1
          BY <1>1, <1>2, <5>1 DEF Root
        <5>2. CASE l # 1
          <6>1. l \in 2..Len(levels)
            BY <3>1, <5>2
          <6>. QED  BY <1>1, <1>2, <6>1
        <5>. QED  BY <5>1, <5>2
      <4>. QED  BY <1>5, <1>6, <3>1, <3>2, <4>1
    <3>3. CASE k # level + 1
      <4>1. k \in 1..level /\ k \in 1..Len(levels) /\ more[k] = levels[k]
        BY <1>2, <1>3, <1>5, <3>3
      <4>. QED  BY <1>2, <2>3, <3>1, <4>1
    <3>. QED  BY <3>2, <3>3
  <2>4. ASSUME NEW m \in 1..i, CFG!Nested(doc[m]), \A k \in m + 1..i : doc[k].indent > doc[m].indent
        PROVE  \E k \in 2..Len(more) : more[k].parent = m
    <3>1. CASE m = i
      <4>1. level + 1 \in 2..Len(more)
        BY <1>3, <1>5
      <4>. QED  BY <1>5, <1>6, <3>1, <4>1
    <3>2. CASE m # i
      <4>1. m \in 1..i - 1
        BY <1>1, <3>2
      <4>2. PICK k \in 2..level : levels[k].parent = m
        BY <1>7, <2>4, <4>1
      <4>. QED  BY <1>3, <1>5, <4>2
    <3>. QED  BY <3>1, <3>2
  <2>5. Len(more) \in Nat \ {0}
    BY <1>3, <1>5
  <2>. QED  BY <1>5, <2>1, <2>2, <2>3, <2>4, <2>5 DEF Opened
<1>. QED  BY <1>8, <1>9 DEF cut, new, more

-----------------------------------------------------------------------------
(* A line more in the tree *)

\* An entry more, in the map that it belongs to.
LEMMA TreeGrows ==
  ASSUME NEW doc, CFG!WellFormed(doc), NEW value, NEW i \in DOMAIN doc, InTree(doc, value, i - 1, maps),
         NEW m \in 0..i - 1, m # 0 => CFG!Nested(doc[m]), PathOf(doc, m) = CFG!Front(doc[i].path)
  PROVE  LET filled == CFG!Put(m, CFG!Last(doc[i].path), value[i])
         IN /\ ~ CFG!Nested(doc[i]) => InTree(doc, value, i, filled)
            /\ CFG!Nested(doc[i]) => InTree(doc, value, i, CFG!Over(filled, [x \in {i} |-> CFG!Empty]))
<1>. DEFINE key == CFG!Last(doc[i].path)
            filled == CFG!Put(m, key, value[i])
            more == CFG!Over(filled, [x \in {i} |-> CFG!Empty])
<1>1. /\ DOMAIN doc = 1..Len(doc) /\ Len(doc) \in Nat /\ i \in Nat \ {0}
      /\ \A j \in DOMAIN doc : doc[j].path \in Seq(Keys) /\ doc[j].path # <<>>
      /\ \A j, k \in DOMAIN doc : doc[j].path = doc[k].path => j = k
  BY Parents
<1>2. /\ DOMAIN maps = {0} \cup {j \in 1..i - 1 : CFG!Nested(doc[j])}
      /\ \A n \in DOMAIN maps :
           /\ \A k : k \in DOMAIN maps[n] <=>
                \E j \in 1..i - 1 : CFG!Front(doc[j].path) = PathOf(doc, n) /\ CFG!Last(doc[j].path) = k
           /\ \A j \in 1..i - 1 : CFG!Front(doc[j].path) = PathOf(doc, n) => maps[n][CFG!Last(doc[j].path)] = value[j]
  BY Zenon DEF InTree
<1>3. m \in DOMAIN maps
  <2>1. m = 0 \/ m \in 1..i - 1
    BY <1>1
  <2>. QED  BY <1>2, <2>1
<1>4. \A j \in 1..i : j \in DOMAIN doc /\ (j \in 1..i - 1 \/ j = i)
  BY <1>1
<1>5. \A j \in 1..i - 1 : j \in 1..i /\ j # i /\ j \in Nat
  BY <1>1
\* Maps have paths of their own.
<1>6. \A n, l \in {0} \cup 1..i : PathOf(doc, n) = PathOf(doc, l) => n = l
  <2>1. \A n \in 1..i : n # 0 /\ n \in DOMAIN doc /\ doc[n].path # <<>>
    BY <1>1, <1>4
  <2>2. \A n, l \in 1..i : doc[n].path = doc[l].path => n = l
    BY <1>1, <2>1, Zenon
  <2>. QED  BY <2>1, <2>2 DEF PathOf
<1>7. \A n \in DOMAIN maps : n \in {0} \cup 1..i
  BY <1>2, <1>5
<1>8. i \in 1..i /\ i \notin DOMAIN maps /\ i # 0
  BY <1>1, <1>2
\* What was in its map has another key.
<1>9. \A j \in 1..i - 1 : CFG!Front(doc[j].path) = PathOf(doc, m) => CFG!Last(doc[j].path) # key
  <2>1. SUFFICES ASSUME NEW j \in 1..i - 1, CFG!Front(doc[j].path) = PathOf(doc, m), CFG!Last(doc[j].path) = key
                 PROVE  FALSE
    BY Zenon
  <2>2. j \in DOMAIN doc /\ j # i
    BY <1>4, <1>5
  <2>3. /\ doc[j].path = CFG!Front(doc[j].path) \o <<CFG!Last(doc[j].path)>>
        /\ doc[i].path = CFG!Front(doc[i].path) \o <<CFG!Last(doc[i].path)>>
    <3>1. \A k \in DOMAIN doc : doc[k].path = CFG!Front(doc[k].path) \o <<CFG!Last(doc[k].path)>>
      BY <1>1, PathSplits, Zenon
    <3>. QED  BY <2>2, <3>1
  <2>4. doc[j].path = doc[i].path
    BY <2>1, <2>3, Zenon
  <2>. QED  BY <1>1, <2>2, <2>4, Zenon
<1>10. /\ DOMAIN filled = DOMAIN maps
       /\ \A n \in DOMAIN maps : n # m => filled[n] = maps[n]
       /\ filled[m] = CFG!Over(maps[m], [k \in {key} |-> value[i]])
  <2>. HIDE DEF key
  <2>. QED  BY <1>3 DEF CFG!Put
<1>11. /\ DOMAIN filled[m] = DOMAIN maps[m] \cup {key}
       /\ filled[m][key] = value[i]
       /\ \A k \in DOMAIN maps[m] : k # key => filled[m][k] = maps[m][k]
  <2>. HIDE DEF key
  <2>1. /\ DOMAIN CFG!Over(maps[m], [k \in {key} |-> value[i]]) = DOMAIN maps[m] \cup {key}
        /\ CFG!Over(maps[m], [k \in {key} |-> value[i]])[key] = value[i]
        /\ \A k \in DOMAIN maps[m] : k # key => CFG!Over(maps[m], [l \in {key} |-> value[i]])[k] = maps[m][k]
    BY DEF CFG!Over
  <2>. QED  BY <1>10, <2>1
<1>. HIDE DEF filled, key
\* The maps that were there hold what they should.
<1>12. ASSUME NEW n \in DOMAIN maps
       PROVE  /\ \A k : k \in DOMAIN filled[n] <=>
                    \E j \in 1..i : CFG!Front(doc[j].path) = PathOf(doc, n) /\ CFG!Last(doc[j].path) = k
              /\ \A j \in 1..i : CFG!Front(doc[j].path) = PathOf(doc, n) => filled[n][CFG!Last(doc[j].path)] = value[j]
  <2>1. CASE n = m
    <3>1. ASSUME NEW k
          PROVE  k \in DOMAIN filled[m] <=>
                   \E j \in 1..i : CFG!Front(doc[j].path) = PathOf(doc, m) /\ CFG!Last(doc[j].path) = k
      <4>1. k \in DOMAIN maps[m] <=>
              \E j \in 1..i - 1 : CFG!Front(doc[j].path) = PathOf(doc, m) /\ CFG!Last(doc[j].path) = k
        BY <1>2, <1>3, Zenon
      <4>2. k \in DOMAIN filled[m] <=> k \in DOMAIN maps[m] \/ k = key
        BY <1>11
      <4>3. CFG!Front(doc[i].path) = PathOf(doc, m) /\ CFG!Last(doc[i].path) = key
        BY DEF key
      <4>. QED  BY <1>4, <1>5, <1>8, <4>1, <4>2, <4>3, Zenon
    <3>2. ASSUME NEW j \in 1..i, CFG!Front(doc[j].path) = PathOf(doc, m)
          PROVE  filled[m][CFG!Last(doc[j].path)] = value[j]
      <4>1. CASE j = i
        BY <1>11, <4>1 DEF key
      <4>2. CASE j # i
        <5>1. j \in 1..i - 1
          BY <1>4, <4>2
        <5>2. CFG!Last(doc[j].path) # key
          BY <1>9, <3>2, <5>1, Zenon
        <5>3. CFG!Last(doc[j].path) \in DOMAIN maps[m]
          BY <1>2, <1>3, <3>2, <5>1, Zenon
        <5>4. maps[m][CFG!Last(doc[j].path)] = value[j]
          BY <1>2, <1>3, <3>2, <5>1, Zenon
        <5>. QED  BY <1>11, <5>2, <5>3, <5>4, Zenon
      <4>. QED  BY <4>1, <4>2
    <3>. QED  BY <2>1, <3>1, <3>2, Zenon
  <2>2. CASE n # m
    <3>1. CFG!Front(doc[i].path) # PathOf(doc, n)
      <4>1. n \in {0} \cup 1..i /\ m \in {0} \cup 1..i
        BY <1>3, <1>7
      <4>. QED  BY <1>6, <2>2, <4>1, Zenon
    <3>2. filled[n] = maps[n]
      BY <1>10, <2>2
    <3>3. /\ \A k : k \in DOMAIN maps[n] <=>
                \E j \in 1..i - 1 : CFG!Front(doc[j].path) = PathOf(doc, n) /\ CFG!Last(doc[j].path) = k
          /\ \A j \in 1..i - 1 : CFG!Front(doc[j].path) = PathOf(doc, n) => maps[n][CFG!Last(doc[j].path)] = value[j]
      BY <1>2, Zenon
    <3>4. \A j \in 1..i : CFG!Front(doc[j].path) = PathOf(doc, n) => j \in 1..i - 1
      BY <1>4, <3>1, Zenon
    <3>5. ASSUME NEW k
          PROVE  k \in DOMAIN filled[n] <=>
                   \E j \in 1..i : CFG!Front(doc[j].path) = PathOf(doc, n) /\ CFG!Last(doc[j].path) = k
      BY <1>5, <3>2, <3>3, <3>4, Zenon
    <3>6. \A j \in 1..i : CFG!Front(doc[j].path) = PathOf(doc, n) => filled[n][CFG!Last(doc[j].path)] = value[j]
      BY <3>2, <3>3, <3>4, Zenon
    <3>. QED  BY <3>5, <3>6
  <2>. QED  BY <2>1, <2>2
<1>13. ASSUME ~ CFG!Nested(doc[i]) PROVE InTree(doc, value, i, filled)
  <2>1. \A j : j \in {0} \cup {k \in 1..i : CFG!Nested(doc[k])} <=> j \in {0} \cup {k \in 1..i - 1 : CFG!Nested(doc[k])}
    BY <1>4, <1>5, <1>13
  <2>2. DOMAIN filled = {0} \cup {k \in 1..i : CFG!Nested(doc[k])}
    BY <1>2, <1>10, <2>1
  <2>. QED  BY <1>10, <1>12, <2>2, Zenon DEF InTree
<1>14. ASSUME CFG!Nested(doc[i]) PROVE InTree(doc, value, i, more)
  <2>1. /\ DOMAIN more = DOMAIN filled \cup {i} /\ more[i] = CFG!Empty
        /\ \A n \in DOMAIN filled : n # i => more[n] = filled[n]
    BY DEF CFG!Over
  <2>. HIDE DEF more
  <2>2. \A j : j \in {0} \cup {k \in 1..i : CFG!Nested(doc[k])} <=> j \in {0} \cup {k \in 1..i - 1 : CFG!Nested(doc[k])} \cup {i}
    BY <1>4, <1>5, <1>8, <1>14
  <2>3. DOMAIN more = {0} \cup {k \in 1..i : CFG!Nested(doc[k])}
    BY <1>2, <1>10, <2>1, <2>2
  \* Nothing that came before stands below it.
  <2>4. \A j \in 1..i : CFG!Front(doc[j].path) # PathOf(doc, i)
    <3>1. SUFFICES ASSUME NEW j \in 1..i, CFG!Front(doc[j].path) = PathOf(doc, i) PROVE FALSE
      BY Zenon
    <3>2. PICK l \in 0..j - 1 : CFG!Front(doc[j].path) = PathOf(doc, l)
      <4>1. j \in DOMAIN doc
        BY <1>4
      <4>. QED  BY <4>1, Parents
    <3>3. l \in {0} \cup 1..i /\ l # i
      BY <1>1, <3>2
    <3>. QED  BY <1>6, <1>8, <3>1, <3>2, <3>3, Zenon
  <2>5. \A k : k \notin DOMAIN more[i]
    BY <2>1 DEF CFG!Empty
  <2>6. \A n \in DOMAIN more : n = i \/ (n \in DOMAIN maps /\ more[n] = filled[n])
    BY <1>8, <1>10, <2>1
  <2>7. ASSUME NEW n \in DOMAIN more
        PROVE  /\ \A k : k \in DOMAIN more[n] <=>
                    \E j \in 1..i : CFG!Front(doc[j].path) = PathOf(doc, n) /\ CFG!Last(doc[j].path) = k
               /\ \A j \in 1..i : CFG!Front(doc[j].path) = PathOf(doc, n) => more[n][CFG!Last(doc[j].path)] = value[j]
    <3>1. CASE n = i
      BY <2>4, <2>5, <3>1, Zenon
    <3>2. CASE n # i
      <4>1. n \in DOMAIN maps /\ more[n] = filled[n]
        BY <2>6, <3>2
      <4>2. /\ \A k : k \in DOMAIN filled[n] <=>
                   \E j \in 1..i : CFG!Front(doc[j].path) = PathOf(doc, n) /\ CFG!Last(doc[j].path) = k
            /\ \A j \in 1..i :
                 CFG!Front(doc[j].path) = PathOf(doc, n) => filled[n][CFG!Last(doc[j].path)] = value[j]
        BY <1>12, <4>1, Zenon
      <4>. QED  BY <4>1, <4>2
    <3>. QED  BY <3>1, <3>2
  <2>. QED  BY <2>3, <2>7, Zenon DEF InTree
<1>. QED  BY <1>13, <1>14, Zenon DEF filled, more, key

-----------------------------------------------------------------------------
(* What the layers are read as *)

\* A sequence, and one element more.
LEMMA OneMore ==
  ASSUME NEW S, NEW first \in Seq(S), NEW last \in Seq(S), Len(last) = 1
  PROVE  /\ first \o last \in Seq(S) /\ Len(first \o last) = Len(first) + 1
         /\ \A j \in 1..Len(first) : (first \o last)[j] = first[j]
         /\ (first \o last)[Len(first) + 1] = last[1]
<1>1. /\ first \o last \in Seq(S) /\ Len(first \o last) = Len(first) + Len(last)
      /\ \A i \in 1..Len(first) + Len(last) :
           (first \o last)[i] = IF i <= Len(first) THEN first[i] ELSE last[i - Len(first)]
  BY ConcatProperties
<1>2. Len(first) \in Nat
  OBVIOUS
<1>. QED  BY <1>1, <1>2

\* The variable that sets a path of single words has those words for its name.
LEMMA NamesOfPaths ==
  ASSUME NEW W, NEW path \in Seq(Seq(W)), path # <<>>, \A i \in DOMAIN path : Len(path[i]) = 1
  PROVE  /\ CFG!EnvKey(CFG!FlattenSeq(path)) = path
         /\ \A name \in Seq(W) : CFG!EnvKey(name) = path => name = CFG!FlattenSeq(path)
<1>. DEFINE n == Len(path)
            flatten == CHOOSE f : Joins(f, path, n)
            Fine(i) == /\ flatten[i] \in Seq(W) /\ Len(flatten[i]) = i
                       /\ \A j \in 1..i : flatten[i][j] = path[j][1]
            T == {i \in 1..n : ~ Fine(i)}
<1>1. n \in Nat \ {0} /\ DOMAIN path = 1..n /\ \A i \in 1..n : path[i] \in Seq(W) /\ Len(path[i]) = 1
  OBVIOUS
<1>2. CFG!FlattenSeq(path) = flatten[n]
  BY <1>1 DEF CFG!FlattenSeq, Joins
<1>3. Joins(flatten, path, n)
  BY <1>1, JoinsExist
<1>. HIDE DEF flatten, n
<1>4. \A i \in 1..n : flatten[i] = IF i = 1 THEN path[i] ELSE flatten[i - 1] \o path[i]
  BY <1>3, <1>1 DEF Joins
<1>5. T = {}
  <2>1. SUFFICES ASSUME T # {} PROVE FALSE
    OBVIOUS
  <2>2. T \subseteq Nat
    BY <1>1
  <2>3. PICK i \in T : \A j \in T : i <= j
    BY <2>1, <2>2, LeastNumber
  <2>4. CASE i = 1
    <3>1. flatten[i] = path[1] /\ path[1] \in Seq(W) /\ Len(path[1]) = 1
      BY <1>1, <1>4, <2>3, <2>4
    <3>. QED  BY <2>3, <2>4, <3>1
  <2>5. CASE i # 1
    <3>1. i - 1 \in 1..n /\ Fine(i - 1)
      <4>1. i - 1 \in 1..n /\ ~(i <= i - 1)
        BY <2>3, <2>5, <1>1
      <4>2. i - 1 \notin T
        BY <4>1, <2>3
      <4>. HIDE DEF Fine
      <4>. QED  BY <4>1, <4>2
    <3>2. flatten[i] = flatten[i - 1] \o path[i] /\ path[i] \in Seq(W) /\ Len(path[i]) = 1
      BY <1>1, <1>4, <2>3, <2>5
    <3>3. /\ flatten[i] \in Seq(W) /\ Len(flatten[i]) = i
          /\ \A j \in 1..i - 1 : flatten[i][j] = path[j][1]
          /\ flatten[i][i] = path[i][1]
      <4>1. /\ flatten[i - 1] \in Seq(W) /\ Len(flatten[i - 1]) = i - 1
            /\ \A j \in 1..i - 1 : flatten[i - 1][j] = path[j][1]
        BY <3>1
      <4>2. /\ flatten[i] \in Seq(W) /\ Len(flatten[i]) = Len(flatten[i - 1]) + 1
            /\ \A j \in 1..Len(flatten[i - 1]) : flatten[i][j] = flatten[i - 1][j]
            /\ flatten[i][Len(flatten[i - 1]) + 1] = path[i][1]
        <5>1. flatten[i - 1] \in Seq(W) /\ path[i] \in Seq(W) /\ Len(path[i]) = 1
          BY <3>2, <4>1
        <5>. HIDE DEF T, Fine
        <5>2. /\ flatten[i - 1] \o path[i] \in Seq(W)
              /\ Len(flatten[i - 1] \o path[i]) = Len(flatten[i - 1]) + 1
              /\ \A j \in 1..Len(flatten[i - 1]) : (flatten[i - 1] \o path[i])[j] = flatten[i - 1][j]
              /\ (flatten[i - 1] \o path[i])[Len(flatten[i - 1]) + 1] = path[i][1]
          BY <5>1, OneMore, ZenonT(30)
        <5>. QED  BY <3>2, <5>2, Zenon
      <4>3. Len(flatten[i - 1]) + 1 = i
        BY <2>3, <1>1, <4>1
      <4>. QED  BY <4>1, <4>2, <4>3, Zenon
    <3>4. \A j \in 1..i : j \in 1..i - 1 \/ j = i
      BY <2>3
    <3>. QED  BY <2>3, <3>3, <3>4
  <2>. QED  BY <2>4, <2>5
<1>6. Fine(n)
  <2>. HIDE DEF Fine
  <2>. QED  BY <1>1, <1>5
<1>. DEFINE flat == flatten[n]
<1>7. flat \in Seq(W) /\ Len(flat) = n /\ \A i \in 1..n : flat[i] = path[i][1]
  BY <1>6
<1>. HIDE DEF flat
<1>8. ASSUME NEW i \in 1..n PROVE path[i] = <<path[i][1]>>
  <2>1. path[i] \in Seq(W) /\ Len(path[i]) = 1
    BY <1>1
  <2>2. Len(<<>>) = 0 /\ 0 # 1
    OBVIOUS
  <2>3. path[i] # <<>>
    BY <2>1, <2>2, Zenon
  <2>. QED  BY <2>1, <2>3, PathStarts
<1>9. CFG!EnvKey(flat) = path
  <2>1. CFG!EnvKey(flat) = [i \in 1..n |-> path[i]]
    BY <1>7, <1>8 DEF CFG!EnvKey
  <2>2. path = [i \in DOMAIN path |-> path[i]]
    <3>1. \A s \in Seq(Seq(W)) : s = [i \in DOMAIN s |-> s[i]]
      OBVIOUS
    <3>. QED  BY <3>1
  <2>. QED  BY <1>1, <2>1, <2>2
<1>10. ASSUME NEW name \in Seq(W), CFG!EnvKey(name) = path PROVE name = flat
  <2>1. DOMAIN path = 1..Len(name) /\ \A i \in 1..Len(name) : path[i] = <<name[i]>>
    BY <1>10 DEF CFG!EnvKey
  <2>2. Len(name) = n
    BY <1>1, <2>1
  <2>3. \A i \in 1..n : flat[i] = name[i]
    BY <1>7, <2>1, <2>2
  <2>. QED  BY <1>7, <2>2, <2>3, SeqEqual
<1>. QED  BY <1>2, <1>9, <1>10 DEF flat

\* The variable for a path.
NamesIn(path, variables) == {CFG!FlattenSeq(path)} \cap DOMAIN variables

\* It is the one that sets the path, unless the path's keys blur it.
LEMMA VariablesOfPaths ==
  ASSUME NEW W, NEW path \in Seq(Seq(W)), path # <<>>, NEW variables, DOMAIN variables \subseteq Seq(W),
         CFG!SingleWords(path) \/ NamesIn(path, variables) = {}
  PROVE  /\ NamesIn(path, variables) # {} <=> \E name \in DOMAIN variables : path = CFG!EnvKey(name)
         /\ \A name \in NamesIn(path, variables) : name = CFG!FlattenSeq(path) /\ name \in DOMAIN variables
<1>1. CASE CFG!SingleWords(path)
  <2>1. /\ CFG!EnvKey(CFG!FlattenSeq(path)) = path
        /\ \A name \in Seq(W) : CFG!EnvKey(name) = path => name = CFG!FlattenSeq(path)
    BY <1>1, NamesOfPaths DEF CFG!SingleWords
  <2>. QED  BY <1>1, <2>1 DEF NamesIn
<1>2. CASE ~ CFG!SingleWords(path)
  <2>1. ASSUME NEW name \in DOMAIN variables, CFG!EnvKey(name) = path PROVE FALSE
    <3>1. \A i \in DOMAIN path : path[i] = <<name[i]>>
      BY <2>1 DEF CFG!EnvKey
    <3>2. \A i \in DOMAIN path : Len(path[i]) = 1
      BY <3>1
    <3>. QED  BY <1>2, <3>2 DEF CFG!SingleWords
  <2>. QED  BY <1>2, <2>1, Zenon
<1>. QED  BY <1>1, <1>2

\* A value that was read from a literal, by either reader.
ReadAs(value, literal) ==
  /\ literal.quoted \in BOOLEAN
  /\ \/ value = CFG!ParseYAMLValue(literal.text, literal.quoted)
     \/ /\ value = CFG!ParseJSONValue(literal.text, literal.quoted)
        /\ ~literal.quoted /\ literal.text \in DOMAIN CFG!Truth => literal.text \in {"true", "false"}

\* The getters make the same of it.
LEMMA ReadsBack ==
  ASSUME NEW path \in DOMAIN data, NEW literal, ReadAs(data[path], literal)
  PROVE  CFG!Reads(path, literal)
<1>. DEFINE text == literal.text
            v == data[path]
<1>1. CFG!Get(path) = v /\ literal.quoted \in BOOLEAN
  BY DEF CFG!Get, ReadAs
<1>2. /\ DOMAIN CFG!Truth = {"true", "yes", "on", "false", "no", "off"}
      /\ \A t \in DOMAIN CFG!Truth : CFG!Truth[t] = (t \in {"true", "yes", "on"})
      /\ DOMAIN CFG!Whole = {"8080", "9090", "7070"} /\ DOMAIN CFG!Fraction = {"0.9", "0.8", "0.7"}
  BY DEF CFG!Truth, CFG!Whole, CFG!Fraction
<1>3. \A t \in DOMAIN CFG!Whole : CFG!Over(CFG!Fraction, CFG!Whole)[t] = CFG!Whole[t]
  BY OverIs, Zenon
<1>4. /\ literal.quoted => v.type = "string" /\ v.text = text
      /\ text \in DOMAIN CFG!Truth /\ ~literal.quoted =>
           v.type = "bool" /\ v.text = (IF CFG!Truth[text] THEN "true" ELSE "false")
      /\ text \notin DOMAIN CFG!Truth => v.text = text /\ v.type \in {"string", "int", "float64"}
      /\ text \in DOMAIN CFG!Whole => v.type \in {"string", "int", "float64"}
      /\ text \in DOMAIN CFG!Fraction => v.type \in {"string", "int", "float64"}
  <2>1. CASE v = CFG!ParseYAMLValue(text, literal.quoted)
    BY <1>2, <2>1 DEF CFG!ParseYAMLValue, CFG!Value
  <2>2. CASE /\ v = CFG!ParseJSONValue(text, literal.quoted)
             /\ ~literal.quoted /\ text \in DOMAIN CFG!Truth => text \in {"true", "false"}
    <3>1. CASE text \in DOMAIN CFG!Truth /\ ~literal.quoted
      <4>1. v = CFG!Value("bool", text) /\ (text = "true" \/ text = "false")
        <5>1. text \in {"true", "false"} /\ text \notin DOMAIN CFG!Whole \cup DOMAIN CFG!Fraction
          BY <1>2, <2>2, <3>1
        <5>. QED  BY <2>2, <3>1, <5>1 DEF CFG!ParseJSONValue
      <4>2. CFG!Truth["true"] /\ ~ CFG!Truth["false"]
        BY DEF CFG!Truth
      <4>. QED  BY <1>2, <3>1, <4>1, <4>2 DEF CFG!Value
    <3>2. CASE ~(text \in DOMAIN CFG!Truth /\ ~literal.quoted)
      <4>. DEFINE isWord == ~literal.quoted /\ text \in {"true", "false"}
      <4>1. ~ isWord
        BY <1>2, <3>2
      <4>2. v = (IF ~literal.quoted /\ text \in DOMAIN CFG!Whole \cup DOMAIN CFG!Fraction
                 THEN CFG!Value("float64", text) ELSE CFG!Value("string", text))
        BY <2>2, <4>1 DEF CFG!ParseJSONValue
      <4>. QED  BY <3>2, <4>2 DEF CFG!Value
    <3>. QED  BY <3>1, <3>2
  <2>. QED  BY <2>1, <2>2 DEF ReadAs
<1>. HIDE DEF text, v
<1>5. \A t : ~ (t \in DOMAIN CFG!Truth /\ (t \in DOMAIN CFG!Whole \/ t \in DOMAIN CFG!Fraction))
  BY <1>2
<1>6. text \in DOMAIN CFG!Truth => literal.quoted \/ CFG!GetBool(path) = CFG!Truth[text]
  <2>1. SUFFICES ASSUME text \in DOMAIN CFG!Truth, ~literal.quoted PROVE CFG!GetBool(path) = CFG!Truth[text]
    OBVIOUS
  <2>2. v.type = "bool" /\ v.text = (IF CFG!Truth[text] THEN "true" ELSE "false")
    BY <1>4, <2>1
  <2>3. CFG!Truth[text] = (text \in {"true", "yes", "on"})
    BY <1>2, <2>1, Zenon
  <2>4. v.text = (IF text \in {"true", "yes", "on"} THEN "true" ELSE "false")
    BY <2>2, <2>3, Zenon
  <2>5. CFG!GetBool(path) = (text \in {"true", "yes", "on"})
    BY <1>1, <2>2, <2>4 DEF CFG!GetBool
  <2>. QED  BY <2>3, <2>5, Zenon
<1>7. text \in DOMAIN CFG!Whole => CFG!GetInt(path) = CFG!Whole[text]
  BY <1>1, <1>3, <1>4, <1>5 DEF CFG!GetInt
<1>8. text \in DOMAIN CFG!Whole \cup DOMAIN CFG!Fraction => CFG!GetFloat(path) = text
  BY <1>1, <1>4, <1>5 DEF CFG!GetFloat
<1>9. text \notin DOMAIN CFG!Truth => CFG!GetString(path) = text
  BY <1>1, <1>4 DEF CFG!GetString
<1>. QED  BY <1>6, <1>7, <1>8, <1>9, Zenon DEF CFG!Reads, text

-----------------------------------------------------------------------------
(* Loading *)

\* The first n entries are laid over the defaults.
Laid(doc, value, n) ==
  /\ \A i \in 1..n : doc[i].path \in DOMAIN data /\ data[doc[i].path] = value[i]
  /\ \A path \in DOMAIN CFG!Defaults :
       (\A i \in 1..n : doc[i].path # path) =>
         path \in DOMAIN data /\ data[path] = CFG!ParseYAMLValue(CFG!Defaults[path], FALSE)

\* The file is one that New may be given.
FileKnown ==
  \/ file \in {CFG!NoFile, CFG!Unreadable}
  \/ /\ file.format \in {"yaml", "json"} /\ file.entries \in Files
     /\ file.format = "json" => CFG!InJSON(file.entries)

\* What the parser has of the lines before the next one.
Parsing ==
  LET doc == file.entries
      value == Values(doc, file.format)
  IN /\ lineNo \in 1..Len(doc) + 1
     /\ Laid(doc, value, lineNo - 1)
     /\ InTree(doc, value, lineNo - 1, maps)
     /\ Opened(doc, lineNo - 1, stack)

\* An entry is read from the literal that the precedence picks, unless it is blurred.
BlurredBy(path, variables, set) ==
  path \notin DOMAIN set /\ NamesIn(path, variables) # {} /\ ~CFG!SingleWords(path)

Kept(path) ==
  ~CFG!Blurred(path) /\ CFG!Expected(path).text # "" => path \in DOMAIN data /\ ReadAs(data[path], CFG!Expected(path))

ConfigInv ==
  /\ FileKnown
  /\ phase # "loaded" => assigned = CFG!Empty
  /\ phase \in {"new", "loadDefaults", "loadFile", "loadEnv", "failed", "loaded"}
  /\ phase = "loadFile" =>
       /\ file # CFG!NoFile
       /\ file.format = "json" => Laid(file.entries, Values(file.entries, "json"), 0)
       /\ file.format = "yaml" => Parsing
  /\ phase = "loadEnv" =>
       Laid(file.entries, Values(file.entries, file.format), Len(file.entries)) /\ file # CFG!Unreadable
  /\ phase = "loaded" => \A path \in CFG!Paths : Kept(path)

\* Tuples are sequences.
LEMMA Tuples ==
  ASSUME NEW S
  PROVE  /\ \A one \in S : <<one>> \in Seq(S) /\ <<one>> # <<>>
         /\ \A one, two \in S : <<one, two>> \in Seq(S) /\ <<one, two>> # <<>>
         /\ \A one, two, three \in S : <<one, two, three>> \in Seq(S) /\ <<one, two, three>> # <<>>
OBVIOUS

\* A sequence may have its elements from a larger set.
LEMMA LargerSets == ASSUME NEW S, NEW T, S \subseteq T PROVE Seq(S) \subseteq Seq(T)
OBVIOUS

\* The words of documents, of variables and of the defaults.
Words == STRING \cup {"server", "name", "http", "port", "shedding", "cpu", "threshold", "metrics", "enabled"}

\* Paths are sequences of keys, and have one.
LEMMA PathsAreKeys == \A path \in CFG!Paths : path \in Seq(Seq(Words)) /\ path # <<>>
<1>1. \A path \in DOMAIN CFG!Defaults : path \in Seq(Seq(Words)) /\ path # <<>>
  <2>. DEFINE Word == Seq(Words)
              name == <<<<"server">>, <<"name">>>>
              port == <<<<"server">>, <<"http">>, <<"port">>>>
              threshold == <<<<"shedding">>, <<"cpu", "threshold">>>>
              enabled == <<<<"metrics">>, <<"enabled">>>>
  <2>1. DOMAIN CFG!Defaults = {name, port, threshold, enabled}
    BY DEF CFG!Defaults
  <2>2. \A word \in {"server", "name", "http", "port", "shedding", "cpu", "threshold", "metrics", "enabled"} : word \in Words
    BY DEF Words
  <2>3. /\ \A one \in Words : <<one>> \in Word
        /\ \A one, two \in Words : <<one, two>> \in Word
    BY Tuples
  <2>. HIDE DEF Word
  <2>4. /\ <<"server">> \in Word /\ <<"name">> \in Word /\ <<"http">> \in Word /\ <<"port">> \in Word
        /\ <<"shedding">> \in Word /\ <<"metrics">> \in Word /\ <<"enabled">> \in Word
        /\ <<"cpu", "threshold">> \in Word
    BY <2>2, <2>3
  <2>5. /\ \A one, two \in Word : <<one, two>> \in Seq(Word) /\ <<one, two>> # <<>>
        /\ \A one, two, three \in Word : <<one, two, three>> \in Seq(Word) /\ <<one, two, three>> # <<>>
    BY Tuples
  <2>6. /\ name \in Seq(Word) /\ name # <<>>
        /\ port \in Seq(Word) /\ port # <<>>
        /\ threshold \in Seq(Word) /\ threshold # <<>>
        /\ enabled \in Seq(Word) /\ enabled # <<>>
    BY <2>4, <2>5, Zenon
  <2>. HIDE DEF name, port, threshold, enabled
  <2>. QED  BY <2>1, <2>6 DEF Word
<1>2. Seq(Keys) \subseteq Seq(Seq(Words))
  <2>1. Keys \subseteq Seq(Words)
    <3>1. STRING \subseteq Words
      BY DEF Words
    <3>. QED  BY <3>1, LargerSets DEF Keys
  <2>. QED  BY <2>1, LargerSets
<1>3. ASSUME NEW document \in Files, NEW e \in CFG!ToSet(document)
      PROVE  e.path \in Seq(Keys) /\ e.path # <<>>
  <2>1. PICK i \in DOMAIN document : e = document[i]
    BY DEF CFG!ToSet
  <2>2. CFG!WellFormed(document)
    BY FilesAssumption
  <2>. QED  BY <2>1, <2>2, Parents
<1>4. ASSUME NEW path \in CFG!Paths PROVE path \in Seq(Seq(Words)) /\ path # <<>>
  <2>1. CASE path \in DOMAIN CFG!Defaults
    BY <1>1, <2>1
  <2>2. CASE path \notin DOMAIN CFG!Defaults
    <3>1. PICK e \in UNION {CFG!ToSet(f) : f \in Files} : path = e.path
      BY <2>2 DEF CFG!Paths
    <3>2. PICK document \in Files : e \in CFG!ToSet(document)
      BY <3>1
    <3>. QED  BY <1>2, <1>3, <3>1, <3>2
  <2>. QED  BY <2>1, <2>2
<1>. QED  BY <1>4

\* The variables' names are of such words.
LEMMA NamesAreWords == \A variables \in Environments : DOMAIN variables \subseteq Seq(Words)
<1>1. STRING \subseteq Words
  BY DEF Words
<1>2. Seq(STRING) \subseteq Seq(Words)
  BY <1>1, LargerSets
<1>. QED  BY <1>2, EnvironmentsAssumption

\* Loading starts with nothing.
LEMMA ConfigStarts == CFG!Init => ConfigInv
BY DEF CFG!Init, ConfigInv, FileKnown

\* The documents that are parsed are well-formed.
LEMMA KnownFiles ==
  ASSUME FileKnown
  PROVE  /\ DOMAIN file.entries = 1..Len(file.entries) /\ Len(file.entries) \in Nat
         /\ file.format \in {"yaml", "json"} => CFG!WellFormed(file.entries)
         /\ file = CFG!NoFile \/ file = CFG!Unreadable => file.format \notin {"yaml", "json"} /\ file.entries = <<>>
<1>1. CASE file \in {CFG!NoFile, CFG!Unreadable}
  BY <1>1 DEF CFG!NoFile, CFG!Unreadable
<1>2. CASE file \notin {CFG!NoFile, CFG!Unreadable}
  <2>1. file.entries \in Files
    BY <1>2 DEF FileKnown
  <2>2. CFG!WellFormed(file.entries)
    BY <2>1, FilesAssumption
  <2>. QED  BY <1>2, <2>2, Parents
<1>. QED  BY <1>1, <1>2

\* The defaults, with nothing over them.
LEMMA LoadDefaultsKeeps == ASSUME ConfigInv, CFG!LoadDefaults PROVE ConfigInv'
<1>. DEFINE doc == file.entries
            value == Values(doc, file.format)
<1>1. /\ FileKnown /\ phase = "loadDefaults" /\ assigned = CFG!Empty
      /\ data' = [path \in DOMAIN CFG!Defaults |-> CFG!ParseYAMLValue(CFG!Defaults[path], FALSE)]
      /\ maps' = [m \in {0} |-> CFG!Empty]
      /\ stack' = <<Root>>
      /\ lineNo' = 1
      /\ phase' = IF file = CFG!NoFile THEN "loadEnv" ELSE "loadFile"
      /\ file' = file /\ assigned' = assigned
  BY DEF ConfigInv, CFG!LoadDefaults, Root
<1>2. FileKnown'
  BY <1>1 DEF FileKnown
<1>3. /\ \A path \in DOMAIN CFG!Defaults : path \in DOMAIN data' /\ data'[path] = CFG!ParseYAMLValue(CFG!Defaults[path], FALSE)
  BY <1>1, Zenon
<1>4. \A d, v : Laid(d, v, 0)'
  <2>1. \A i : i \notin 1..0
    OBVIOUS
  <2>. QED  BY <1>3, <2>1, Zenon DEF Laid
<1>5. DOMAIN doc = 1..Len(doc) /\ Len(doc) \in Nat /\ (file = CFG!NoFile => Len(doc) = 0 /\ file # CFG!Unreadable)
  <2>1. DOMAIN doc = 1..Len(doc) /\ Len(doc) \in Nat
    BY <1>1, KnownFiles
  <2>2. file = CFG!NoFile => doc = <<>> /\ file # CFG!Unreadable
    BY DEF CFG!NoFile, CFG!Unreadable
  <2>3. Len(<<>>) = 0
    OBVIOUS
  <2>. QED  BY <2>1, <2>2, <2>3, Zenon
<1>6. InTree(doc, value, 0, maps')
  <2>1. DOMAIN maps' = {0} /\ maps'[0] = CFG!Empty
    BY <1>1
  <2>2. DOMAIN CFG!Empty = {}
    BY DEF CFG!Empty
  <2>3. \A i : i \notin 1..0
    OBVIOUS
  <2>. HIDE DEF doc, value
  <2>4. DOMAIN maps' = {0} \cup {i \in 1..0 : CFG!Nested(doc[i])}
    BY <2>1, <2>3
  <2>. QED  BY <2>1, <2>2, <2>3, <2>4, Zenon DEF InTree
<1>7. Opened(doc, 0, stack')
  <2>1. Root \in Levels
    BY DEF Root, Levels
  <2>2. stack' \in Seq(Levels) /\ Len(stack') = 1 /\ stack'[1] = Root
    <3>. HIDE DEF doc, value
    <3>. QED  BY <1>1, <2>1
  <2>. HIDE DEF doc, value
  <2>. QED  BY <2>2 DEF Opened
<1>8. (phase = "loadFile")' =>
        /\ (file # CFG!NoFile)'
        /\ (file.format = "json")' => Laid(file.entries, Values(file.entries, "json"), 0)'
        /\ (file.format = "yaml")' => Parsing'
  <2>1. lineNo' - 1 = 0 /\ lineNo' \in 1..Len(doc) + 1
    BY <1>1, <1>5
  <2>2. Parsing'
    <3>1. Laid(doc, value, lineNo - 1)'
      BY <1>4, <2>1, <1>1
    <3>. HIDE DEF doc, value
    <3>2. InTree(doc, value, lineNo' - 1, maps') /\ Opened(doc, lineNo' - 1, stack')
      BY <1>6, <1>7, <2>1
    <3>. QED  BY <1>1, <2>1, <3>1, <3>2 DEF Parsing, doc, value
  <2>. QED  BY <1>1, <1>4, <2>2
<1>9. (phase = "loadEnv")' =>
        /\ Laid(file.entries, Values(file.entries, file.format), Len(file.entries))'
        /\ (file # CFG!Unreadable)'
  <2>1. SUFFICES ASSUME file = CFG!NoFile
                 PROVE  Laid(doc, value, Len(doc))' /\ file' # CFG!Unreadable
    BY <1>1
  <2>2. file' = file /\ Len(doc') = 0
    BY <1>1, <1>5, <2>1
  <2>. QED  BY <1>4, <1>5, <2>1, <2>2
<1>. QED  BY <1>1, <1>2, <1>8, <1>9 DEF ConfigInv

\* A line lays its entry.
LEMMA LineLays ==
  ASSUME NEW doc, CFG!WellFormed(doc), NEW value, NEW i \in DOMAIN doc, Laid(doc, value, i - 1),
         DOMAIN data' = DOMAIN data \cup {doc[i].path}, data'[doc[i].path] = value[i],
         \A path \in DOMAIN data : path # doc[i].path => data'[path] = data[path]
  PROVE  /\ \A j \in 1..i : doc[j].path \in DOMAIN data' /\ data'[doc[j].path] = value[j]
         /\ \A path \in DOMAIN CFG!Defaults :
              (\A j \in 1..i : doc[j].path # path) =>
                path \in DOMAIN data' /\ data'[path] = CFG!ParseYAMLValue(CFG!Defaults[path], FALSE)
<1>. DEFINE here == doc[i].path
<1>1. /\ DOMAIN doc = 1..Len(doc) /\ Len(doc) \in Nat /\ i \in Nat \ {0}
      /\ \A j, k \in DOMAIN doc : doc[j].path = doc[k].path => j = k
  BY Parents
<1>. HIDE DEF here
<1>2. /\ DOMAIN data' = DOMAIN data \cup {here} /\ data'[here] = value[i]
      /\ \A path \in DOMAIN data : path # here => data'[path] = data[path]
  BY DEF here
<1>3. /\ \A j \in 1..i : j \in 1..i - 1 \/ j = i
      /\ \A j \in 1..i - 1 : j \in DOMAIN doc /\ j # i
      /\ \A j \in 1..i - 1 : j \in 1..i
      /\ i \in 1..i
  BY <1>1
<1>4. ASSUME NEW j \in 1..i PROVE doc[j].path \in DOMAIN data' /\ data'[doc[j].path] = value[j]
  <2>1. CASE j = i
    BY <1>2, <2>1 DEF here
  <2>2. CASE j # i
    <3>1. j \in 1..i - 1 /\ j \in DOMAIN doc
      BY <1>3, <2>2
    <3>2. doc[j].path # here
      BY <1>1, <2>2, <3>1 DEF here
    <3>3. doc[j].path \in DOMAIN data /\ data[doc[j].path] = value[j]
      BY <3>1 DEF Laid
    <3>. QED  BY <1>2, <3>2, <3>3, Zenon
  <2>. QED  BY <2>1, <2>2
<1>5. ASSUME NEW path \in DOMAIN CFG!Defaults, \A j \in 1..i : doc[j].path # path
      PROVE  path \in DOMAIN data' /\ data'[path] = CFG!ParseYAMLValue(CFG!Defaults[path], FALSE)
  <2>1. path # here
    BY <1>3, <1>5 DEF here
  <2>2. path \in DOMAIN data /\ data[path] = CFG!ParseYAMLValue(CFG!Defaults[path], FALSE)
    BY <1>3, <1>5, Zenon DEF Laid
  <2>. QED  BY <1>2, <2>1, <2>2, Zenon
<1>. QED  BY <1>4, <1>5

\* The line that the scanner is at.
LEMMA ParseLineKeeps == ASSUME ConfigInv, CFG!ParseLine PROVE ConfigInv'
<1>. DEFINE doc == file.entries
            value == Values(doc, "yaml")
            i == lineNo
            level == CFG!Level(doc[i].indent)
            m == stack[level].parent
            filled == CFG!Put(m, CFG!Last(doc[i].path), value[i])
            below == [prefix |-> doc[i].path, indent |-> doc[i].indent, parent |-> i]
<1>1. /\ FileKnown /\ phase = "loadFile" /\ file.format = "yaml" /\ i <= Len(doc) /\ file # CFG!NoFile
      /\ assigned = CFG!Empty
      /\ i \in 1..Len(doc) + 1
      /\ Laid(doc, value, i - 1) /\ InTree(doc, value, i - 1, maps) /\ Opened(doc, i - 1, stack)
      /\ file' = file /\ phase' = phase /\ assigned' = assigned /\ lineNo' = lineNo + 1
  BY DEF ConfigInv, Parsing, CFG!ParseLine
<1>2. CFG!WellFormed(doc) /\ DOMAIN doc = 1..Len(doc) /\ Len(doc) \in Nat
  BY <1>1, KnownFiles
<1>3. i \in DOMAIN doc /\ i \in Nat \ {0}
  BY <1>1, <1>2
<1>4. /\ level \in 1..Len(stack) /\ stack[level].prefix = CFG!Front(doc[i].path)
      /\ m \in 0..i - 1 /\ (m # 0 => CFG!Nested(doc[m])) /\ PathOf(doc, m) = CFG!Front(doc[i].path)
      /\ \A k \in level + 1..Len(stack) : stack[k].indent >= doc[i].indent
  <2>. HIDE DEF doc, i
  <2>. QED  BY <1>1, <1>2, <1>3, LevelIsParent
<1>5. Append(stack[level].prefix, CFG!Last(doc[i].path)) = doc[i].path
  <2>1. doc[i].path \in Seq(Keys) /\ doc[i].path # <<>>
    BY <1>2, <1>3, Parents
  <2>2. /\ CFG!Front(doc[i].path) \in Seq(Keys) /\ CFG!Last(doc[i].path) \in Keys
        /\ doc[i].path = CFG!Front(doc[i].path) \o <<CFG!Last(doc[i].path)>>
    BY <2>1, PathSplits
  <2>3. \A front \in Seq(Keys), key \in Keys : Append(front, key) = front \o <<key>>
    OBVIOUS
  <2>. QED  BY <1>4, <2>2, <2>3, Zenon
<1>6. value[i] = IF CFG!Nested(doc[i]) THEN CFG!MapOf(i) ELSE CFG!ParseYAMLValue(doc[i].text, doc[i].quoted)
  <2>. HIDE DEF doc, i
  <2>. QED  BY <1>3 DEF Values
<1>7. /\ data' = CFG!Over(data, [p \in {doc[i].path} |-> value[i]])
      /\ CFG!Nested(doc[i]) => /\ maps' = CFG!Over(filled, [x \in {i} |-> CFG!Empty])
                               /\ stack' = Append(SubSeq(stack, 1, level), below)
      /\ ~ CFG!Nested(doc[i]) => maps' = filled /\ stack' = SubSeq(stack, 1, level)
  BY <1>5, <1>6, Zenon DEF CFG!ParseLine
<1>. HIDE DEF doc, value, i, level, m, filled, below
<1>8. /\ \A j \in 1..i : doc[j].path \in DOMAIN data' /\ data'[doc[j].path] = value[j]
      /\ \A path \in DOMAIN CFG!Defaults :
           (\A j \in 1..i : doc[j].path # path) =>
             path \in DOMAIN data' /\ data'[path] = CFG!ParseYAMLValue(CFG!Defaults[path], FALSE)
  <2>. DEFINE here == doc[i].path
              v == value[i]
  <2>1. data' = CFG!Over(data, [p \in {here} |-> v])
    BY <1>7
  <2>. HIDE DEF here, v
  <2>2. /\ DOMAIN data' = DOMAIN data \cup {here} /\ data'[here] = v
        /\ \A path \in DOMAIN data : path # here => data'[path] = data[path]
    BY <2>1 DEF CFG!Over
  <2>3. /\ DOMAIN data' = DOMAIN data \cup {doc[i].path} /\ data'[doc[i].path] = value[i]
        /\ \A path \in DOMAIN data : path # doc[i].path => data'[path] = data[path]
    BY <2>2 DEF here, v
  <2>4. CFG!WellFormed(doc) /\ i \in DOMAIN doc /\ Laid(doc, value, i - 1)
    BY <1>1, <1>2, <1>3
  <2>. QED  BY <2>3, <2>4, LineLays, ZenonT(30)
<1>9. InTree(doc, value, i, maps')
  <2>1. /\ ~ CFG!Nested(doc[i]) => InTree(doc, value, i, filled)
        /\ CFG!Nested(doc[i]) => InTree(doc, value, i, CFG!Over(filled, [x \in {i} |-> CFG!Empty]))
    BY <1>1, <1>2, <1>3, <1>4, TreeGrows DEF filled
  <2>. QED  BY <1>7, <2>1
<1>10. Opened(doc, i, stack')
  <2>1. /\ ~ CFG!Nested(doc[i]) => Opened(doc, i, SubSeq(stack, 1, level))
        /\ CFG!Nested(doc[i]) => Opened(doc, i, Append(SubSeq(stack, 1, level), below))
    BY <1>1, <1>2, <1>3, <1>4, LineCloses DEF below
  <2>. QED  BY <1>7, <2>1
<1>11. Parsing'
  <2>1. /\ lineNo' = i + 1 /\ lineNo' - 1 = i /\ lineNo' \in 1..Len(doc) + 1
    BY <1>1, <1>2, <1>3 DEF i
  <2>2. file'.entries = doc /\ file'.format = "yaml"
    BY <1>1 DEF doc
  <2>3. file' = file /\ doc' = doc /\ value' = value
    BY <1>1 DEF doc, value
  <2>4. Laid(doc, value, lineNo - 1)'
    BY <1>8, <2>1, <2>3, Zenon DEF Laid
  <2>5. InTree(doc, value, lineNo' - 1, maps') /\ Opened(doc, lineNo' - 1, stack')
    BY <1>9, <1>10, <2>1
  <2>. QED  BY <2>1, <2>2, <2>3, <2>4, <2>5, Zenon DEF Parsing, value
<1>12. FileKnown'
  BY <1>1 DEF FileKnown
<1>13. /\ phase' = "loadFile" /\ file'.format = "yaml" /\ file' # CFG!NoFile /\ assigned' = CFG!Empty
       /\ "loadFile" # "loadEnv" /\ "loadFile" # "loaded" /\ "yaml" # "json"
       /\ "loadFile" \in {"new", "loadDefaults", "loadFile", "loadEnv", "failed", "loaded"}
  BY <1>1
<1>. QED  BY <1>11, <1>12, <1>13, ZenonT(30) DEF ConfigInv

\* The entries of a document, all of them over what was there.
LEMMA AllLaid ==
  ASSUME NEW doc, CFG!WellFormed(doc), NEW value, Valued(doc, value), NEW all, InTree(doc, value, Len(doc), all),
         NEW n \in 0..Len(doc), Laid(doc, value, n), data' = CFG!Over(data, CFG!FlattenMap(all, 0))
  PROVE  /\ \A i \in 1..Len(doc) : doc[i].path \in DOMAIN data' /\ data'[doc[i].path] = value[i]
         /\ \A path \in DOMAIN CFG!Defaults :
              (\A i \in 1..Len(doc) : doc[i].path # path) =>
                path \in DOMAIN data' /\ data'[path] = CFG!ParseYAMLValue(CFG!Defaults[path], FALSE)
<1>. DEFINE flat == CFG!FlattenMap(all, 0)
<1>1. DOMAIN doc = 1..Len(doc) /\ Len(doc) \in Nat
  BY Parents
<1>2. /\ \A i \in DOMAIN doc : doc[i].path \in DOMAIN flat /\ flat[doc[i].path] = value[i]
      /\ \A path \in DOMAIN flat : \E i \in DOMAIN doc : path = doc[i].path
  BY FlattenTree
<1>. HIDE DEF flat
<1>3. /\ DOMAIN data' = DOMAIN data \cup DOMAIN flat
      /\ \A path \in DOMAIN flat : data'[path] = flat[path]
      /\ \A path \in DOMAIN data : path \notin DOMAIN flat => data'[path] = data[path]
  <2>1. data' = CFG!Over(data, flat)
    BY DEF flat
  <2>. QED  BY <2>1 DEF CFG!Over
<1>4. \A i \in 1..Len(doc) : doc[i].path \in DOMAIN data' /\ data'[doc[i].path] = value[i]
  BY <1>1, <1>2, <1>3
<1>5. ASSUME NEW path \in DOMAIN CFG!Defaults, \A i \in 1..Len(doc) : doc[i].path # path
      PROVE  path \in DOMAIN data' /\ data'[path] = CFG!ParseYAMLValue(CFG!Defaults[path], FALSE)
  <2>1. path \notin DOMAIN flat
    BY <1>1, <1>2, <1>5
  <2>2. \A i \in 1..n : i \in 1..Len(doc)
    BY <1>1
  <2>3. path \in DOMAIN data /\ data[path] = CFG!ParseYAMLValue(CFG!Defaults[path], FALSE)
    BY <1>5, <2>2, Zenon DEF Laid
  <2>. QED  BY <1>3, <2>1, <2>3
<1>. QED  BY <1>4, <1>5

\* The end of a file.
LEMMA FileKeeps ==
  ASSUME ConfigInv, phase = "loadFile", file.format \in {"yaml", "json"}, phase' = "loadEnv",
         UNCHANGED <<file, assigned>>,
         NEW all, data' = CFG!Over(data, CFG!FlattenMap(all, 0)), NEW n \in 0..Len(file.entries),
         Laid(file.entries, Values(file.entries, file.format), n),
         InTree(file.entries, Values(file.entries, file.format), Len(file.entries), all)
  PROVE  ConfigInv'
<1>. DEFINE doc == file.entries
            value == Values(doc, file.format)
<1>1. FileKnown /\ file # CFG!Unreadable /\ assigned = CFG!Empty /\ file' = file /\ assigned' = assigned
  BY DEF ConfigInv, CFG!Unreadable
<1>2. CFG!WellFormed(doc) /\ Valued(doc, value)
  BY <1>1, KnownFiles, ValuesAreValued
<1>3. doc' = doc /\ value' = value
  BY <1>1
<1>4. Laid(doc, value, Len(doc))'
  <2>1. Laid(doc, value, n) /\ InTree(doc, value, Len(doc), all) /\ n \in 0..Len(doc)
    OBVIOUS
  <2>. HIDE DEF doc, value
  <2>2. /\ \A i \in 1..Len(doc) : doc[i].path \in DOMAIN data' /\ data'[doc[i].path] = value[i]
        /\ \A path \in DOMAIN CFG!Defaults :
              (\A i \in 1..Len(doc) : doc[i].path # path) =>
                path \in DOMAIN data' /\ data'[path] = CFG!ParseYAMLValue(CFG!Defaults[path], FALSE)
    BY <1>2, <2>1, AllLaid
  <2>. QED  BY <1>3, <2>2, Zenon DEF Laid
<1>5. FileKnown'
  BY <1>1 DEF FileKnown
<1>. QED  BY <1>1, <1>4, <1>5 DEF ConfigInv

\* The end of parseYAML.
LEMMA ParseYAMLKeeps == ASSUME ConfigInv, CFG!ParseYAML PROVE ConfigInv'
<1>1. /\ FileKnown /\ phase = "loadFile" /\ file.format = "yaml" /\ Parsing /\ lineNo > Len(file.entries)
      /\ data' = CFG!Over(data, CFG!FlattenMap(maps, 0)) /\ phase' = "loadEnv" /\ UNCHANGED <<file, assigned>>
  BY DEF ConfigInv, CFG!ParseYAML
<1>2. Len(file.entries) \in Nat
  BY <1>1, KnownFiles
<1>3. lineNo - 1 = Len(file.entries) /\ Len(file.entries) \in 0..Len(file.entries)
  BY <1>1, <1>2 DEF Parsing
<1>4. /\ Laid(file.entries, Values(file.entries, file.format), Len(file.entries))
      /\ InTree(file.entries, Values(file.entries, file.format), Len(file.entries), maps)
  BY <1>1, <1>3 DEF Parsing
<1>. QED  BY <1>1, <1>3, <1>4, FileKeeps

\* What encoding/json makes of a document is its tree.
LEMMA UnmarshalsTree ==
  ASSUME NEW doc, CFG!WellFormed(doc)
  PROVE  InTree(doc, Values(doc, "json"), Len(doc), CFG!Unmarshal(doc))
<1>. DEFINE all == CFG!Unmarshal(doc)
            Inside(m) == {i \in DOMAIN doc : CFG!Front(doc[i].path) = PathOf(doc, m)}
            At(m, key) == CHOOSE i \in Inside(m) : CFG!Last(doc[i].path) = key
            Read(i) == IF CFG!Nested(doc[i]) THEN CFG!MapOf(i) ELSE CFG!ParseJSONValue(doc[i].text, doc[i].quoted)
            Held(m) == [key \in {CFG!Last(doc[i].path) : i \in Inside(m)} |-> Read(At(m, key))]
<1>1. /\ DOMAIN doc = 1..Len(doc)
      /\ \A i \in DOMAIN doc : doc[i].path \in Seq(Keys) /\ doc[i].path # <<>>
      /\ \A i, j \in DOMAIN doc : doc[i].path = doc[j].path => i = j
  BY Parents
<1>2. all = [m \in {0} \cup {i \in DOMAIN doc : CFG!Nested(doc[i])} |-> Held(m)]
  BY DEF CFG!Unmarshal, PathOf
<1>3. \A i \in DOMAIN doc : Values(doc, "json")[i] = Read(i)
  BY DEF Values
<1>4. ASSUME NEW m \in DOMAIN all, NEW i \in DOMAIN doc, CFG!Front(doc[i].path) = PathOf(doc, m)
      PROVE  At(m, CFG!Last(doc[i].path)) = i
  <2>. DEFINE j == At(m, CFG!Last(doc[i].path))
  <2>1. i \in Inside(m)
    BY <1>4
  <2>2. j \in Inside(m) /\ CFG!Last(doc[j].path) = CFG!Last(doc[i].path)
    <3>. HIDE DEF Inside
    <3>. QED  BY <2>1, Zenon
  <2>. HIDE DEF j, all
  <2>3. j \in DOMAIN doc /\ CFG!Front(doc[j].path) = CFG!Front(doc[i].path)
    BY <1>4, <2>2
  <2>4. doc[j].path = doc[i].path
    <3>1. \A k \in DOMAIN doc : doc[k].path = CFG!Front(doc[k].path) \o <<CFG!Last(doc[k].path)>>
      BY <1>1, PathSplits, Zenon
    <3>. QED  BY <2>2, <2>3, <3>1, Zenon
  <2>. QED  BY <1>1, <2>3, <2>4, Zenon DEF j
<1>5. /\ DOMAIN all = {0} \cup {i \in DOMAIN doc : CFG!Nested(doc[i])}
      /\ \A m \in DOMAIN all : all[m] = Held(m)
  <2>. HIDE DEF all, Held
  <2>. QED  BY <1>2
<1>6. ASSUME NEW m \in DOMAIN all
      PROVE  /\ \A key : key \in DOMAIN all[m] <=>
                  \E i \in DOMAIN doc : CFG!Front(doc[i].path) = PathOf(doc, m) /\ CFG!Last(doc[i].path) = key
             /\ \A i \in DOMAIN doc :
                  CFG!Front(doc[i].path) = PathOf(doc, m) => all[m][CFG!Last(doc[i].path)] = Values(doc, "json")[i]
  <2>1. /\ DOMAIN all[m] = {CFG!Last(doc[i].path) : i \in Inside(m)}
        /\ \A key \in DOMAIN all[m] : all[m][key] = Read(At(m, key))
    <3>1. all[m] = Held(m)
      BY <1>5
    <3>. HIDE DEF all, Inside, Read, At
    <3>. QED  BY <3>1
  <2>. HIDE DEF all, Read, At
  <2>. QED  BY <1>3, <1>4, <2>1, Zenon
<1>. HIDE DEF all, Inside, At, Read, Held
<1>7. InTree(doc, Values(doc, "json"), Len(doc), all)
  <2>1. DOMAIN all = {0} \cup {i \in 1..Len(doc) : CFG!Nested(doc[i])}
    BY <1>1, <1>5, Zenon
  <2>2. \A m \in DOMAIN all :
          /\ \A key : key \in DOMAIN all[m] <=>
               \E i \in 1..Len(doc) : CFG!Front(doc[i].path) = PathOf(doc, m) /\ CFG!Last(doc[i].path) = key
          /\ \A i \in 1..Len(doc) :
               CFG!Front(doc[i].path) = PathOf(doc, m) => all[m][CFG!Last(doc[i].path)] = Values(doc, "json")[i]
    BY <1>1, <1>6
  <2>. QED  BY <2>1, <2>2, Zenon DEF InTree
<1>. QED  BY <1>7 DEF all

\* A file that encoding/json reads.
LEMMA ParseJSONKeeps == ASSUME ConfigInv, CFG!ParseJSON PROVE ConfigInv'
<1>1. /\ FileKnown /\ phase = "loadFile" /\ file.format = "json"
      /\ Laid(file.entries, Values(file.entries, "json"), 0)
      /\ maps' = CFG!Unmarshal(file.entries)
      /\ data' = CFG!Over(data, CFG!FlattenMap(maps', 0)) /\ phase' = "loadEnv" /\ UNCHANGED <<file, assigned>>
  BY DEF ConfigInv, CFG!ParseJSON
<1>2. CFG!WellFormed(file.entries) /\ 0 \in 0..Len(file.entries)
  BY <1>1, KnownFiles
<1>3. InTree(file.entries, Values(file.entries, "json"), Len(file.entries), maps')
  BY <1>1, <1>2, UnmarshalsTree
<1>. QED  BY <1>1, <1>2, <1>3, FileKeeps

\* The literal that the precedence picks, by what it picks from: without Set, and with it.
PickedByLoad(path, doc, variables) ==
  LET Within == {i \in DOMAIN doc : doc[i].path = path}
      Entry == doc[CHOOSE i \in Within : TRUE]
  IN IF NamesIn(path, variables) # {}
     THEN CFG!Literal(variables[CHOOSE n \in NamesIn(path, variables) : TRUE], FALSE)
     ELSE IF Within # {} THEN CFG!Literal(Entry.text, Entry.quoted)
     ELSE IF path \in DOMAIN CFG!Defaults THEN CFG!Literal(CFG!Defaults[path], FALSE) ELSE CFG!Literal("", TRUE)

Picked(path, doc, variables, set) ==
  IF path \in DOMAIN set THEN CFG!Literal(set[path], TRUE) ELSE PickedByLoad(path, doc, variables)

\* It is the one that is expected, now and after a step.
LEMMA ExpectedIsPicked ==
  ASSUME NEW path
  PROVE  /\ CFG!Expected(path) = Picked(path, file.entries, environ, assigned)
         /\ CFG!Expected(path)' = Picked(path, file'.entries, environ', assigned')
         /\ CFG!Blurred(path) <=> BlurredBy(path, environ, assigned)
         /\ CFG!Blurred(path)' <=> BlurredBy(path, environ', assigned')
BY DEF CFG!Expected, CFG!InFile, CFG!EnvNames, CFG!Blurred, CFG!SingleWords, Picked, PickedByLoad, NamesIn, BlurredBy

\* The environment over the file and the defaults.
LEMMA LoadEnvKeeps == ASSUME ConfigInv, CFG!LoadEnv PROVE ConfigInv'
<1>. DEFINE doc == file.entries
            value == Values(doc, file.format)
            Named == {CFG!EnvKey(name) : name \in DOMAIN environ'}
            laid == [path \in Named |-> CFG!ParseYAMLValue(environ'[CFG!FlattenSeq(path)], FALSE)]
<1>1. /\ FileKnown /\ assigned = CFG!Empty /\ Laid(doc, value, Len(doc))
      /\ environ' \in Environments /\ data' = CFG!Over(data, laid) /\ phase' = "loaded"
      /\ file' = file /\ assigned' = assigned
  BY DEF ConfigInv, CFG!LoadEnv
<1>2. /\ DOMAIN doc = 1..Len(doc)
      /\ file.format \in {"yaml", "json"} => CFG!WellFormed(doc)
      /\ file.format = "json" => CFG!InJSON(doc)
      /\ doc # <<>> => file.format \in {"yaml", "json"}
  <2>1. /\ DOMAIN doc = 1..Len(doc) /\ (file.format \in {"yaml", "json"} => CFG!WellFormed(doc))
        /\ file = CFG!NoFile \/ file = CFG!Unreadable => file.format \notin {"yaml", "json"} /\ doc = <<>>
    BY <1>1, KnownFiles
  <2>. QED  BY <1>1, <2>1 DEF FileKnown
<1>3. DOMAIN environ' \subseteq Seq(Words) /\ \A path \in CFG!Paths : path \in Seq(Seq(Words)) /\ path # <<>>
  BY <1>1, NamesAreWords, PathsAreKeys
<1>4. /\ DOMAIN data' = DOMAIN data \cup Named
      /\ \A path \in Named : data'[path] = CFG!ParseYAMLValue(environ'[CFG!FlattenSeq(path)], FALSE)
      /\ \A path \in DOMAIN data : path \notin Named => data'[path] = data[path]
  <2>. HIDE DEF Named
  <2>1. /\ DOMAIN laid = Named
        /\ \A path \in Named : laid[path] = CFG!ParseYAMLValue(environ'[CFG!FlattenSeq(path)], FALSE)
    OBVIOUS
  <2>. HIDE DEF laid
  <2>. QED  BY <1>1, <2>1 DEF CFG!Over
<1>. HIDE DEF doc, value, laid
<1>5. ASSUME NEW path \in CFG!Paths PROVE Kept(path)'
  <2>. DEFINE literal == Picked(path, doc, environ', assigned')
              Within == {i \in DOMAIN doc : doc[i].path = path}
  <2>0. SUFFICES ASSUME ~BlurredBy(path, environ', assigned') PROVE Kept(path)'
    BY ExpectedIsPicked, Zenon DEF Kept
  <2>1. CFG!Expected(path)' = literal
    BY <1>1, ExpectedIsPicked DEF doc
  <2>2. path \notin DOMAIN assigned'
    BY <1>1 DEF CFG!Empty
  <2>3. /\ NamesIn(path, environ') # {} <=> path \in Named
        /\ \A name \in NamesIn(path, environ') : name = CFG!FlattenSeq(path) /\ name \in DOMAIN environ'
    <3>1. /\ NamesIn(path, environ') # {} <=> \E name \in DOMAIN environ' : path = CFG!EnvKey(name)
          /\ \A name \in NamesIn(path, environ') : name = CFG!FlattenSeq(path) /\ name \in DOMAIN environ'
      <4>1. CFG!SingleWords(path) \/ NamesIn(path, environ') = {}
        BY <2>0, <2>2, Zenon DEF BlurredBy
      <4>. QED  BY <1>3, <4>1, VariablesOfPaths
    <3>. QED  BY <3>1
  <2>4. \A text, quoted : CFG!Literal(text, quoted).text = text /\ CFG!Literal(text, quoted).quoted = quoted
    BY DEF CFG!Literal
  <2>. HIDE DEF Named
  <2>5. ASSUME literal.text # "" PROVE path \in DOMAIN data' /\ ReadAs(data'[path], literal)
    <3>1. CASE NamesIn(path, environ') # {}
      <4>1. literal = CFG!Literal(environ'[CFG!FlattenSeq(path)], FALSE)
        <5>. DEFINE name == CHOOSE n \in NamesIn(path, environ') : TRUE
        <5>1. name \in NamesIn(path, environ')
          BY <3>1, Zenon
        <5>2. literal = CFG!Literal(environ'[name], FALSE)
          BY <2>2, <3>1, Zenon DEF Picked, PickedByLoad
        <5>. HIDE DEF name
        <5>. QED  BY <2>3, <5>1, <5>2, Zenon
      <4>2. path \in Named
        BY <2>3, <3>1
      <4>. HIDE DEF literal
      <4>3. path \in DOMAIN data' /\ data'[path] = CFG!ParseYAMLValue(environ'[CFG!FlattenSeq(path)], FALSE)
        BY <1>4, <4>2
      <4>. QED  BY <2>4, <4>1, <4>3, Zenon DEF ReadAs
    <3>2. CASE NamesIn(path, environ') = {}
      <4>1. path \notin Named
        BY <2>3, <3>2
      <4>2. CASE Within # {}
        <5>. DEFINE i == CHOOSE k \in Within : TRUE
        <5>1. i \in Within
          BY <4>2, Zenon
        <5>2. literal = CFG!Literal(doc[i].text, doc[i].quoted)
          BY <2>2, <3>2, <4>2, Zenon DEF Picked, PickedByLoad
        <5>. HIDE DEF i, literal
        <5>3. i \in DOMAIN doc /\ doc[i].path = path
          BY <5>1
        <5>4. literal.text = doc[i].text /\ literal.quoted = doc[i].quoted /\ ~ CFG!Nested(doc[i])
          <6>1. literal.text = doc[i].text /\ literal.quoted = doc[i].quoted
            BY <2>4, <5>2, Zenon
          <6>2. literal.text # ""
            BY <2>5
          <6>. QED  BY <6>1, <6>2, Zenon DEF CFG!Nested
        <5>5. doc # <<>>
          BY <5>3
        <5>6. literal.quoted \in BOOLEAN
          BY <1>2, <5>3, <5>4, <5>5, Parents
        <5>7. path \in DOMAIN data /\ data[path] = value[i]
          BY <1>1, <1>2, <5>3 DEF Laid
        <5>8. ReadAs(value[i], literal)
          <6>1. value[i] = IF file.format = "yaml" THEN CFG!ParseYAMLValue(doc[i].text, doc[i].quoted)
                           ELSE CFG!ParseJSONValue(doc[i].text, doc[i].quoted)
            BY <5>3, <5>4 DEF Values, value
          <6>2. file.format # "yaml" =>
                  (~literal.quoted /\ literal.text \in DOMAIN CFG!Truth => literal.text \in {"true", "false"})
            BY <1>2, <5>3, <5>4, <5>5 DEF CFG!InJSON, CFG!ToSet
          <6>. QED  BY <5>4, <5>6, <6>1, <6>2 DEF ReadAs
        <5>. QED  BY <1>4, <4>1, <5>7, <5>8
      <4>3. CASE Within = {}
        <5>1. path \in DOMAIN CFG!Defaults /\ literal = CFG!Literal(CFG!Defaults[path], FALSE)
          <6>1. literal = IF path \in DOMAIN CFG!Defaults THEN CFG!Literal(CFG!Defaults[path], FALSE)
                          ELSE CFG!Literal("", TRUE)
            BY <2>2, <3>2, <4>3, Zenon DEF Picked, PickedByLoad
          <6>. HIDE DEF literal
          <6>. QED  BY <2>4, <2>5, <6>1
        <5>. HIDE DEF literal
        <5>2. \A i \in 1..Len(doc) : doc[i].path # path
          BY <1>2, <4>3
        <5>3. path \in DOMAIN data /\ data[path] = CFG!ParseYAMLValue(CFG!Defaults[path], FALSE)
          BY <1>1, <5>1, <5>2, Zenon DEF Laid
        <5>4. data'[path] = data[path] /\ path \in DOMAIN data'
          BY <1>4, <4>1, <5>3
        <5>5. literal.text = CFG!Defaults[path] /\ literal.quoted = FALSE
          BY <2>4, <5>1
        <5>6. data'[path] = CFG!ParseYAMLValue(literal.text, literal.quoted) /\ literal.quoted \in BOOLEAN
          BY <5>3, <5>4, <5>5
        <5>. QED  BY <5>4, <5>6 DEF ReadAs
      <4>. QED  BY <4>2, <4>3
    <3>. QED  BY <3>1, <3>2
  <2>. HIDE DEF literal
  <2>. QED  BY <2>1, <2>5, Zenon DEF Kept
<1>6. FileKnown'
  BY <1>1 DEF FileKnown
<1>7. (\A path \in CFG!Paths : Kept(path))'
  BY <1>5
<1>. QED  BY <1>1, <1>6, <1>7 DEF ConfigInv

\* Set, which goes before all of them.
LEMMA SetKeeps ==
  ASSUME ConfigInv, NEW target \in CFG!Paths, CFG!Set(target, "7070")
  PROVE  ConfigInv'
<1>1. /\ FileKnown /\ phase = "loaded" /\ assigned = CFG!Empty /\ \A path \in CFG!Paths : Kept(path)
      /\ data' = CFG!Over(data, [p \in {target} |-> CFG!Value("string", "7070")])
      /\ assigned' = [p \in {target} |-> "7070"]
      /\ file' = file /\ environ' = environ /\ phase' = phase
  BY DEF ConfigInv, CFG!Set
<1>2. /\ DOMAIN data' = DOMAIN data \cup {target} /\ data'[target] = CFG!Value("string", "7070")
      /\ \A path \in DOMAIN data : path # target => data'[path] = data[path]
  BY <1>1 DEF CFG!Over
<1>3. DOMAIN assigned = {} /\ DOMAIN assigned' = {target} /\ assigned'[target] = "7070"
  BY <1>1 DEF CFG!Empty
<1>4. ASSUME NEW path \in CFG!Paths PROVE Kept(path)'
  <2>1. CASE path = target
    <3>1. CFG!Expected(path)' = CFG!Literal("7070", TRUE)
      BY <1>3, <2>1, ExpectedIsPicked, Zenon DEF Picked
    <3>2. ReadAs(data'[path], CFG!Literal("7070", TRUE))
      BY <1>2, <2>1 DEF ReadAs, CFG!Literal, CFG!ParseYAMLValue
    <3>3. path \in DOMAIN data'
      BY <1>2, <2>1
    <3>. QED  BY <3>1, <3>2, <3>3, Zenon DEF Kept
  <2>2. CASE path # target
    <3>1. CFG!Expected(path)' = CFG!Expected(path)
      <4>1. path \notin DOMAIN assigned /\ path \notin DOMAIN assigned'
        BY <1>3, <2>2
      <4>2. Picked(path, file.entries, environ, assigned) = Picked(path, file.entries, environ, assigned')
        BY <4>1, Zenon DEF Picked
      <4>. QED  BY <1>1, <4>2, ExpectedIsPicked, Zenon
    <3>2. ~CFG!Blurred(path) /\ CFG!Expected(path).text # ""
            => path \in DOMAIN data /\ ReadAs(data[path], CFG!Expected(path))
      BY <1>1 DEF Kept
    <3>3. path \in DOMAIN data => path \in DOMAIN data' /\ data'[path] = data[path]
      BY <1>2, <2>2
    <3>4. CFG!Blurred(path)' <=> CFG!Blurred(path)
      <4>1. path \notin DOMAIN assigned /\ path \notin DOMAIN assigned'
        BY <1>3, <2>2
      <4>2. BlurredBy(path, environ, assigned) <=> BlurredBy(path, environ, assigned')
        BY <4>1, Zenon DEF BlurredBy
      <4>. QED  BY <1>1, <4>2, ExpectedIsPicked, Zenon
    <3>. QED  BY <3>1, <3>2, <3>3, <3>4, Zenon DEF Kept
  <2>. QED  BY <2>1, <2>2
<1>5. FileKnown'
  BY <1>1 DEF FileKnown
<1>6. (\A path \in CFG!Paths : Kept(path))'
  BY <1>4
<1>. QED  BY <1>1, <1>5, <1>6 DEF ConfigInv

\* The file that New is given.
LEMMA NewKeeps == ASSUME ConfigInv, CFG!New PROVE ConfigInv'
<1>1. /\ assigned' = assigned /\ assigned = CFG!Empty /\ phase' = "loadDefaults"
  BY DEF ConfigInv, CFG!New
<1>2. FileKnown'
  BY DEF CFG!New, FileKnown
<1>. QED  BY <1>1, <1>2 DEF ConfigInv

\* No step of loading breaks it.
LEMMA ConfigSteps == ConfigInv /\ [CFG!Next]_CFG!vars => ConfigInv'
<1>. SUFFICES ASSUME ConfigInv, [CFG!Next]_CFG!vars PROVE ConfigInv'
  OBVIOUS
<1>1. CASE CFG!New
  BY <1>1, NewKeeps
<1>2. CASE CFG!LoadDefaults
  BY <1>2, LoadDefaultsKeeps
<1>3. CASE CFG!CannotRead
  BY <1>3 DEF CFG!CannotRead, ConfigInv, FileKnown
<1>4. CASE CFG!ParseLine
  BY <1>4, ParseLineKeeps
<1>5. CASE CFG!ParseYAML
  BY <1>5, ParseYAMLKeeps
<1>6. CASE CFG!ParseJSON
  BY <1>6, ParseJSONKeeps
<1>7. CASE CFG!LoadEnv
  BY <1>7, LoadEnvKeeps
<1>8. ASSUME NEW path \in CFG!Paths, CFG!Set(path, "7070") PROVE ConfigInv'
  BY <1>8, SetKeeps
<1>9. CASE UNCHANGED CFG!vars
  <2>1. /\ file' = file /\ environ' = environ /\ data' = data /\ maps' = maps /\ stack' = stack
        /\ lineNo' = lineNo /\ phase' = phase /\ assigned' = assigned
    BY <1>9 DEF CFG!vars
  <2>2. \A path : Kept(path)' <=> Kept(path)
    BY <2>1, ExpectedIsPicked, Zenon DEF Kept
  <2>3. FileKnown' <=> FileKnown
    BY <2>1 DEF FileKnown
  <2>4. Parsing' <=> Parsing
    BY <2>1 DEF Parsing, Laid
  <2>5. \A d, v, n : Laid(d, v, n)' <=> Laid(d, v, n)
    BY <2>1 DEF Laid
  <2>. QED  BY <2>1, <2>2, <2>3, <2>4, <2>5, Zenon DEF ConfigInv
<1>. QED  BY <1>1, <1>2, <1>3, <1>4, <1>5, <1>6, <1>7, <1>8, <1>9 DEF CFG!Next

\* The configuration of the tools, by itself.
LEMMA ConfigRuns == ToolSpec => CFG!Spec
<1>. DEFINE Step == \E tool \in {"dsl", "config", "nx"} : ToolNext(tool)
<1>1. ToolInit => CFG!Init
  BY DEF ToolInit
<1>2. [Step]_toolVars => [CFG!Next]_CFG!vars
  <2>1. SUFFICES ASSUME [Step]_toolVars, ~ UNCHANGED CFG!vars PROVE CFG!Next
    OBVIOUS
  <2>2. ~ UNCHANGED cfgVars
    BY <2>1, Zenon DEF cfgVars, CFG!vars
  <2>3. ~ UNCHANGED toolVars
    BY <2>2 DEF toolVars
  <2>. QED  BY <2>1, <2>2, <2>3 DEF ToolNext
<1>. QED  BY <1>1, <1>2, PTL DEF ToolSpec, CFG!Spec

\* Whatever file is loaded under whatever environment, each entry reads as the literal that
\* the documented precedence picks, unless a variable for it sets another entry, as loadEnv's
\* has it where a key has several words (config.go:283).
THEOREM PrecedenceAlwaysKept == ToolSpec => []PrecedenceKept
<1>1. CFG!Init => ConfigInv
  BY ConfigStarts
<1>2. ConfigInv /\ [CFG!Next]_CFG!vars => ConfigInv'
  BY ConfigSteps
<1>3. ConfigInv => CFG!PrecedenceKept
  <2>1. SUFFICES ASSUME \A path \in CFG!Paths : Kept(path), NEW path \in CFG!Paths,
                        ~CFG!Blurred(path), CFG!Expected(path).text # ""
                 PROVE  CFG!Reads(path, CFG!Expected(path))
    BY Zenon DEF ConfigInv, CFG!PrecedenceKept
  <2>2. path \in DOMAIN data /\ ReadAs(data[path], CFG!Expected(path))
    BY <2>1 DEF Kept
  <2>. QED  BY <2>2, ReadsBack
<1>4. CFG!Spec => []CFG!PrecedenceKept
  BY <1>1, <1>2, <1>3, PTL DEF CFG!Spec
<1>. QED  BY <1>4, ConfigRuns, PTL DEF PrecedenceKept
=============================================================================
