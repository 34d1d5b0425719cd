------------------------------ MODULE Generator ------------------------------
(***************************************************************************)
(* The nx commands that write source files (cmd/nx/main.go and generator/) *)
(* and the tree they leave: what each file declares and what it needs of   *)
(* the others; the text of a file is no more than that here.               *)
(*                                                                         *)
(* A command writes its files one after the other over whatever is there,  *)
(* looks at no error of os.WriteFile and never removes a file, so that the *)
(* files of an earlier edition of an .api file stay beside the new ones.   *)
(*                                                                         *)
(* A name is the sequence of its words, which is what ToSnakeCase makes of *)
(* it; a file is named by its directory and its words.                     *)
(***************************************************************************)
EXTENDS Naturals, Sequences, FiniteSets, SequencesExt

CONSTANTS
  Editions,     \* .api files, parsed: [info, types, services]
  MaxCommands,  \* bound: commands
  MaxFaults     \* bound: writes that fail

VARIABLES
  tree,      \* path -> [declares, uses], the files there are
  writes,    \* the files of the last command, in the order it writes them
  todo,      \* those it still has to write
  sound,     \* whether it has done all it should so far
  dangled,   \* <<path, symbol>> that dangled when it started
  commands, faults

vars == <<tree, writes, todo, sound, dangled, commands, faults>>

File(dir, name, declares, uses) ==
  [path |-> <<dir, name>>, declares |-> declares, uses |-> uses]

\* An .api file of which the parser has nothing to say, and whose author declared the
\* types that it names: those of fields, and the two that a gRPC handler's messages are.
\* A stream is only asked for by a program that builds the ast and calls Generate itself:
\* parser.go never sets IsSSE (ast.go:61).
WellFormed(file) ==
  LET Words == Seq(STRING)
      Handler == [name : Words, sse : BOOLEAN, grpc : BOOLEAN]
      declared == {t.name : t \in ToSet(file.types)}
  IN /\ file.info \in BOOLEAN
     /\ file.types \in Seq([name : Words, fields : SUBSET declared])
     /\ file.services \in Seq([group : STRING, handlers : Seq(Handler)])
     /\ \A svc \in ToSet(file.services) : \A h \in ToSet(svc.handlers) :
          h.grpc => {Append(h.name, "req"), Append(h.name, "resp")} \subseteq declared

\* A symbol: the directory of its package, what it is, and whose it is.
In(dir, what, of) == <<dir, what, of>>
One(dir, what) == In(dir, what, <<>>)

\* What the files need and no command writes: see MissingWhats.
MissingWhats == {"HandlerWrapper", "NewHandler", "Handler.Method", "RegisterHTTPRoutes",
                 "SSELogic.Execute", "Response.Schema", "pb", "gateway/gateway"}

-----------------------------------------------------------------------------
(* nx gen api: the files of a service, by directory *)

Dir(svc, name) == <<"service", svc.group, name>>

Module(svc) == <<"service", svc.group>>

\* One file for each type of the .api file, whichever service is generated.
generateDTO(svc, file) ==
  [i \in DOMAIN file.types |->
     LET t == file.types[i] IN
     File(Dir(svc, "dto"), t.name, {In(Dir(svc, "dto"), "type", t.name)},
          {In(Dir(svc, "dto"), "type", f) : f \in t.fields})]

NewConfig(svc) == One(Dir(svc, "config"), "NewConfig")
ServiceContext(svc) == One(Dir(svc, "svc"), "ServiceContext")

generateConfig(svc) == File(Dir(svc, "config"), <<"config">>, {NewConfig(svc)}, {})

\* handlerName, with _sse for a stream
FileName(handler) == IF handler.sse THEN Append(handler.name, "sse") ELSE handler.name

HandlerFunc(svc, handler) ==
  In(Dir(svc, "handler"), IF handler.sse THEN "SSEHandler" ELSE "Handler", handler.name)

NewLogic(svc, handler) ==
  In(Dir(svc, "logic"), IF handler.sse THEN "NewSSELogic" ELSE "NewLogic", handler.name)

\* The text of an SSE logic file declares Execute on the type of handler.Doc.
Execute(svc, handler) ==
  In(Dir(svc, "logic"), IF handler.sse THEN "SSELogic.Execute" ELSE "Logic.Execute", handler.name)

generateRoutes(svc) ==
  File(Dir(svc, "handler"), <<"routes">>, {One(Dir(svc, "handler"), "RegisterRoutes")},
       {ServiceContext(svc)} \cup
       {IF h.sse THEN HandlerFunc(svc, h) ELSE In(Dir(svc, "handler"), "HandlerWrapper", h.name)
          : h \in ToSet(svc.handlers)})

generateHandlers(svc) ==
  [i \in DOMAIN svc.handlers |->
     LET h == svc.handlers[i] IN
     File(Dir(svc, "handler"), FileName(h), {HandlerFunc(svc, h)},
          {NewLogic(svc, h), Execute(svc, h), ServiceContext(svc)})]
  \o <<generateRoutes(svc)>>

LogicFile(svc, h, name) ==
  File(Dir(svc, "logic"), name,
       {NewLogic(svc, h)} \cup IF h.sse THEN {} ELSE {Execute(svc, h)},
       {ServiceContext(svc)})

generateLogic(svc) ==
  [i \in DOMAIN svc.handlers |-> LogicFile(svc, svc.handlers[i], FileName(svc.handlers[i]))]

generateServiceContext(svc) ==
  File(Dir(svc, "svc"), <<"service", "context">>,
       {ServiceContext(svc), One(Dir(svc, "svc"), "NewServiceContext")}, {NewConfig(svc)})

generateRouter(svc) ==
  File(Dir(svc, "router"), <<"router">>, {One(Dir(svc, "router"), "Register")},
       {ServiceContext(svc), One(Dir(svc, "handler"), "NewHandler")} \cup
       {In(Dir(svc, "handler"), "Handler.Method", h.name) : h \in ToSet(svc.handlers)})

generateMiddleware(svc) ==
  File(Dir(svc, "middleware"), <<"auth">>, {One(Dir(svc, "middleware"), "AuthMiddleware")}, {})

generateClient(svc) ==
  File(Dir(svc, "client"), <<"http", "client">>,
       {In(Dir(svc, "client"), "Client.Method", h.name) : h \in ToSet(svc.handlers)}, {})

generateOpenAPI(svc) ==
  File(Dir(svc, "docs"), <<"openapi">>, {One(Dir(svc, "docs"), "Response")},
       {In(Dir(svc, "docs"), "Response.Schema", h.name) : h \in ToSet(svc.handlers)})

Etc(svc) == One(Dir(svc, "etc"), "yaml")

generateMain(svc) ==
  File(Module(svc), <<"main">>, {},
       {NewConfig(svc), One(Dir(svc, "svc"), "NewServiceContext"), Etc(svc),
        One(Dir(svc, "server"), "RegisterHTTPRoutes")})

Message(svc, name) == In(Module(svc), "message", name)

generateProto(svc, file) ==
  File(Module(svc), <<svc.group, "proto">>,
       {Message(svc, t.name) : t \in ToSet(file.types)},
       {Message(svc, Append(h.name, suffix)) :
          h \in {g \in ToSet(svc.handlers) : g.grpc}, suffix \in {"req", "resp"}}
       \cup {Message(svc, f) : f \in UNION {t.fields : t \in ToSet(file.types)}})

generateServiceYAML(svc) == File(Dir(svc, "etc"), <<svc.group>>, {Etc(svc)}, {})

BeforeRouter(svc, file) ==
  generateDTO(svc, file) \o <<generateConfig(svc)>> \o generateHandlers(svc)
  \o generateLogic(svc) \o <<generateServiceContext(svc)>>

FromRouter(svc, file) ==
  <<generateRouter(svc), generateMiddleware(svc), generateClient(svc), generateOpenAPI(svc),
    generateMain(svc), generateProto(svc, file), generateServiceYAML(svc)>>

\* Without an info block, generateRouter's file.Info.Version ends the process.
Generate(file) ==
  IF file.info \/ file.services = <<>>
  THEN FlattenSeq([i \in DOMAIN file.services |->
         BeforeRouter(file.services[i], file) \o FromRouter(file.services[i], file)])
  ELSE BeforeRouter(file.services[1], file)

-----------------------------------------------------------------------------
(* The commands whose files do not hang on an .api file *)

Gateway(name) == <<"gateway", name>>

gatewayConfig == One(Gateway("config"), "Config")
gatewayYAML == One(Gateway("etc"), "yaml")

generateGatewayMain == File(<<"gateway">>, <<"main">>, {}, {gatewayConfig, gatewayYAML})
generateGatewayConfig == File(Gateway("config"), <<"config">>, {gatewayConfig}, {})
generateProxyHandler == File(Gateway("handler"), <<"proxy">>, {}, {})
generateGatewayYAML == File(Gateway("etc"), <<"gateway">>, {gatewayYAML}, {})

\* GatewayGenerator.Generate, whatever its routes
genGateway ==
  <<generateGatewayMain, generateGatewayConfig, generateProxyHandler, generateGatewayYAML>>

\* nx new gateway gateway, in the same directory: main.go takes its
\* configuration from gateway/gateway.
newGateway ==
  <<File(<<"gateway">>, <<"main">>, {},
         {One(<<"gateway", "gateway">>, "gateway/gateway"), gatewayYAML}),
    File(Gateway("config"), <<"config">>, {gatewayConfig}, {}),
    File(Gateway("etc"), <<"gateway">>, {gatewayYAML}, {}),
    File(<<"gateway">>, <<"gateway", "api">>, {}, {})>>

\* nx gen client user
genClient ==
  <<File(<<"client", "user-client">>, <<"client">>, {One(<<"client">>, "Client")}, {}),
    File(<<"client", "user-client">>, <<"README">>, {}, {One(<<"client">>, "Client")})>>

\* nx new rpc user, in examples/rpc-demo
newRpc ==
  LET dir(name) == <<"rpc", "user", name>>
      register == One(dir("server"), "Register")
  IN <<File(dir("proto"), <<"user">>, {One(dir("proto"), "service")}, {}),
       File(dir("etc"), <<"user">>, {One(dir("etc"), "yaml")}, {}),
       File(dir("server"), <<"server">>, {register}, {One(<<"rpc", "pkg">>, "pb")}),
       File(<<"rpc", "user">>, <<"main">>, {}, {register})>>

\* nx new rpc-gateway gateway, in examples/rpc-demo
newRpcGateway ==
  LET dir(name) == <<"rpc", "gateway", name>>
      services == One(dir("pool"), "Services")
  IN <<File(dir("etc"), <<"gateway">>, {One(dir("etc"), "yaml")}, {}),
       File(dir("config"), <<"config">>, {One(dir("config"), "Load")}, {}),
       File(dir("pool"), <<"pool">>, {services}, {}),
       File(dir("proxy"), <<"proxy">>, {One(dir("proxy"), "Register")}, {services}),
       File(dir("handler"), <<"handler">>, {One(dir("handler"), "New")}, {services}),
       File(dir("router"), <<"router">>, {One(dir("router"), "Register")},
            {One(dir("handler"), "New"), services}),
       File(<<"rpc", "gateway">>, <<"main">>, {},
            {One(dir(part[1]), part[2]) : part \in
               {<<"config", "Load">>, <<"pool", "Services">>, <<"etc", "yaml">>,
                <<"router", "Register">>, <<"proxy", "Register">>}})>>

-----------------------------------------------------------------------------
(* The file system *)

Dangling ==
  LET declared == UNION {tree[p].declares : p \in DOMAIN tree}
  IN {use \in UNION {{p} \X tree[p].uses : p \in DOMAIN tree} : use[2] \notin declared}

Init ==
  /\ tree = [p \in {} |-> [declares |-> {}, uses |-> {}]]
  /\ writes = <<>>
  /\ todo = <<>>
  /\ sound = TRUE
  /\ dangled = {}
  /\ commands = 0
  /\ faults = 0

\* Mutation: a file that is there is not written again, though it may be an old one or cut.
Run_MissingOnly(files, whole) ==
  /\ todo = <<>>
  /\ commands < MaxCommands
  /\ commands' = commands + 1
  /\ writes' = files
  /\ todo' = SelectSeq(files, LAMBDA f : f.path \notin DOMAIN tree)
  /\ sound' = whole
  /\ dangled' = Dangling
  /\ UNCHANGED <<tree, faults>>

Run(files, whole) ==
  /\ todo = <<>>
  /\ commands < MaxCommands
  /\ commands' = commands + 1
  /\ writes' = files
  /\ todo' = files
  /\ sound' = whole
  /\ dangled' = Dangling
  /\ UNCHANGED <<tree, faults>>

Put(file) ==
  tree' = [p \in DOMAIN tree \cup {file.path} |->
             IF p = file.path THEN [declares |-> file.declares, uses |-> file.uses] ELSE tree[p]]

WriteFile ==
  /\ todo # <<>>
  /\ Put(Head(todo))
  /\ todo' = Tail(todo)
  /\ UNCHANGED <<writes, sound, dangled, commands, faults>>

\* os.WriteFile returns an error, which nobody looks at: the file is the old one,
\* or it was cut before the disk was full.
WriteFails ==
  /\ todo # <<>>
  /\ faults < MaxFaults
  /\ faults' = faults + 1
  /\ \/ UNCHANGED tree
     \/ Put([path |-> Head(todo).path, declares |-> {}, uses |-> {}])
  /\ todo' = Tail(todo)
  /\ sound' = FALSE
  /\ UNCHANGED <<writes, dangled, commands>>

\* The command is stopped from outside.
Interrupt ==
  /\ todo # <<>>
  /\ faults < MaxFaults
  /\ faults' = faults + 1
  /\ todo' = <<>>
  /\ sound' = FALSE
  /\ UNCHANGED <<tree, writes, dangled, commands>>

Next ==
  \/ \E file \in Editions : Run(Generate(file), file.info)
  \/ \E files \in {genGateway, newGateway, genClient, newRpc, newRpcGateway} : Run(files, TRUE)
  \/ WriteFile
  \/ WriteFails
  \/ Interrupt

Spec == Init /\ [][Next]_vars

-----------------------------------------------------------------------------

Written == {writes[i].path : i \in DOMAIN writes}

\* Declared by a file that the same command then writes again, under a name that
\* ToSnakeCase makes of two.
Overwritten ==
  UNION {writes[i].declares :
    i \in {j \in DOMAIN writes : \E k \in j + 1 .. Len(writes) : writes[k].path = writes[j].path}}

(***************************************************************************)
(* A command that ran to its end leaves a tree whose files find what they  *)
(* need, however many other commands, and editions of the .api file, wrote *)
(* in it before, and however they ended: what a file of this command needs *)
(* is there, and what it wrote over took nothing away from the files that  *)
(* others left.  Except for what no command writes at all (MissingWhats),  *)
(* and for two names of one .api file that share a file                    *)
(* (generator.go:421, 582).                                                *)
(***************************************************************************)
ReferencesResolve ==
  todo = <<>> /\ sound =>
    \A d \in Dangling :
      \/ d[2][2] \in MissingWhats
      \/ d[2] \in Overwritten
      \/ d[1] \notin Written /\ d \in dangled
=============================================================================
