------------------------------ MODULE ApiFiles ------------------------------
(***************************************************************************)
(* Sources for ApiParser: plain files written out in the syntax that the   *)
(* parser knows, and what the documentation and nx itself write.           *)
(***************************************************************************)
EXTENDS Naturals, ApiLexer

Many(seq, Write(_)) == FlattenSeq([i \in 1..Len(seq) |-> Write(seq[i])])
Key(key, lexeme) == <<Word(key), Mark(":"), lexeme>>

Info(title, desc) == [title |-> title, desc |-> desc, version |-> "", author |-> ""]
Field(name, type) == [name |-> name, type |-> type]
Type(name, fields) == [name |-> name, fields |-> fields]
Handler(name, doc, method, path, grpc) ==
  [name |-> name, doc |-> doc, method |-> method, path |-> path, grpc |-> grpc]
Service(name, prefix, group, middleware, handlers) ==
  [name |-> name, prefix |-> prefix, group |-> group, middleware |-> middleware, handlers |-> handlers]

-----------------------------------------------------------------------------

\* Plain files: quoted prefixes, at most one middleware, paths of one name,
\* field types of one name, comments one at a time.

Tag == <<Mark("backquote")>> \o Key("json", Quoted("id")) \o <<Mark("backquote")>>
Lower(method) == IF method = "GET" THEN "get" ELSE "post"

WriteInfo(i) ==
  <<Word("info"), Mark("(")>> \o Key("title", Quoted(i.title)) \o Key("desc", Quoted(i.desc)) \o <<Mark(")")>>

WriteTypes(types, tag) ==
  LET WriteField(f) == <<Word(f.name), Word(f.type)>> \o tag
      WriteType(t) == <<Word(t.name), Mark("{")>> \o Many(t.fields, WriteField) \o <<Mark("}")>>
  IN <<Word("type"), Mark("(")>> \o Many(types, WriteType) \o <<Mark(")")>>

WriteHandler(h) ==
  <<Mark("@"), Word("handler"), Word(h.name), Mark("@"), Word("doc"), Quoted(h.doc)>>
    \o (IF h.grpc THEN <<Mark("@"), Word("grpc")>> ELSE <<>>)
    \o <<Word(Lower(h.method)), Mark("/"), Word(h.path[1])>>
    \o <<Mark("("), Word("Req"), Mark(")"), Word("returns"), Mark("("), Word("Resp"), Mark(")")>>

WriteService(s) ==
  <<Mark("@"), Word("server"), Mark("(")>>
    \o Key("prefix", Quoted(s.prefix)) \o Key("service", Word(s.group))
    \o (IF s.middleware = <<>> THEN <<>> ELSE Key("middleware", Word(s.middleware[1])))
    \o <<Mark(")"), Word("service"), Word(s.name), Mark("{")>> \o Many(s.handlers, WriteHandler) \o <<Mark("}")>>

WriteFile(f, tag, comment) ==
  (IF f.syntax = "" THEN <<>> ELSE <<Word("syntax"), Mark("="), Quoted(f.syntax)>>)
    \o Many(f.info, WriteInfo) \o comment
    \o (IF f.types = <<>> THEN <<>> ELSE WriteTypes(f.types, tag) \o comment)
    \o Many(f.services, WriteService)

PlainTypes ==
  {<<>>, <<Type("User", <<>>)>>,
   <<Type("User", <<Field("Id", "string"), Field("Name", "string")>>), Type("Req", <<Field("Id", "string")>>)>>}

GetUser == Handler("GetUser", "one", "GET", <<"users">>, TRUE)
AddUser == Handler("AddUser", "new", "POST", <<"users">>, FALSE)

PlainServices ==
  {<<>>,
   <<Service("UserService", "/api", "user", <<"Auth">>, <<GetUser, AddUser>>)>>,
   <<Service("UserService", "/api", "user", <<>>, <<>>), Service("HomeService", "/home", "home", <<"Log">>, <<AddUser>>)>>}

PlainFiles ==
  [syntax : {"", "v1"}, info : {<<>>, <<Info("Users", "all of them")>>}, types : PlainTypes, services : PlainServices]

PlainSources ==
  {[text |-> WriteFile(f, tag, comment), means |-> f] :
     f \in PlainFiles, tag \in {<<>>, Tag}, comment \in {<<>>, <<Comment(<<Word("type")>>)>>}}

\* One mistake each: the parser stays where it is, or goes on and says so.
Nothing == [syntax |-> "", info |-> <<>>, types |-> <<>>, services |-> <<>>]
Broken(text) == [text |-> text, means |-> Nothing]
Server == <<Mark("@"), Word("server")>>
BrokenSources ==
  {Broken(<<Word("syntax"), Quoted("v1")>>),
   Broken(<<Word("info"), Mark("{"), Mark("}")>>),
   Broken(<<Word("type"), Word("User"), Mark("{"), Mark("}")>>),
   Broken(<<Word("type"), Mark("("), Word("User"), Mark(")")>>),
   Broken(<<Mark("@"), Word("doc"), Quoted("no service")>>),
   Broken(Server \o <<Word("service"), Mark("{"), Mark("}")>>),
   Broken(Server \o <<Mark("("), Mark(")"), Word("service"), Word("UserService")>>),
   Broken(Server \o <<Mark("("), Mark(","), Word("prefix"), Mark(")"), Mark(")")>>)}

-----------------------------------------------------------------------------

\* What nx new gateway writes for the user to edit (cmd/nx/main.go:841-861).
GatewayTemplate ==
  [text |->
     <<Word("info"), Mark("{"), Word("title"), Quoted("shop API Gateway"),
       Word("desc"), Quoted("Nexus Micro API Gateway"), Mark("}"),
       Mark("@"), Word("server"), Mark("(")>>
     \o Key("prefix", Quoted("/api/v1")) \o Key("service", Quoted("shop"))
     \o <<Mark(")"), Word("service"), Word("shopGateway"), Mark("{"),
          Mark("@"), Word("handler"), Word("Health"), Mark("@"), Word("doc"), Quoted("health"),
          Word("get"), Mark("/"), Word("health"),
          Comment(<<Word("routes"), Mark("."), Mark("."), Mark(".")>>),
          Comment(<<Mark("@"), Word("handler"), Word("CreateUser")>>),
          Comment(<<Mark("@"), Word("doc"), Quoted("create")>>),
          Comment(<<Word("post"), Mark("/"), Word("users")>>),
          Mark("}")>>,
   means |->
     [syntax |-> "", info |-> <<Info("shop API Gateway", "Nexus Micro API Gateway")>>, types |-> <<>>,
      services |-> <<Service("shopGateway", "/api/v1", "shop", <<>>,
                       <<Handler("Health", "health", "GET", <<"health">>, FALSE)>>)>>]]

\* The service of user.api, with two of its handlers (user.api:46-61).
UserApi ==
  [text |->
     <<Mark("@"), Word("server"), Mark("("),
       Word("prefix"), Mark(":"), Mark("/"), Word("api"), Mark("/"), Word("v1")>>
     \o Key("service", Word("user"))
     \o Key("middleware", Word("Auth")) \o <<Mark(","), Word("RateLimit"), Mark(")")>>
     \o <<Word("service"), Word("UserService"), Mark("{"),
          Mark("@"), Word("handler"), Word("CreateUser"), Mark("@"), Word("doc"), Quoted("create"),
          Mark("@"), Word("grpc"), Word("post"), Mark("/"), Word("users"),
          Mark("("), Word("CreateUserReq"), Mark(")"), Word("returns"), Mark("("), Word("CreateUserResp"), Mark(")"),
          Mark("@"), Word("handler"), Word("GetUser"), Mark("@"), Word("doc"), Quoted("get"),
          Mark("@"), Word("grpc"), Word("get"), Mark("/"), Word("users"), Mark("/"), Mark(":"), Word("id"),
          Mark("("), Word("GetUserReq"), Mark(")"), Word("returns"), Mark("("), Word("GetUserResp"), Mark(")"),
          Mark("}")>>,
   means |->
     [syntax |-> "", info |-> <<>>, types |-> <<>>,
      services |-> <<Service("UserService", "/api/v1", "user", <<"Auth", "RateLimit">>,
                       <<Handler("CreateUser", "create", "POST", <<"users">>, TRUE),
                         Handler("GetUser", "get", "GET", <<"users", ":id">>, TRUE)>>)>>]]

DocumentedSources == {GatewayTemplate, UserApi}
=============================================================================
