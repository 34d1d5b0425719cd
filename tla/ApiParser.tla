------------------------------ MODULE ApiParser ------------------------------
(***************************************************************************)
(* The recursive-descent parser of dsl/parser/parser.go, one step per      *)
(* turn of a loop of its procedures; they nest to a fixed depth, so the    *)
(* procedure that is running and what it has built so far are the state.   *)
(* A source is a text with the file that whoever wrote it meant.           *)
(***************************************************************************)
EXTENDS Naturals, ApiLexer

CONSTANT Sources   \* set of [text, means]

VARIABLES
  tokens,   \* what the lexer will return
  pos,      \* currentToken; the token after it is peekToken
  rule,     \* the procedure that is running
  failed,   \* Parser.errors is not empty
  api,      \* Parser.file
  built,    \* the values under construction, by kind
  means     \* ghost: the file that was meant

vars == <<tokens, pos, rule, failed, api, built, means>>

EmptyFile == [syntax |-> "", info |-> <<>>, types |-> <<>>, services |-> <<>>]
EmptyInfo == [title |-> "", desc |-> "", version |-> "", author |-> ""]
EmptyConfig == [prefix |-> "", service |-> "", middleware |-> <<>>]
EmptyHandler == [name |-> "", doc |-> "", method |-> "", path |-> <<>>, grpc |-> FALSE]
NewType(name) == [name |-> name, fields |-> <<>>]
NewService(name, cfg) ==
  [name |-> name, prefix |-> cfg.prefix, group |-> cfg.service, middleware |-> cfg.middleware, handlers |-> <<>>]

Init ==
  /\ tokens = <<>>
  /\ pos = 1
  /\ rule = "idle"
  /\ failed = FALSE
  /\ api = EmptyFile
  /\ built = [info |-> EmptyInfo, type |-> NewType(""), config |-> EmptyConfig,
              service |-> NewService("", EmptyConfig), handler |-> EmptyHandler]
  /\ means = EmptyFile

At(i) == IF i <= Len(tokens) THEN tokens[i] ELSE EOF
TypeAt(i) == At(i).type
ValueAt(i) == At(i).value
Is(type) == TypeAt(pos) = type
IsKeyword(word) == At(pos) = Token("Keyword", word)
EndsAt(type) == TypeAt(pos) \in {type, "EOF"}

Advance(n) == pos' = pos + n
In(r) == rule' = r
Build(kind, value) == built' = [built EXCEPT ![kind] = value]

\* expectPeek without the token: an error, and no token is consumed.
Unexpected ==
  /\ failed' = TRUE
  /\ UNCHANGED <<pos, rule, api, built>>

Skip == Advance(1) /\ UNCHANGED <<rule, failed, api, built>>

Parse ==
  /\ rule = "idle"
  /\ \E src \in Sources : tokens' = Lex(src.text) /\ means' = src.means
  /\ In("file")
  /\ UNCHANGED <<pos, failed, api, built>>

ParseSyntax ==
  /\ IsKeyword("syntax")
  /\ \/ /\ TypeAt(pos + 1) = "="
        /\ api' = IF TypeAt(pos + 2) = "String" THEN [api EXCEPT !.syntax = ValueAt(pos + 2)] ELSE api
        /\ Advance(3)
        /\ UNCHANGED <<rule, failed, built>>
     \/ TypeAt(pos + 1) # "=" /\ Unexpected

\* A block that must start with a parenthesis.
Open(r, kind, value, n) ==
  \/ TypeAt(pos + 1) = "(" /\ Advance(n) /\ In(r) /\ Build(kind, value) /\ UNCHANGED <<failed, api>>
  \/ TypeAt(pos + 1) # "(" /\ Unexpected

ParseInfo == IsKeyword("info") /\ Open("info", "info", EmptyInfo, 1)

ParseTypeBlock == IsKeyword("type") /\ Open("types", "type", NewType(""), 2)

\* @server, whose parentheses may be missing.
ParseServiceBlock ==
  /\ Is("@")
  /\ \/ /\ At(pos + 1) = Token("Keyword", "server")
        /\ Build("config", EmptyConfig)
        /\ \/ TypeAt(pos + 2) = "(" /\ In("server") /\ Advance(3) /\ UNCHANGED failed
           \/ TypeAt(pos + 2) # "(" /\ In("await") /\ Advance(1) /\ failed' = TRUE
        /\ UNCHANGED api
     \/ At(pos + 1) # Token("Keyword", "server") /\ Skip

ParseFile ==
  /\ rule = "file"
  /\ \/ Is("EOF") /\ In("done") /\ UNCHANGED <<pos, failed, api, built>>
     \/ ParseSyntax \/ ParseInfo \/ ParseTypeBlock \/ ParseServiceBlock
     \/ ~(Is("EOF") \/ Is("@") \/ At(pos) \in {Token("Keyword", w) : w \in {"syntax", "info", "type"}}) /\ Skip
  /\ UNCHANGED <<tokens, means>>

\* Mutation: the value is not consumed.
Pair_ValueLeft(value) ==
  IF TypeAt(pos + 1) = ":" THEN Advance(2) /\ value ELSE Advance(2) /\ UNCHANGED built

\* A key with its value takes three tokens, a key alone two.
Pair(value) ==
  IF TypeAt(pos + 1) = ":" THEN Advance(3) /\ value ELSE Advance(2) /\ UNCHANGED built

\* Sets a key of the value under construction from a token of the given type.
SetKey(kind, key, type, value) ==
  IF TypeAt(pos + 2) = type THEN Build(kind, [built[kind] EXCEPT ![key] = value]) ELSE UNCHANGED built

InInfo ==
  /\ rule = "info"
  /\ \/ /\ EndsAt(")")
        /\ api' = [api EXCEPT !.info = <<built.info>>]
        /\ In("file") /\ Advance(1) /\ UNCHANGED built
     \/ /\ Is("Ident")
        /\ Pair(IF ValueAt(pos) \in DOMAIN EmptyInfo
                THEN SetKey("info", ValueAt(pos), "String", ValueAt(pos + 2))
                ELSE UNCHANGED built)
        /\ UNCHANGED <<rule, api>>
     \/ ~EndsAt(")") /\ ~Is("Ident") /\ Advance(1) /\ UNCHANGED <<rule, api, built>>
  /\ UNCHANGED <<tokens, failed, means>>

\* The loop of parseTypeBlock; a type's name that no brace follows stays.
InTypes ==
  /\ rule = "types"
  /\ \/ EndsAt(")") /\ In("file") /\ Advance(1) /\ UNCHANGED <<failed, api, built>>
     \/ /\ Is("Ident")
        /\ \/ /\ TypeAt(pos + 1) = "{"
              /\ Build("type", NewType(ValueAt(pos)))
              /\ In("fields") /\ Advance(2) /\ UNCHANGED <<failed, api>>
           \/ TypeAt(pos + 1) # "{" /\ Unexpected
     \/ ~EndsAt(")") /\ ~Is("Ident") /\ Skip
  /\ UNCHANGED <<tokens, means>>

\* parseField: two names, and the backquote that opens a tag.
InFields ==
  /\ rule = "fields"
  /\ \/ /\ EndsAt("}")
        /\ api' = [api EXCEPT !.types = Append(@, built.type)]
        /\ In("types") /\ Advance(1) /\ UNCHANGED built
     \/ /\ Is("Ident") /\ TypeAt(pos + 1) = "Ident"
        /\ Build("type", [built.type EXCEPT !.fields = Append(@, [name |-> ValueAt(pos), type |-> ValueAt(pos + 1)])])
        /\ Advance(IF ValueAt(pos + 2) = "backquote" THEN 3 ELSE 2)
        /\ UNCHANGED <<rule, api>>
     \/ /\ ~EndsAt("}") /\ ~(Is("Ident") /\ TypeAt(pos + 1) = "Ident")
        /\ Advance(1) /\ UNCHANGED <<rule, api, built>>
  /\ UNCHANGED <<tokens, failed, means>>

\* A list of middleware is one identifier: the comma ends it.
InServer ==
  /\ rule = "server"
  /\ \/ EndsAt(")") /\ In("await") /\ Advance(1) /\ UNCHANGED built
     \/ /\ Is("Ident") \/ Is("Keyword")
        /\ Pair(CASE ValueAt(pos) = "prefix" -> SetKey("config", "prefix", "String", ValueAt(pos + 2))
                  [] ValueAt(pos) = "service" -> SetKey("config", "service", "Ident", ValueAt(pos + 2))
                  [] ValueAt(pos) = "middleware" -> SetKey("config", "middleware", "Ident", <<ValueAt(pos + 2)>>)
                  [] OTHER -> UNCHANGED built)
        /\ UNCHANGED rule
     \/ ~EndsAt(")") /\ ~Is("Ident") /\ ~Is("Keyword") /\ Advance(1) /\ UNCHANGED <<rule, built>>
  /\ UNCHANGED <<tokens, failed, api, means>>

\* parseServiceBlock waits for the word service, parseService wants a name
\* and a brace after it.
ParseService ==
  /\ rule = "await"
  /\ \/ Is("EOF") /\ In("file") /\ UNCHANGED <<pos, failed, built>>
     \/ /\ IsKeyword("service")
        /\ \/ /\ TypeAt(pos + 1) = "Ident" /\ TypeAt(pos + 2) = "{"
              /\ Build("service", NewService(ValueAt(pos + 1), built.config))
              /\ In("service") /\ Advance(3) /\ UNCHANGED failed
           \/ /\ ~(TypeAt(pos + 1) = "Ident" /\ TypeAt(pos + 2) = "{")
              /\ failed' = (failed \/ TypeAt(pos + 1) = "Ident")
              /\ In("file") /\ Advance(1) /\ UNCHANGED built
     \/ ~Is("EOF") /\ ~IsKeyword("service") /\ Advance(1) /\ UNCHANGED <<rule, failed, built>>
  /\ UNCHANGED <<tokens, api, means>>

InService ==
  /\ rule = "service"
  /\ \/ /\ EndsAt("}")
        /\ api' = [api EXCEPT !.services = Append(@, built.service)]
        /\ In("file") /\ Advance(1) /\ UNCHANGED built
     \/ Is("@") /\ Build("handler", EmptyHandler) /\ In("handler") /\ UNCHANGED <<pos, api>>
     \/ ~EndsAt("}") /\ ~Is("@") /\ Advance(1) /\ UNCHANGED <<rule, api, built>>
  /\ UNCHANGED <<tokens, failed, means>>

\* @handler Name, @doc "text" and @grpc; any other annotation is skipped.
Annotation ==
  LET word == IF TypeAt(pos + 1) = "Keyword" THEN ValueAt(pos + 1) ELSE ""
  IN /\ Is("@")
     /\ CASE word = "handler" -> SetKey("handler", "name", "Ident", ValueAt(pos + 2)) /\ Advance(3)
          [] word = "doc" -> SetKey("handler", "doc", "String", ValueAt(pos + 2)) /\ Advance(3)
          [] word = "grpc" -> Build("handler", [built.handler EXCEPT !.grpc = TRUE]) /\ Advance(2)
          [] OTHER -> UNCHANGED built /\ Advance(2)
     /\ UNCHANGED rule

ToUpper(word) ==
  CASE word = "get" -> "GET" [] word = "post" -> "POST" [] word = "put" -> "PUT"
    [] word = "delete" -> "DELETE" [] OTHER -> word

\* The path is the slash and the one token after it.
Route ==
  LET slash == TypeAt(pos + 1) = "/"
      handler == [built.handler EXCEPT
                    !.method = IF Is("Ident") THEN ToUpper(ValueAt(pos)) ELSE @,
                    !.path = IF slash THEN <<ValueAt(pos + 2)>> ELSE @]
  IN /\ ~Is("@")
     /\ Build("service", [built.service EXCEPT !.handlers = Append(@, handler)])
     /\ Advance(IF slash THEN 2 ELSE 1)
     /\ In("service")

ParseHandler ==
  /\ rule = "handler"
  /\ Annotation \/ Route
  /\ UNCHANGED <<tokens, failed, api, means>>

Step ==
  ParseFile \/ InInfo \/ InTypes \/ InFields \/ InServer \/ ParseService \/ InService \/ ParseHandler

Next == Parse \/ Step

Spec == Init /\ [][Next]_vars

\* The parser is a program without waits.
Fairness == WF_vars(Step)

-----------------------------------------------------------------------------

(***************************************************************************)
(* A parser that returns without an error has read what was meant, for the *)
(* sources of ApiFiles: plain ones, and ones with a mistake it can see     *)
(* (parser.go:37).                                                         *)
(***************************************************************************)
ParsesBack == rule = "done" /\ ~failed => api = means

(***************************************************************************)
(* Every text is parsed, to the file that was meant by it (parser.go:37).  *)
(***************************************************************************)
DocumentedParses == rule # "idle" ~> rule = "done" /\ api = means
=============================================================================
