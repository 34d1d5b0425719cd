------------------------------- MODULE MCParts -------------------------------
(***************************************************************************)
(* What TLC checks of MCLibrary, of MCTools and of TokenBucket: a          *)
(* behaviour runs one component of theirs, on the texts below and those of *)
(* ApiFiles.                                                               *)
(***************************************************************************)
EXTENDS MCLibrary, MCTools, TokenBucket

\* Editions of one .api file, as module Generator reads them, chosen for what generation
\* over an earlier edition can meet: a handler that turns into a stream, a name that takes
\* the stream's file, a handler that takes routes.go, two services of one group, no info
\* block.
Plain(name) == [name |-> name, sse |-> FALSE, grpc |-> FALSE]
Stream(name) == [name |-> name, sse |-> TRUE, grpc |-> FALSE]
Rpc(name) == [name |-> name, sse |-> FALSE, grpc |-> TRUE]

Type(name, fields) == [name |-> name, fields |-> fields]
Service(group, served) == [group |-> group, handlers |-> served]

\* Watch answers once.
First ==
  [info |-> TRUE,
   types |-> <<Type(<<"get", "req">>, {}), Type(<<"get", "resp">>, {<<"user">>}),
               Type(<<"user">>, {})>>,
   services |-> <<Service("user", <<Rpc(<<"get">>), Plain(<<"watch">>)>>)>>]

\* Watch is a stream now, and the group has a second service.
Second ==
  [info |-> TRUE,
   types |-> <<Type(<<"user">>, {})>>,
   services |-> <<Service("user", <<Stream(<<"watch">>)>>),
                  Service("user", <<Plain(<<"routes">>)>>)>>]

\* WatchSse and Watch share a file.
Third ==
  [info |-> TRUE,
   types |-> <<>>,
   services |-> <<Service("user", <<Stream(<<"watch">>), Plain(<<"watch", "sse">>)>>)>>]

\* The info block is forgotten.
Fourth == [Second EXCEPT !.info = FALSE]

FourEditions == {First, Second, Third, Fourth}

-----------------------------------------------------------------------------

\* Documents for Config: two sections in either order, each indented by its own width, and
\* variables for some of their entries.
Server == <<"server">>
Shedding == <<"shedding">>
Log == <<"log">>
Metrics == <<"metrics">>

\* The entries of a section in their order: paths, and literals, empty for a
\* nested entry.
Section(paths, texts, quoted, width) ==
  [i \in 1..Len(paths) |->
     [path |-> paths[i], text |-> texts[i], quoted |-> quoted, indent |-> 1 + width * (Len(paths[i]) - 1)]]

ServerSection(quoted, width) ==
  Section(<<<<Server>>, <<Server, <<"http">>>>, <<Server, <<"http">>, <<"port">>>>, <<Server, <<"name">>>>>>,
          <<"", "", "9090", "shop">>, quoted, width)
SheddingSection(width) ==
  Section(<<<<Shedding>>, <<Shedding, <<"cpu", "threshold">>>>>>, <<"", "0.8">>, FALSE, width)
LogSection(width) ==
  Section(<<<<Log>>, <<Log, <<"output">>>>, <<Log, <<"output">>, <<"path">>>>>>, <<"", "", "stdout">>, TRUE, width)
MetricsSection(width) ==
  Section(<<<<Metrics>>, <<Metrics, <<"enabled">>>>>>, <<"", "false">>, FALSE, width)

Sections ==
  {ServerSection(FALSE, 1), ServerSection(TRUE, 2), SheddingSection(2), LogSection(1), LogSection(2), MetricsSection(1)}

SectionFiles ==
  {document \in {one \o other : one, other \in Sections} :
     \A i, j \in DOMAIN document : document[i].path = document[j].path => i = j}

Variables ==
  LET Port == <<"server", "http", "port">>
      Threshold == <<"shedding", "cpu", "threshold">>
      Enabled == <<"metrics", "enabled">>
  IN [name \in {Port, Threshold, Enabled} |->
        CASE name = Port -> "7070" [] name = Threshold -> "0.7" [] name = Enabled -> "off"]

VariableSets == {[name \in names |-> Variables[name]] : names \in SUBSET DOMAIN Variables}

-----------------------------------------------------------------------------

Api == INSTANCE ApiFiles
UserSources == Api!PlainSources \cup Api!BrokenSources

vars == <<libVars, toolVars, bucketVars>>

Init ==
  /\ part \in {"di", "event", "gateway", "client", "dsl", "metrics",
               "config", "tracer", "balancer", "breaker", "demo", "nx", "bucket"}
  /\ LibInit
  /\ ToolInit
  /\ BucketInit

Next ==
  \/ LibNext /\ UNCHANGED <<toolVars, bucketVars>>
  \/ ToolNext(part) /\ UNCHANGED <<libVars, bucketVars>>
  \/ part = "bucket" /\ BucketNext /\ UNCHANGED <<libVars, toolVars>>

Spec == Init /\ [][Next]_vars
=============================================================================
