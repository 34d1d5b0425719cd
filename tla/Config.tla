------------------------------- MODULE Config -------------------------------
(***************************************************************************)
(* The configuration of core/config/config.go: Load lays the defaults, the *)
(* file and the environment over each other under the write lock, so its   *)
(* steps are those of one goroutine.  A key is a sequence of words, the    *)
(* parts that "_" joins; a path is a sequence of keys, which "." joins.    *)
(* Values have the types that reading them gives; lists, which the YAML    *)
(* reader skips, durations and null are left out.                          *)
(***************************************************************************)
EXTENDS Naturals, Sequences, SequencesExt

CONSTANTS
  Files,         \* what filePath may name: entries [path, text, quoted, indent] of a tree
  Environments   \* what os.Environ may show: name, a sequence of words -> text

VARIABLES
  file,          \* NoFile, or the format and the entries of the file
  environ,       \* the environment, once Load has read it
  data,          \* flat: path -> value
  maps,          \* the maps of nested entries, by the entry that opened them, 0 the root
  stack,         \* parseYAML's stack of [prefix, indent, parent]
  lineNo,        \* the line that the scanner is at
  phase,
  assigned       \* path -> text, what Set was told since

vars == <<file, environ, data, maps, stack, lineNo, phase, assigned>>

NoFile == [format |-> "none", entries |-> <<>>]
Unreadable == [format |-> "unreadable", entries |-> <<>>]

\* A value: its Go type and its canonical text, or which of maps it is.
Value(type, text) == [type |-> type, text |-> text, map |-> 0]
MapOf(m) == [type |-> "map", text |-> "", map |-> m]
IsMap(value) == value.type = "map"
Nil == Value("nil", "")

\* An entry without a text only holds others.
Nested(entry) == entry.text = ""

\* A document as its author writes it: no path twice, and an entry of a section stands
\* below the section's own, deeper than it and than nothing in between.
WellFormed(entries) ==
  LET Keys == Seq(STRING)
      DeepestSince(m, i) == \A k \in m + 1..i - 1 : entries[k].indent >= entries[i].indent
  IN /\ entries \in Seq([path : Seq(Keys) \ {<<>>}, text : STRING, quoted : BOOLEAN, indent : Nat \ {0}])
     /\ \A i, j \in DOMAIN entries : entries[i].path = entries[j].path => i = j
     /\ \A i \in DOMAIN entries :
          \/ Len(entries[i].path) = 1 /\ DeepestSince(0, i)
          \/ \E m \in 1..i - 1 :
               /\ Nested(entries[m]) /\ entries[m].path = Front(entries[i].path)
               /\ entries[m].indent < entries[i].indent /\ DeepestSince(m, i)

\* The words and numerals that are read as more than strings: a numeral's
\* integer part, and what a word means.
Whole == [t \in {"8080", "9090", "7070"} |-> CASE t = "8080" -> 8080 [] t = "9090" -> 9090 [] t = "7070" -> 7070]
Fraction == [t \in {"0.9", "0.8", "0.7"} |-> 0]
Truth == [t \in {"true", "yes", "on", "false", "no", "off"} |-> t \in {"true", "yes", "on"}]

ParseYAMLValue(text, quoted) ==
  CASE quoted -> Value("string", text)
    [] ~quoted /\ text \in DOMAIN Truth -> Value("bool", IF Truth[text] THEN "true" ELSE "false")
    [] ~quoted /\ text \in DOMAIN Whole -> Value("int", text)
    [] ~quoted /\ text \in DOMAIN Fraction -> Value("float64", text)
    [] OTHER -> Value("string", text)

\* encoding/json has no integers, and of the words only true and false for a bool.
InJSON(entries) == \A e \in ToSet(entries) : ~e.quoted /\ e.text \in DOMAIN Truth => e.text \in {"true", "false"}

ParseJSONValue(text, quoted) ==
  CASE ~quoted /\ text \in {"true", "false"} -> Value("bool", text)
    [] ~quoted /\ text \in DOMAIN Whole \cup DOMAIN Fraction -> Value("float64", text)
    [] OTHER -> Value("string", text)

Empty == [key \in {} |-> ""]

\* The second function over the first.
Over(old, new) == [x \in DOMAIN old \cup DOMAIN new |-> IF x \in DOMAIN new THEN new[x] ELSE old[x]]

Init ==
  /\ file = NoFile
  /\ environ = Empty
  /\ data = Empty
  /\ maps = <<>>
  /\ stack = <<>>
  /\ lineNo = 0
  /\ phase = "new"
  /\ assigned = Empty

-----------------------------------------------------------------------------

\* flattenMap: what can be reached from a map, by its path.  Maps hold only
\* maps that were opened after them.
FlattenMap(all, root) ==
  LET flat[m \in DOMAIN all] ==
        LET Children == {key \in DOMAIN all[m] : IsMap(all[m][key])}
            Below == {<<key>> : key \in DOMAIN all[m]}
              \cup UNION {{<<key>> \o path : path \in DOMAIN flat[all[m][key].map]} : key \in Children}
        IN [path \in Below |-> IF Len(path) = 1 THEN all[m][path[1]]
                                                ELSE flat[all[m][path[1]].map][Tail(path)]]
  IN flat[root]

\* A few of loadDefaults' entries: path -> literal.
Defaults ==
  LET Name == <<<<"server">>, <<"name">>>>
      Port == <<<<"server">>, <<"http">>, <<"port">>>>
      Threshold == <<<<"shedding">>, <<"cpu", "threshold">>>>
      Enabled == <<<<"metrics">>, <<"enabled">>>>
  IN [path \in {Name, Port, Threshold, Enabled} |->
        CASE path = Name -> "nexus-service" [] path = Port -> "8080"
          [] path = Threshold -> "0.9" [] path = Enabled -> "true"]

\* New, and the lock: the file that Load is given, if it is given one.
New ==
  /\ phase = "new"
  /\ file' \in {NoFile, Unreadable} \cup [format : {"yaml"}, entries : Files]
                  \cup [format : {"json"}, entries : {document \in Files : InJSON(document)}]
  /\ phase' = "loadDefaults"
  /\ UNCHANGED <<environ, data, maps, stack, lineNo, assigned>>

LoadDefaults ==
  /\ phase = "loadDefaults"
  /\ data' = [path \in DOMAIN Defaults |-> ParseYAMLValue(Defaults[path], FALSE)]
  /\ maps' = [m \in {0} |-> Empty]
  /\ stack' = <<[prefix |-> <<>>, indent |-> 0, parent |-> 0]>>
  /\ lineNo' = 1
  /\ phase' = IF file = NoFile THEN "loadEnv" ELSE "loadFile"
  /\ UNCHANGED <<file, environ, assigned>>

\* The error leaves the defaults behind, without the environment.
CannotRead ==
  /\ phase = "loadFile"
  /\ file = Unreadable
  /\ phase' = "failed"
  /\ UNCHANGED <<file, environ, data, maps, stack, lineNo, assigned>>

\* Mutation: an entry no deeper than the last one stays inside it.
Level_Inclusive(indent) ==
  CHOOSE n \in 1..Len(stack) :
    /\ n = 1 \/ stack[n].indent <= indent
    /\ \A k \in n + 1..Len(stack) : stack[k].indent > indent

\* How much of the stack is left: nested entries with less indentation than
\* this line.  Indentation counts from one, so that the root's is less.
Level(indent) ==
  CHOOSE n \in 1..Len(stack) :
    /\ n = 1 \/ stack[n].indent < indent
    /\ \A k \in n + 1..Len(stack) : stack[k].indent >= indent

\* What a map of the document holds below it once an entry is in it.
Put(parent, key, value) == [maps EXCEPT ![parent] = Over(@, [k \in {key} |-> value])]

\* One line of parseYAML.
ParseLine ==
  /\ phase = "loadFile"
  /\ file.format = "yaml"
  /\ lineNo <= Len(file.entries)
  /\ LET line == file.entries[lineNo]
         key == Last(line.path)
         level == Level(line.indent)
         prefix == Append(stack[level].prefix, key)
         value == IF Nested(line) THEN MapOf(lineNo) ELSE ParseYAMLValue(line.text, line.quoted)
         filled == Put(stack[level].parent, key, value)
     IN /\ data' = Over(data, [p \in {prefix} |-> value])
        /\ IF Nested(line)
           THEN /\ maps' = Over(filled, [m \in {lineNo} |-> Empty])
                /\ stack' = Append(SubSeq(stack, 1, level),
                                   [prefix |-> prefix, indent |-> line.indent, parent |-> lineNo])
           ELSE /\ maps' = filled
                /\ stack' = SubSeq(stack, 1, level)
  /\ lineNo' = lineNo + 1
  /\ UNCHANGED <<file, environ, phase, assigned>>

\* The end of parseYAML: the tree once more, flattened over the data.
ParseYAML ==
  /\ phase = "loadFile"
  /\ file.format = "yaml"
  /\ lineNo > Len(file.entries)
  /\ data' = Over(data, FlattenMap(maps, 0))
  /\ phase' = "loadEnv"
  /\ UNCHANGED <<file, environ, maps, stack, lineNo, assigned>>

\* The tree as encoding/json reads it.
Unmarshal(entries) ==
  LET Maps == {0} \cup {i \in DOMAIN entries : Nested(entries[i])}
      Inside(m) == {i \in DOMAIN entries :
                      Front(entries[i].path) = IF m = 0 THEN <<>> ELSE entries[m].path}
      At(m, key) == CHOOSE i \in Inside(m) : Last(entries[i].path) = key
      Read(i) == IF Nested(entries[i]) THEN MapOf(i) ELSE ParseJSONValue(entries[i].text, entries[i].quoted)
  IN [m \in Maps |-> [key \in {Last(entries[i].path) : i \in Inside(m)} |-> Read(At(m, key))]]

ParseJSON ==
  /\ phase = "loadFile"
  /\ file.format = "json"
  /\ maps' = Unmarshal(file.entries)
  /\ data' = Over(data, FlattenMap(maps', 0))
  /\ phase' = "loadEnv"
  /\ UNCHANGED <<file, environ, stack, lineNo, assigned>>

\* The path that a variable sets: its words are separate keys.
EnvKey(name) == [i \in 1..Len(name) |-> <<name[i]>>]

LoadEnv ==
  /\ phase = "loadEnv"
  /\ environ' \in Environments
  /\ LET Named == {EnvKey(name) : name \in DOMAIN environ'}
     IN data' = Over(data, [path \in Named |-> ParseYAMLValue(environ'[FlattenSeq(path)], FALSE)])
  /\ phase' = "loaded"
  /\ UNCHANGED <<file, maps, stack, lineNo, assigned>>

\* Set, at run time, to a Go string.  No watcher is called.
Set(path, text) ==
  /\ phase = "loaded"
  /\ assigned = Empty
  /\ data' = Over(data, [p \in {path} |-> Value("string", text)])
  /\ assigned' = [p \in {path} |-> text]
  /\ UNCHANGED <<file, environ, maps, stack, lineNo, phase>>

\* From one map into the next, key by key.
Step(current, key) ==
  IF IsMap(current) /\ key \in DOMAIN maps[current.map] THEN maps[current.map][key] ELSE Nil

\* Get: the flat key, or else the way down from the map of the path's first key.
Get(path) ==
  LET first == IF SubSeq(path, 1, 1) \in DOMAIN data THEN data[SubSeq(path, 1, 1)] ELSE Nil
  IN IF path \in DOMAIN data THEN data[path] ELSE FoldLeft(Step, first, Tail(path))

GetString(path) == Get(path).text

\* A map, and a bool, count as zero.
GetInt(path) ==
  LET v == Get(path)
  IN CASE v.type \in {"int", "float64"} -> Over(Fraction, Whole)[v.text]
       [] v.type = "string" /\ v.text \in DOMAIN Whole -> Whole[v.text]
       [] OTHER -> 0

\* The number, by its numeral.
GetFloat(path) ==
  LET v == Get(path)
      IsNumeral == v.text \in DOMAIN Whole \cup DOMAIN Fraction
  IN IF v.type \in {"int", "float64", "string"} /\ IsNumeral THEN v.text ELSE "0"

\* Of the strings only "true" and its like count; "yes" and "on" do not.
GetBool(path) ==
  LET v == Get(path) IN v.type \in {"bool", "string"} /\ v.text = "true"

-----------------------------------------------------------------------------

Paths == DOMAIN Defaults \cup {e.path : e \in UNION {ToSet(f) : f \in Files}}

Next ==
  \/ New
  \/ LoadDefaults
  \/ CannotRead
  \/ ParseLine
  \/ ParseYAML
  \/ ParseJSON
  \/ LoadEnv
  \/ \E path \in Paths : Set(path, "7070")

Spec == Init /\ [][Next]_vars

-----------------------------------------------------------------------------

\* The name of the variable for a path, if there is one: NEXUS_SERVER_NAME for server.name
\* (config.go:275).
EnvNames(path) == {FlattenSeq(path)} \cap DOMAIN environ

\* A variable for a path whose keys have several words sets another one: loadEnv takes every
\* "_" for a "." (line 283).
SingleWords(path) == \A i \in DOMAIN path : Len(path[i]) = 1
Blurred(path) == path \notin DOMAIN assigned /\ EnvNames(path) # {} /\ ~SingleWords(path)

InFile(path) == {i \in DOMAIN file.entries : file.entries[i].path = path}

Literal(text, quoted) == [text |-> text, quoted |-> quoted]
Expected(path) ==
  IF path \in DOMAIN assigned THEN Literal(assigned[path], TRUE)
  ELSE IF EnvNames(path) # {} THEN Literal(environ[CHOOSE n \in EnvNames(path) : TRUE], FALSE)
  ELSE IF InFile(path) # {} THEN LET e == file.entries[CHOOSE i \in InFile(path) : TRUE] IN Literal(e.text, e.quoted)
  ELSE IF path \in DOMAIN Defaults THEN Literal(Defaults[path], FALSE) ELSE Literal("", TRUE)

\* What the getters make of a literal, whatever type it was read as.
Reads(path, literal) ==
  /\ literal.text \in DOMAIN Truth => literal.quoted \/ GetBool(path) = Truth[literal.text]
  /\ literal.text \in DOMAIN Whole => GetInt(path) = Whole[literal.text]
  /\ literal.text \in DOMAIN Whole \cup DOMAIN Fraction => GetFloat(path) = literal.text
  /\ literal.text \notin DOMAIN Truth => GetString(path) = literal.text

\* Once loaded, every entry but a blurred one reads as the literal that the documented
\* precedence picks, the environment's before the file's before the default, whatever the
\* file's nesting, indentation and format (the package comment, config.go:3).
PrecedenceKept ==
  phase = "loaded" =>
    \A path \in Paths :
      ~Blurred(path) /\ Expected(path).text # "" => Reads(path, Expected(path))

\* A variable goes before the file and the default, whichever entry it is for: "ENV > YAML/JSON
\* file > default" (config.go:3).
EnvironmentFirst ==
  phase = "loaded" =>
    \A path \in Paths :
      path \notin DOMAIN assigned /\ EnvNames(path) # {}
        => Reads(path, Literal(environ[FlattenSeq(path)], FALSE))
=============================================================================
