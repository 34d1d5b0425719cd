------------------------------- MODULE MCTools -------------------------------
(***************************************************************************)
(* What reads texts and writes files: the parser of .api files, the        *)
(* configuration that a program starts with, and the nx tool.  They share  *)
(* nothing, and stand side by side as the components of MCLibrary do.      *)
(* Theorems about them are in ToolProofs.                                  *)
(***************************************************************************)
EXTENDS Naturals, Sequences

CONSTANTS Sources, Files, Environments, Editions, MaxCommands, MaxFaults

VARIABLES
  words, pos, rule, failed, api, built, means,
  file, environ, data, maps, stack, lineNo, phase, assigned,
  tree, writes, todo, sound, dangled, commands, faults

DSL == INSTANCE ApiParser WITH tokens <- words
CFG == INSTANCE Config
NX == INSTANCE Generator

ASSUME FilesAssumption == \A document \in Files : CFG!WellFormed(document)

ASSUME EnvironmentsAssumption ==
  \A variables \in Environments : DOMAIN variables \subseteq Seq(STRING)

ASSUME EditionsAssumption == \A edition \in Editions : NX!WellFormed(edition)

dslVars == <<words, pos, rule, failed, api, built, means>>
cfgVars == <<file, environ, data, maps, stack, lineNo, phase, assigned>>
nxVars == <<tree, writes, todo, sound, dangled, commands, faults>>

toolVars == <<dslVars, cfgVars, nxVars>>

ToolInit ==
  /\ DSL!Init
  /\ CFG!Init
  /\ NX!Init

\* A step of the one that is named.
ToolNext(tool) ==
  \/ tool = "dsl" /\ DSL!Next /\ UNCHANGED <<cfgVars, nxVars>>
  \/ tool = "config" /\ CFG!Next /\ UNCHANGED <<dslVars, nxVars>>
  \/ tool = "nx" /\ NX!Next /\ UNCHANGED <<dslVars, cfgVars>>

ToolSpec == ToolInit /\ [][\E tool \in {"dsl", "config", "nx"} : ToolNext(tool)]_toolVars

-----------------------------------------------------------------------------

\* Each of these is stated, and commented on, in its component's module.

\* A file that parses without an error was read (dsl/parser/parser.go).
ParsesBack == DSL!ParsesBack

\* The environment goes before the file, the file before the default, unless a variable is
\* blurred (config/config.go).
PrecedenceKept == CFG!PrecedenceKept

\* A variable goes before the rest, whichever entry it is for (config/config.go).
EnvironmentFirst == CFG!EnvironmentFirst

\* A command leaves a tree whose files find what they need (generator/generator.go).
ReferencesResolve == NX!ReferencesResolve
=============================================================================
