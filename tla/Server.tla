-------------------------------- MODULE Server --------------------------------
(***************************************************************************)
(* Start and Stop of core/server/server.go on the container of module      *)
(* Container, with the providers the framework itself puts there: the      *)
(* registry and the lifecycle, and the configuration when the program      *)
(* registers config.NewProvider before it calls Start.  Each of the three  *)
(* ends its Init with a call of Container.RegisterInstance.                *)
(***************************************************************************)
EXTENDS Container

VARIABLES
  sound,      \* the configuration can be read and names a registry that answers
  started,    \* Server.started
  starting,   \* where Start is
  instances,  \* Container.instances, by name
  announced   \* the instance is in the registry and the listener is up

srvVars == <<sound, started, starting, instances, announced>>
srvAndContainer == <<vars, srvVars>>

SrvInit ==
  /\ Init
  /\ sound \in BOOLEAN
  /\ started = FALSE
  /\ starting = "idle"
  /\ instances = {}
  /\ announced = FALSE

At(place) == starting = place
Goto(place) == starting' = place

\* srv.Container().Register(config.NewProvider(...)).
AddConfigProvider ==
  /\ At("idle")
  /\ Register("config", {})
  /\ UNCHANGED srvVars

\* started stays TRUE when Start fails: the next Start is refused.
Start ==
  /\ At("idle") \/ At("failed")
  /\ Goto(IF started THEN "already started" ELSE "loading")
  /\ started' = TRUE
  /\ UNCHANGED <<vars, sound, instances, announced>>

LoadConfig ==
  /\ At("loading")
  /\ Goto("instance") \/ (~sound /\ Goto("failed"))
  /\ UNCHANGED <<vars, sound, started, instances, announced>>

RegisterConfig ==
  /\ At("instance")
  /\ mu = "free"
  /\ instances' = instances \cup {"config"}
  /\ Goto("registry")
  /\ UNCHANGED <<vars, sound, started, announced>>

RegisterProvider(name, from, to) ==
  /\ At(from)
  /\ Register(name, {"config"})
  /\ Goto(to)
  /\ UNCHANGED <<sound, started, instances, announced>>

InitContainer ==
  /\ At("initAll")
  /\ InitAll
  /\ Goto(IF mu' = "free" THEN "failed" ELSE "initialising")
  /\ UNCHANGED <<sound, started, instances, announced>>

\* A provider of the framework comes to its RegisterInstance, under the lock
\* InitAll holds, unless it fails before.
InitProvider ==
  /\ InitOne
  /\ order' = order
  /\ mu' = "free" => ~sound /\ sorted[at] \in {"config", "registry"}

Initialising ==
  /\ At("initialising")
  /\ \/ (SortOne \/ SortEnd \/ InitProvider) /\ Goto(IF mu' = "free" THEN "failed" ELSE "initialising")
     \/ InitEnd /\ Goto("initialised")
  /\ UNCHANGED <<sound, started, instances, announced>>

Serve ==
  /\ At("initialised")
  /\ mu = "free"
  /\ IF "lifecycle" \in instances
     THEN Goto("serving") /\ announced' = ("registry" \in instances)
     ELSE Goto("failed") /\ UNCHANGED announced
  /\ UNCHANGED <<vars, sound, started, instances>>

\* From another goroutine, whatever Start is at.
Stop ==
  /\ ShutdownAll
  /\ announced' = FALSE
  /\ UNCHANGED <<sound, started, starting, instances>>

Stopping == (ShutdownOne \/ ShutdownEnd) /\ UNCHANGED srvVars

SrvNext ==
  \/ AddConfigProvider
  \/ Start
  \/ LoadConfig
  \/ RegisterConfig
  \/ RegisterProvider("registry", "registry", "lifecycle")
  \/ RegisterProvider("lifecycle", "lifecycle", "initAll")
  \/ InitContainer
  \/ Initialising
  \/ Serve
  \/ Stop
  \/ Stopping

SrvSpec == SrvInit /\ [][SrvNext]_srvAndContainer

-----------------------------------------------------------------------------

\* Start of a server whose configuration is sound neither fails nor waits for
\* ever before it serves (nexus.go:2, server.go:187).
StartServes == sound => ~At("failed") /\ mu # "deadlocked"
=============================================================================
