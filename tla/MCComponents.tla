---------------------------- MODULE MCComponents ----------------------------
(***************************************************************************)
(* The parts of the hosts that share no state with each other, for TLC: a  *)
(* behaviour is a behaviour of one of them, chosen at the start, and the   *)
(* others rest in an initial state.  What is checked is what seven runs    *)
(* would check one by one.                                                *)
(***************************************************************************)
EXTENDS Filesystem, NetworkTool, NetworkEvents, McpServer, McpResources, Tunnel,
        Visual

VARIABLE part  \* the component that moves

Parts == {"filesystem", "network", "events", "mcp", "resources", "tunnel", "visual"}

componentVars == <<part, fsVars, ntVars, neVars, mcVars, rsVars, tnVars, vsVars>>

\* A component that rests does so in one of its initial states.
FsRests == fsHost.host = "magisk" /\ ~Present("dst") /\ ~Present("src")
NtRests == ntFacts.host = "magisk"
NeRests == neKind = "native" /\ neWorld.net = CHOOSE n \in Nets : TRUE
McRests == mcKind = "daemon"

ComponentsInit ==
  /\ part \in Parts
  /\ FsInit /\ (part = "filesystem" \/ FsRests)
  /\ NtInit /\ (part = "network" \/ NtRests)
  /\ NeInit /\ (part = "events" \/ NeRests)
  /\ McInit /\ (part = "mcp" \/ McRests)
  /\ RsInit /\ TnInit /\ VsInit

ComponentsNext ==
  \/ /\ part = "filesystem" /\ FsNext
     /\ UNCHANGED <<part, ntVars, neVars, mcVars, rsVars, tnVars, vsVars>>
  \/ /\ part = "network" /\ NtNext
     /\ UNCHANGED <<part, fsVars, neVars, mcVars, rsVars, tnVars, vsVars>>
  \/ /\ part = "events" /\ NeNext
     /\ UNCHANGED <<part, fsVars, ntVars, mcVars, rsVars, tnVars, vsVars>>
  \/ /\ part = "mcp" /\ McNext
     /\ UNCHANGED <<part, fsVars, ntVars, neVars, rsVars, tnVars, vsVars>>
  \/ /\ part = "resources" /\ RsNext
     /\ UNCHANGED <<part, fsVars, ntVars, neVars, mcVars, tnVars, vsVars>>
  \/ /\ part = "tunnel" /\ TnNext
     /\ UNCHANGED <<part, fsVars, ntVars, neVars, mcVars, rsVars, vsVars>>
  \/ /\ part = "visual" /\ VsNext
     /\ UNCHANGED <<part, fsVars, ntVars, neVars, mcVars, rsVars, tnVars>>

ComponentsSpec == ComponentsInit /\ [][ComponentsNext]_componentVars
=============================================================================
