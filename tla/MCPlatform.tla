------------------------------ MODULE MCPlatform ------------------------------
(***************************************************************************)
(* The threads of the app around the core, for TLC: the ones that connect  *)
(* and disconnect, and on Android the ones of the audio engine and of its  *)
(* recorder; what the app is told; and the session archive.  The parts     *)
(* share nothing that these models keep, so a behaviour takes one of four  *)
(* scenes and leaves the other parts alone.                                *)
(***************************************************************************)
EXTENDS Connection, OboeEngine, AppEvents, Archive

VARIABLE scene

(* Two starts of the engine in all their outcomes, or two recordings of an *)
(* engine that goes on.                                                    *)
Few ==
  \/ starts <= 1 /\ (opens = 2 => block <= 1)
  \/ opens = 1 /\ input # "none" /\ engine = "running" /\ output = "started"
     /\ caller # "close.input"

PlatformInit ==
  /\ Init /\ EngineInit /\ EventsInit /\ ArchiveInit
  /\ scene \in {"connection", "android", "events", "archive"}
PlatformNext ==
  /\ \/ scene = "connection" /\ Next /\ UNCHANGED <<androidVars, eventVars, archiveVars>>
     \/ scene = "android" /\ AndroidNext /\ Timely /\ Few' /\ UNCHANGED <<vars, eventVars, archiveVars>>
     \/ scene = "events" /\ EventsNext /\ UNCHANGED <<vars, androidVars, archiveVars>>
     \/ scene = "archive" /\ ArchiveNext /\ Unhurried /\ UNCHANGED <<vars, androidVars, eventVars>>
  /\ UNCHANGED scene
PlatformSpec ==
  /\ PlatformInit /\ [][PlatformNext]_<<vars, androidVars, eventVars, archiveVars, scene>>
  /\ Fairness /\ AndroidFairness

(* No call of the app hangs: CallsReturn for the connection, StopReturns   *)
(* for the recorder.                                                       *)
EveryCallReturns == CallsReturn /\ StopReturns
=============================================================================
