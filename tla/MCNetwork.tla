------------------------------ MODULE MCNetwork ------------------------------
(***************************************************************************)
(* What comes over the network and how it is played, for TLC: messages, the*)
(* clocks of a connection and its beginning, downloads, the mixing of a    *)
(* channel, the session list and the video pump.  The parts share nothing  *)
(* that these models keep, so a behaviour takes one of seven scenes and    *)
(* leaves the rest alone.                                                  *)
(***************************************************************************)
EXTENDS Transport, KeepAlive, Downloads, Playout, SessionList, VideoPump,
        HostLookup

VARIABLE scene

KeepAlives == <<1, 1>>   \* of both ends
PlayTimes  == <<1>>      \* the channel plays after one byte

(* Empty messages, and one that does not fit into a ring with its header.  *)
OneLong == size = [m \in Messages |-> IF m = 2 THEN Max(Sizes) ELSE 0]

NetworkInit ==
  /\ TransportInit /\ KeepAliveInit /\ DownloadsInit /\ PlayoutInit /\ SessionInit /\ VideoPumpInit
  /\ LookupInit
  /\ scene \in {"transport", "keepalive", "downloads", "playout", "session", "video", "lookup"}
  /\ OneLong /\ (scene = "playout" \/ ~voice)

NetworkNext ==
  /\ \/ /\ scene = "transport" /\ TransportNext
        /\ UNCHANGED <<aliveVars, downloadVars, playVars, sessionVars, pumpVars, lookupVars>>
     \/ /\ scene = "keepalive" /\ KeepAliveNext
        /\ UNCHANGED <<transportVars, downloadVars, playVars, sessionVars, pumpVars, lookupVars>>
     \/ /\ scene = "downloads" /\ DownloadsNext
        /\ UNCHANGED <<transportVars, aliveVars, playVars, sessionVars, pumpVars, lookupVars>>
     \/ /\ scene = "playout" /\ PlayoutNext
        /\ UNCHANGED <<transportVars, aliveVars, downloadVars, sessionVars, pumpVars, lookupVars>>
     \/ /\ scene = "session" /\ SessionNext
        /\ UNCHANGED <<transportVars, aliveVars, downloadVars, playVars, pumpVars, lookupVars>>
     \/ /\ scene = "video" /\ VideoPumpNext
        /\ UNCHANGED <<transportVars, aliveVars, downloadVars, playVars, sessionVars, lookupVars>>
     \/ /\ scene = "lookup" /\ LookupNext
        /\ UNCHANGED <<transportVars, aliveVars, downloadVars, playVars, sessionVars, pumpVars>>
  /\ UNCHANGED scene

(* The fairness of a part, in its scene.                                   *)
NetworkFairness ==
  /\ WF_transportVars(scene = "transport" /\ SenderRuns)
  /\ WF_transportVars(scene = "transport" /\ ReceiverRuns)
  /\ SF_transportVars(scene = "transport" /\ EndSend /\ (link' # link \/ failed' # failed))
  /\ WF_aliveVars(scene = "keepalive" /\ Tick)
  /\ \A e \in Ends : WF_aliveVars(scene = "keepalive" /\ ~polled[e] /\ Run(e))
  /\ WF_lookupVars(scene = "lookup" /\ ThreadSteps)
  /\ WF_lookupVars(scene = "lookup" /\ RunConnection)
  /\ WF_lookupVars(scene = "lookup" /\ EndDelete)

NetworkSpec ==
  NetworkInit
  /\ [][NetworkNext]_<<transportVars, aliveVars, downloadVars, playVars, sessionVars,
                       pumpVars, lookupVars, scene>>
  /\ NetworkFairness
=============================================================================
