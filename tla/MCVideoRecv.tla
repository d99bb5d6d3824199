---------------------------- MODULE MCVideoRecv ----------------------------
(***************************************************************************)
(* Instances of VideoRecv for TLC.  A behaviour is one of two scenes:      *)
(* "regular", a sender that stays and a network without stalls, and        *)
(* "reset", where few intervals of few frames come, some audio is lost,    *)
(* boundaries fall anywhere, channels wait and skip, and the user leaves   *)
(* and comes back.                                                         *)
(***************************************************************************)
EXTENDS VideoRecv

CONSTANTS Lags,             \* how far behind the sender's interval the audio may be
          ResetIntervals    \* bound: the intervals of the scene "reset"

VARIABLE scene

(* One boundary in every sender interval, after its marker; no audio is    *)
(* lost, and what sounds is a fixed number of intervals behind.            *)
RegularSwap ==
  /\ wire.frame # 0
  /\ Swap(TRUE)
  /\ line' = AgeAll(Advance(line, TRUE)) /\ hold' = 0
  /\ line'[0] = None => line[0] = None
  /\ line'[0] # None => wire.iv - line'[0].iv \in Lags
RegularNext ==
  \/ Begin \/ Write \/ End \/ RegularSwap
  \/ AudioArrives /\ line[2] = None
  \/ audio = wire.iv /\ \E camera \in BOOLEAN : SenderInterval(camera)

ResetNext ==
  VideoNext /\ wire'.iv \in ResetIntervals \union {0} /\ wire'.frame # NumFrames

ScenesInit == VideoInit /\ scene \in {"regular", "reset"}
ScenesNext ==
  /\ \/ scene = "regular" /\ RegularNext
     \/ scene = "reset" /\ ResetNext
  /\ UNCHANGED scene
scenesVars == <<videoVars, scene>>
ScenesSpec  == ScenesInit /\ [][ScenesNext]_scenesVars
RegularSpec == ScenesSpec /\ scene = "regular"

(* With a regular sender, and whatever its camera does, a video interval   *)
(* starts together with the audio recorded with it (header: its "first     *)
(* frame appears at the same moment the matching audio becomes audible"),  *)
(* and none is lost between two intervals that play.                       *)
InSync == [][scene = "regular" => StartsInSync /\ ContinuesInSync]_scenesVars
=============================================================================
