----------------------------- MODULE MCVideoSend -----------------------------
(* Instances of VideoSend for TLC: few of everything.  The threads of the  *)
(* video and those of the audio meet only at the marker, so a run takes    *)
(* one of three scenes: a camera that comes and goes while no channel      *)
(* transmits (three boundaries, two once its threads have met); channels   *)
(* and connections that come and go, between the boundaries, while a camera*)
(* that is on from the beginning delivers nothing and the audio encoder    *)
(* holds nothing back; or, without a camera, one channel in each of its    *)
(* modes and everything LocalUpload does to it.                            *)
EXTENDS VideoSend

VARIABLE scene

UploadModes == {{}, {"live"}, {"session"}}

(* With a camera: interval mode, one block of each channel.                *)
WithCamera ==
  /\ VideoNext
  /\ \A ch \in Local : Interval(lc'[ch]) /\ server'[ch].recorded <= 1

CameraScene ==
  /\ WithCamera
  /\ conn' = "on" /\ \A ch \in Local : ~lc'[ch].broadcasting
  /\ hurried' => loopcnt' <= 2

ChannelScene ==
  /\ WithCamera
  /\ camera' = "idle" /\ ~vid'.sps
  /\ \A ch \in Local : up'[ch].pending = <<>>
  /\ audio.at # "idle" => UNCHANGED <<lc, wire>>
  /\ used'.starts <= 1 /\ vid'.active = (used'.starts = 1)
  /\ used'.starts = 0 \/ app'.at # "idle" => UNCHANGED vars

UploadScene ==
  /\ Next /\ UNCHANGED <<video, spoke>>
  /\ loopcnt' <= 2
  /\ \A ch \in Local \ {0} : lc'[ch] = lc[ch]

SceneInit ==
  /\ scene \in {"camera", "channels", "uploads"}
  /\ VideoInit
  /\ \A ch \in Local : Interval(lc[ch]) \/ (ch = 0 /\ scene = "uploads")
SceneNext ==
  /\ \/ scene = "camera" /\ CameraScene
     \/ scene = "channels" /\ ChannelScene
     \/ scene = "uploads" /\ UploadScene
  /\ UNCHANGED scene
SceneSpec == SceneInit /\ [][SceneNext]_<<vvars, scene>>
=============================================================================
