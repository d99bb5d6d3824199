------------------------------ MODULE VideoSend ------------------------------
(***************************************************************************)
(* The camera's video on its way to the server (njclient.cpp), beside the  *)
(* audio uploads of LocalUpload.  Three threads queue messages:            *)
(*   - the audio thread, at a boundary, ends one video interval and begins *)
(*     the next with a sync marker: the GUID of the audio upload that just *)
(*     ended (on_new_interval);                                            *)
(*   - the app turns the camera on and off (SetVideoChannel, Stop...);     *)
(*   - the camera's encoder delivers frames and their setup (SPS/PPS).     *)
(* They share the fields of "vid" without a lock.  Run sends what is       *)
(* queued, after the audio.                                                *)
(***************************************************************************)
EXTENDS LocalUpload, FiniteSetsExt

CONSTANTS MaxStarts,   \* bound: calls of SetVideoChannel
          MaxSetups,   \* bound: calls of SetVideoSPSPPS
          MaxFrames    \* bound: frames the camera delivers

VARIABLES vid,      \* m_video_active, m_video_interval_open, m_video_guid, m_video_spspps
          audio,    \* where the audio thread is in the video part of on_new_interval
          app,      \* where the app is in SetVideoChannel
          camera,   \* where the encoder is in QueueVideoFrame
          sendq,    \* m_rawdata_sendq
          wire,     \* the last message Run has sent
          bounds,   \* the begins and ends queued of m_video_guid
          used,     \* GUIDs drawn, and calls of each kind so far
          spoke,    \* the last interval a block of each channel was queued in, since its
                    \* queue was cleared
          hurried   \* two of the three threads have been under way at once

raw    == <<sendq, wire, bounds>>
video  == <<vid, audio, app, camera, raw, used, hurried>>
vvars  == <<vars, video, spoke>>

VideoGuid == 1 .. MaxLoop + MaxStarts
Message(kind, guid) == [kind |-> kind, guid |-> guid, names |-> ZeroGuid]
Idle   == [at |-> "idle", guid |-> 0, past |-> FALSE]

VideoInit ==
  /\ Init
  /\ vid = [active |-> FALSE, open |-> FALSE, guid |-> 0, sps |-> FALSE]
  /\ audio = Idle /\ app = Idle /\ camera = "idle"
  /\ sendq = <<>> /\ wire = <<>> /\ bounds = <<>>
  /\ used = [guids |-> 0, starts |-> 0, setups |-> 0, frames |-> 0]
  /\ spoke = [ch \in Local |-> Untagged]
  /\ hurried = FALSE

(* RawDataSendWrite, and the second half of RawDataSendBegin.              *)
Queue(message) ==
  /\ sendq' = Append(sendq, message)
  /\ bounds' = IF message.guid = vid.guid /\ message.kind \in {"begin", "end"}
               THEN Append(bounds, message.kind) ELSE bounds
  /\ UNCHANGED wire

(* The first half of RawDataSendBegin: a new GUID, in m_video_guid before  *)
(* its BEGIN is queued.                                                    *)
DrawGuid(thread, next) ==
  LET guid == used.guids + 1 IN
  /\ vid' = [vid EXCEPT !.guid = guid]
  /\ used' = [used EXCEPT !.guids = guid]
  /\ bounds' = <<>> /\ UNCHANGED <<sendq, wire>>
  /\ thread' = [thread EXCEPT !.at = next, !.guid = guid]
-----------------------------------------------------------------------------
(* The audio thread: LocalUpload's Boundary is the first part of           *)
(* on_new_interval, the steps below the video part.  m_interval_pos is set *)
(* to zero only when it returns.                                           *)
VideoBoundary ==
  /\ audio.at = "idle"
  /\ Boundary
  /\ audio' = [Idle EXCEPT !.at = "active", !.past = pos = 2]
  /\ UNCHANGED <<vid, app, camera, raw, used, spoke>>

AudioActive ==
  /\ audio.at = "active"
  /\ audio' = [audio EXCEPT !.at = IF vid.active THEN "end" ELSE "stop"]
  /\ UNCHANGED <<vars, vid, app, camera, raw, used, spoke>>

AfterEndMutant(open) == IF audio.at = "end" THEN "draw" ELSE "idle"
AfterEnd(open) == IF audio.at = "end" THEN "draw" ELSE IF open THEN "close" ELSE "idle"

AudioEnd ==
  /\ audio.at \in {"end", "stop"}
  /\ audio' = [audio EXCEPT !.at = AfterEnd(vid.open)]
  /\ IF vid.open THEN Queue(Message("end", vid.guid)) ELSE UNCHANGED raw
  /\ UNCHANGED <<vars, vid, app, camera, used, spoke>>

AudioDraw ==
  /\ audio.at = "draw"
  /\ DrawGuid(audio, "begin")
  /\ UNCHANGED <<vars, app, camera, spoke>>

AudioBegin ==
  /\ audio.at = "begin"
  /\ Queue(Message("begin", audio.guid))
  /\ vid' = [vid EXCEPT !.open = TRUE]
  /\ audio' = [audio EXCEPT !.at = "marker"]
  /\ UNCHANGED <<vars, app, camera, used, spoke>>

(* The marker names the upload of the lowest interval-mode channel that has*)
(* a GUID, and no upload if there is none.                                 *)
MarkerOfMutant(cs) == up[0].guid        \* channel 0 alone
MarkerOf(cs) ==
  LET uploading == {ch \in cs : Interval(lc[ch]) /\ up[ch].guid # ZeroGuid} IN
  IF uploading = {} THEN ZeroGuid ELSE up[Min(uploading)].guid

(* Run writes the GUID without m_locchan_cs: read at that moment it is     *)
(* nobody's.                                                               *)
TornGuid == [n |-> MaxBlocks + 1, tag |-> Untagged]
BeingWritten(ch) ==
  /\ run = ch /\ Interval(lc[ch]) /\ bq[ch] # <<>>
  /\ \/ Head(bq[ch]) = SILENCE
     \/ Head(bq[ch]).kind = "audio" /\ up[ch].need_header
Marker == {MarkerOf(Local)} \union
          (IF \E ch \in Local : BeingWritten(ch) THEN {TornGuid} ELSE {})

AudioMarker ==
  /\ audio.at = "marker"
  /\ \E guid \in Marker : Queue([kind |-> "marker", guid |-> vid.guid, names |-> guid])
  /\ audio' = [audio EXCEPT !.at = "setup"]
  /\ UNCHANGED <<vars, vid, app, camera, used, spoke>>

AudioSetup ==
  /\ audio.at = "setup"
  /\ IF vid.sps THEN Queue(Message("setup", vid.guid)) ELSE UNCHANGED raw
  /\ audio' = Idle
  /\ UNCHANGED <<vars, vid, app, camera, used, spoke>>

AudioClose ==
  /\ audio.at = "close"
  /\ vid' = [vid EXCEPT !.open = FALSE]
  /\ audio' = Idle
  /\ UNCHANGED <<vars, app, camera, raw, used, spoke>>

(* A block of every channel, between two boundaries.                       *)
VideoSamples(long) ==
  /\ audio.at = "idle"
  /\ ProcessSamples(long, FALSE, FALSE)
  /\ spoke' = [ch \in Local |->
                IF bq'[ch] # <<>> /\ bq'[ch] # bq[ch] /\ bq'[ch][Len(bq'[ch])].kind = "audio"
                THEN loopcnt ELSE spoke[ch]]
  /\ UNCHANGED <<vid, audio, app, camera, raw, used>>
-----------------------------------------------------------------------------
(* The app.                                                                *)

SetVideoChannel ==
  /\ app.at = "idle" /\ used.starts < MaxStarts
  /\ vid' = [vid EXCEPT !.active = TRUE]
  /\ used' = [used EXCEPT !.starts = @ + 1]
  /\ app' = [app EXCEPT !.at = "check"]
  /\ UNCHANGED <<vars, audio, camera, raw, spoke>>

(* In mid-interval, with the setup at hand, it begins an interval itself.  *)
MidInterval == pos # 0 /\ (IF audio.at = "idle" THEN pos = 2 ELSE audio.past)

MayOpenMutant(v) == MidInterval /\ v.sps
MayOpen(v) == ~v.open /\ MidInterval /\ v.sps

AppCheck ==
  /\ app.at = "check"
  /\ app' = [app EXCEPT !.at = IF MayOpen(vid) THEN "draw" ELSE "idle"]
  /\ UNCHANGED <<vars, vid, audio, camera, raw, used, spoke>>

AppDraw ==
  /\ app.at = "draw"
  /\ DrawGuid(app, "begin")
  /\ UNCHANGED <<vars, audio, camera, spoke>>

AppBegin ==
  /\ app.at = "begin"
  /\ Queue(Message("begin", app.guid))
  /\ vid' = [vid EXCEPT !.open = TRUE]
  /\ app' = [app EXCEPT !.at = "setup"]
  /\ UNCHANGED <<vars, audio, camera, used, spoke>>

(* The setup may have been cleared meanwhile: an empty WRITE.              *)
AppSetup ==
  /\ app.at = "setup"
  /\ Queue(Message(IF vid.sps THEN "setup" ELSE "empty", vid.guid))
  /\ app' = Idle
  /\ UNCHANGED <<vars, vid, audio, camera, used, spoke>>

StopVideoChannel ==
  /\ app.at = "idle" /\ vid.active
  /\ vid' = [vid EXCEPT !.active = FALSE]
  /\ UNCHANGED <<vars, audio, app, camera, raw, used, spoke>>
-----------------------------------------------------------------------------
(* The camera's encoder.                                                   *)

SetVideoSPSPPS(there) ==
  /\ camera = "idle" /\ vid.sps # there /\ used.setups < MaxSetups
  /\ vid' = [vid EXCEPT !.sps = there]
  /\ used' = [used EXCEPT !.setups = @ + 1]
  /\ UNCHANGED <<vars, audio, app, camera, raw, spoke>>

(* QueueVideoFrame: the test, then the WRITE under the GUID of that moment.*)
FrameCheck ==
  /\ camera = "idle" /\ used.frames < MaxFrames
  /\ vid.active /\ vid.open
  /\ camera' = "frame"
  /\ used' = [used EXCEPT !.frames = @ + 1]
  /\ UNCHANGED <<vars, vid, audio, app, raw, spoke>>

FrameQueue ==
  /\ camera = "frame"
  /\ Queue(Message("frame", vid.guid))
  /\ camera' = "idle"
  /\ UNCHANGED <<vars, vid, audio, app, used, spoke>>
-----------------------------------------------------------------------------
(* Run: when the channels are done, all that is queued for the video.      *)
Drain ==
  /\ wire' = IF sendq = <<>> THEN wire ELSE <<sendq[Len(sendq)]>>
  /\ sendq' = <<>> /\ UNCHANGED bounds

RunAudio ==
  /\ \/ RunStart
     \/ RunNextChannel /\ run' # NotRunning
     \/ EncodeSilence \/ EncodeAudio \/ EncodeEnd
  /\ UNCHANGED <<vid, audio, app, camera, raw, used, spoke>>

RunEnds ==
  /\ RunNextChannel /\ run' = NotRunning
  /\ Drain
  /\ UNCHANGED <<vid, audio, app, camera, used, spoke>>

RunVideo ==
  /\ conn = "on" /\ run = NotRunning /\ sendq # <<>>
  /\ \A ch \in Local : bq[ch] = <<>>
  /\ Drain
  /\ UNCHANGED <<vars, vid, audio, app, camera, used, spoke>>

(* The channels and the connection, by the app too, one call at a time.    *)
(* Disconnect leaves the video alone.                                      *)
Controls ==
  /\ app.at = "idle"
  /\ \/ \E ch \in Local, broadcast \in BOOLEAN, f \in LocalModes : SetLocalChannelInfo(ch, broadcast, f)
     \/ Reconnect
  /\ UNCHANGED <<vid, audio, app, camera, raw, used, spoke>>

Leave ==
  /\ app.at = "idle"
  /\ Disconnect
  /\ spoke' = [ch \in Local |-> Untagged]
  /\ UNCHANGED <<vid, audio, app, camera, raw, used>>

RemoveChannel(ch) ==
  /\ app.at = "idle"
  /\ DeleteLocalChannel(ch)
  /\ spoke' = [spoke EXCEPT ![ch] = Untagged]
  /\ UNCHANGED <<vid, audio, app, camera, raw, used>>

Busy == {t \in {"audio", "app", "camera"} :
           CASE t = "audio"  -> audio.at # "idle"
             [] t = "app"    -> app.at # "idle"
             [] t = "camera" -> camera # "idle"}

VideoNext ==
  /\ \/ VideoBoundary
     \/ AudioActive \/ AudioEnd \/ AudioDraw \/ AudioBegin \/ AudioMarker \/ AudioSetup \/ AudioClose
     \/ \E long \in SUBSET Local : VideoSamples(long)
     \/ SetVideoChannel \/ AppCheck \/ AppDraw \/ AppBegin \/ AppSetup \/ StopVideoChannel
     \/ \E there \in BOOLEAN : SetVideoSPSPPS(there)
     \/ FrameCheck \/ FrameQueue
     \/ RunAudio \/ RunEnds \/ RunVideo
     \/ Controls \/ Leave
     \/ \E ch \in Local : RemoveChannel(ch)
  /\ hurried' = (hurried \/ Cardinality(Busy') > 1)

VideoSpec == VideoInit /\ [][VideoNext]_vvars
-----------------------------------------------------------------------------
(* The types.  What is sent always belongs to an interval with a GUID.     *)
SendTypeOK ==
  /\ vid \in [active : BOOLEAN, open : BOOLEAN, guid : {0} \union VideoGuid, sps : BOOLEAN]
  /\ audio.at \in {"idle", "active", "end", "stop", "draw", "begin", "marker", "setup", "close"}
  /\ app.at \in {"idle", "check", "draw", "begin", "setup"}
  /\ \A i \in DOMAIN sendq : sendq[i].guid \in VideoGuid

(* VIDEO_SYNC.md section 4: END, then BEGIN, marker and setup, then frames,*)
(* and the next END.  So goes the video, interval after interval, while no *)
(* two threads are in the video calls at once: whatever the order of       *)
(* starts, stops, frames, setups and boundaries, and over reconnects.      *)
MayFollow(a, b) ==
  IF b.kind = "begin" THEN a.kind = "end"
  ELSE /\ a.guid = b.guid /\ a.kind # "end"
       /\ b.kind = "marker" => a.kind = "begin"
       /\ b.kind = "setup" => a.kind \in {"begin", "marker"}
VideoInOrder ==
  LET pending == wire \o sendq IN
  ~hurried => /\ wire = <<>> /\ sendq # <<>> => sendq[1].kind = "begin"
              /\ \A i \in 2 .. Len(pending) : MayFollow(pending[i - 1], pending[i])

(* However they race, when all of them are done the flag tells the truth:  *)
(* the interval that is open has begun once and not ended, so that the next*)
(* boundary ends it and a frame has somewhere to go; and none is left open *)
(* when the flag is down.                                                  *)
OpenIsBegun ==
  Busy = {} /\ vid.guid # 0 =>
    bounds = IF vid.open THEN <<"begin">> ELSE <<"begin", "end">>

(* A receiver takes the video for whole intervals: both.                   *)
VideoFramed == VideoInOrder /\ OpenIsBegun

(* Section 6: the marker names the audio that ended as the video interval  *)
(* began.  It never names a later one; and it names that one when Run has  *)
(* encoded what was recorded before the boundary, somebody who recorded in *)
(* it goes on transmitting, and nobody who goes on has lost all of his     *)
(* audio of it to a full queue: such a channel keeps the GUID of an older  *)
(* interval, and the marker may name that.  VideoRecv relies on it.        *)
KeptUp == \A ch \in Local : bq[ch] \in {<<>>, <<END>>} /\ server[ch].steady
GoesOn(ch) == Interval(lc[ch]) /\ lc[ch].bcast_active
Spoke(ch)  == spoke[ch] = loopcnt - 1
Missed(ch) == GoesOn(ch) /\ up[ch].guid # ZeroGuid /\ ~Spoke(ch)
MarkerNamesLast ==
  [][AudioMarker =>
       LET names == sendq'[Len(sendq')].names.tag IN
       /\ names < loopcnt \/ names = Untagged
       /\ KeptUp /\ (\E ch \in Local : GoesOn(ch) /\ Spoke(ch)) /\ ~(\E ch \in Local : Missed(ch))
            => names = loopcnt - 1]_vvars
=============================================================================
