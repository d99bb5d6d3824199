------------------------------ MODULE VideoPump ------------------------------
(***************************************************************************)
(* Video frames on their way to the screen: the delivery at the end of     *)
(* every block that AudioProc mixes (njclient.cpp), for one stream.  The   *)
(* frames of the interval that plays are spread over the local interval:   *)
(* frame 0 is the marker, frame 1 SPS/PPS, frame 2 the first picture, and  *)
(* the others follow evenly, as many as the interval has, or had the last  *)
(* one while its end is not there.  In voice chat every frame waits a      *)
(* fixed time.  What plays at a swap is told by module VideoRecv; here it  *)
(* is any interval, whole or still coming in.                              *)
(***************************************************************************)
EXTENDS Integers, Sequences, FiniteSetsExt

CONSTANTS Samples,     \* m_interval_length
          MaxFrames,   \* bound: frames of an interval
          LiveDelay,   \* VIDEO_LIVE_DELAY_MS
          MaxLive      \* bound: frames that wait in voice chat

ASSUME VideoPumpAssumption ==
  {Samples, MaxFrames, LiveDelay, MaxLive} \subseteq Nat \ {0}

VARIABLES
  place,             \* m_interval_pos
  clip,              \* playing: frames that are there, total_frames (0 while it streams)
  frame_idx,         \* the next frame to deliver
  expected_frames,   \* frames of the last download that ended
  live_delay_q,      \* how long each frame still waits
  punctual           \* history: the clip was whole when the last block began

pumpVars == <<place, clip, frame_idx, expected_frames, live_delay_q, punctual>>

NoClip == [ready |-> 0, total |-> 0]
Clips  == {c \in [ready : 0 .. MaxFrames, total : 0 .. MaxFrames] : c.total \in {0, c.ready}}

VideoPumpInit ==
  /\ place = 0 /\ clip = NoClip /\ frame_idx = 0 /\ expected_frames = 0
  /\ live_delay_q = <<>> /\ punctual = FALSE
-----------------------------------------------------------------------------
(* The network thread: a frame of the interval that plays, its end, the end*)
(* of another one, and a frame of voice chat.                              *)
FrameComes ==
  /\ clip.total = 0 /\ clip.ready \in 1 .. MaxFrames - 1
  /\ clip' = [clip EXCEPT !.ready = @ + 1]
  /\ UNCHANGED <<place, frame_idx, expected_frames, live_delay_q, punctual>>

ClipEnds ==
  /\ clip.total = 0 /\ clip.ready > 0
  /\ clip' = [clip EXCEPT !.total = clip.ready]
  /\ expected_frames' = clip.ready
  /\ UNCHANGED <<place, frame_idx, live_delay_q, punctual>>

OtherEnds ==
  /\ expected_frames' \in 1 .. MaxFrames
  /\ UNCHANGED <<place, clip, frame_idx, live_delay_q, punctual>>

LiveFrame ==
  /\ Len(live_delay_q) < MaxLive
  /\ live_delay_q' = Append(live_delay_q, LiveDelay)
  /\ UNCHANGED <<place, clip, frame_idx, expected_frames, punctual>>

Wait ==
  /\ \E i \in DOMAIN live_delay_q : live_delay_q[i] > 0
  /\ live_delay_q' = [i \in DOMAIN live_delay_q |-> Max({0, live_delay_q[i] - 1})]
  /\ UNCHANGED <<place, clip, frame_idx, expected_frames, punctual>>

(* ResetAllVideoSyncState.                                                 *)
ResetVideo ==
  /\ clip' = NoClip /\ frame_idx' = 0 /\ expected_frames' = 0 /\ live_delay_q' = <<>>
  /\ punctual' = FALSE
  /\ UNCHANGED place
-----------------------------------------------------------------------------
(* How many frames to spread: the interval's own, the last one's, or what  *)
(* is there.  Changed: the last one's come first.                          *)
ExpectedMutant ==
  IF expected_frames > 0 THEN expected_frames ELSE IF clip.total > 0 THEN clip.total ELSE clip.ready
Expected ==
  IF clip.total > 0 THEN clip.total ELSE IF expected_frames > 0 THEN expected_frames ELSE clip.ready

(* From where on in the interval frame f is shown.                         *)
Threshold(f) ==
  IF f <= 2 THEN 0 ELSE ((f - 2) * Samples) \div (IF Expected > 2 THEN Expected - 2 ELSE 1)

(* The first frame from f on that is not there yet or has to wait.         *)
NextFrame(at) ==
  Min({f \in frame_idx .. clip.ready : f = clip.ready \/ Threshold(f) > at})

(* The frames whose time has come, from the front of the line.             *)
Waiting(q) ==
  LET n == Min({i \in 0 .. Len(q) : i = Len(q) \/ q[i + 1] > 0}) IN SubSeq(q, n + 1, Len(q))

(* A block of AudioProc.                                                   *)
Block(len) ==
  /\ place + len <= Samples
  /\ place' = place + len
  /\ live_delay_q' = Waiting(live_delay_q)
  /\ frame_idx' = NextFrame(place + len)
  /\ punctual' = (clip.total > 0)
  /\ UNCHANGED <<clip, expected_frames>>

(* on_new_interval: another interval plays, or the last one stays.         *)
NextClip ==
  /\ place = Samples /\ place' = 0 /\ punctual' = FALSE
  /\ \/ UNCHANGED <<clip, frame_idx>>
     \/ clip' \in {c \in Clips : c.ready > 0} /\ frame_idx' = 0
  /\ UNCHANGED <<expected_frames, live_delay_q>>
-----------------------------------------------------------------------------
VideoPumpNext ==
  \/ FrameComes \/ ClipEnds \/ OtherEnds \/ LiveFrame \/ Wait \/ ResetVideo
  \/ \E len \in 1 .. Samples : Block(len)
  \/ NextClip

VideoPumpSpec == VideoPumpInit /\ [][VideoPumpNext]_pumpVars
-----------------------------------------------------------------------------
(* Properties.                                                             *)

(* No frame is left over at the end of an interval that was whole in time, *)
(* however its frames, its end and the ends of others came in between, and *)
(* whatever number it was paced by before.                                 *)
AllShown == place = Samples /\ punctual => frame_idx = clip.ready
=============================================================================
