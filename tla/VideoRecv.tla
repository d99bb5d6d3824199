------------------------------ MODULE VideoRecv ------------------------------
(***************************************************************************)
(* The video of one remote user on its way from the wire to the screen     *)
(* (VideoRecvState, njclient.cpp): the network thread fills accumulating   *)
(* and next, an interval boundary moves next to awaiting, pending or       *)
(* playing by matching the audio interval its marker names with the user's *)
(* audio queue (AudioLine, for the channel the markers name).              *)
(*                                                                         *)
(* Video interval v is a download whose frames are 1, the sync marker that *)
(* names audio interval v - 1, 2, the decoder setup, and the pictures from *)
(* 3 on.  A buffer keeps which frames of which download it holds.  One     *)
(* WRITE carries one frame.  The boundary is one step although the code    *)
(* takes two locks in turn: what the network thread may do between the two *)
(* sections touches only what the other one does not read, so it commutes  *)
(* with one of them.                                                       *)
(***************************************************************************)
EXTENDS AudioLine, Sequences, FiniteSets

CONSTANTS NumFrames,        \* most frames of a video interval, marker included
          MarkersTagged,    \* does the sender tag its audio GUIDs
          AudioLag,         \* intervals the sender's audio may be behind its video
          HoldCap           \* kHoldCapDrop

ASSUME VideoAssumption == /\ NumFrames \in Nat /\ AudioLag \in Nat
                          /\ MarkersTagged \in BOOLEAN
                          /\ HoldCap \in Nat \ {0}

VARIABLES vs,          \* VideoRecvState of the user
          downloads,   \* m_rawdata_downloads: the video intervals being received
          wire,        \* the sender: its interval, what the wire delivered of it, and which had video
          audio,       \* last audio interval the wire delivered
          overtaken    \* the fallback has played an interval before one that waited

videoVars == <<line, hold, vs, downloads, wire, audio, overtaken>>

Frames == 1 .. NumFrames
Closed == NumFrames + 1    \* wire.frame when no video interval is open
NoGuid == -1               \* 16 zero bytes; and own_interval = -1

(* VideoRecvBuffer: dl is the interval it holds, 0 when it is not active;  *)
(* marker is the audio interval whose GUID its marker carried; ended: its  *)
(* download has ended (total_frames is set).                               *)
Buffer == [dl : Intervals \union {0}, marker : Nat \union {NoGuid},
           frames : SUBSET (Intervals \X Frames), ended : BOOLEAN,
           own_audio : BOOLEAN, own_interval : Nat \union {NoGuid}]
EmptyBuffer == [dl |-> 0, marker |-> NoGuid, frames |-> {}, ended |-> FALSE,
                own_audio |-> FALSE, own_interval |-> NoGuid]
HasFrames(b) == b.dl # 0 /\ b.frames # {}
HasGuid(b)   == b.marker # NoGuid

VideoTypeOK ==
  /\ LineTypeOK
  /\ vs \in [accumulating : Buffer, next : Buffer, pending : Buffer, playing : Buffer,
             awaiting : Seq(Buffer),
             append : Intervals \union {0}, append_to : {"playing", "pending", "next"},
             hold_count : 0 .. HoldCap - 1,
             prev_ds : Nat \union {NoGuid}, synced : BOOLEAN]
  /\ Len(vs.awaiting) <= 2
  /\ downloads \subseteq Intervals
  /\ wire \in [iv : Intervals \union {0}, frame : 0 .. Closed, video : SUBSET Intervals]
  /\ audio \in Intervals \union {0} /\ overtaken \in BOOLEAN

NewStream == [accumulating |-> EmptyBuffer, next |-> EmptyBuffer,
              pending |-> EmptyBuffer, playing |-> EmptyBuffer, awaiting |-> <<>>,
              append |-> 0, append_to |-> "playing",
              hold_count |-> 0, prev_ds |-> NoGuid, synced |-> FALSE]

VideoInit ==
  /\ LineInit
  /\ vs = NewStream
  /\ downloads = {}
  /\ wire = [iv |-> 0, frame |-> Closed, video |-> {}]
  /\ audio = 0
  /\ overtaken = FALSE
-----------------------------------------------------------------------------
(* The network thread.                                                     *)

(* Two intervals wait at most: a third makes the oldest go.                *)
Await(awaiting, b) ==
  IF Len(awaiting) = 2 THEN <<awaiting[2], b>> ELSE Append(awaiting, b)

(* The download that is appended to next, pending or playing is complete.  *)
FinishAppend(v) ==
  IF v.append = 0 THEN v
  ELSE [v EXCEPT ![v.append_to].ended = v[v.append_to].frames # {}, !.append = 0]

(* DOWNLOAD_INTERVAL_BEGIN of video interval k.  An interval still in next *)
(* waits for its own audio if its marker names any.                        *)
(* Changed: what is in next is discarded.                                  *)
BeginDownloadMutant(v, k) ==
  [FinishAppend(v) EXCEPT !.next = EmptyBuffer, !.accumulating = [EmptyBuffer EXCEPT !.dl = k]]

BeginDownload(v, k) ==
  LET w    == FinishAppend(v)
      late == [w.next EXCEPT !.own_interval =
                 IF MarkersTagged THEN w.next.marker + 1 ELSE NoGuid]
  IN [w EXCEPT !.awaiting = IF HasFrames(w.next) /\ HasGuid(w.next)
                              THEN Await(w.awaiting, late) ELSE @,
               !.next = EmptyBuffer,
               !.accumulating = [EmptyBuffer EXCEPT !.dl = k]]

(* Where a frame of interval k goes: by the GUID of its download.          *)
AwaitingAt(v, k) == {a \in 1 .. Len(v.awaiting) : v.awaiting[a].dl = k}
Route(v, k) ==
  IF v.append = k THEN v.append_to
  ELSE IF v.playing.dl = k THEN "playing"
  ELSE IF v.pending.dl = k THEN "pending"
  ELSE IF AwaitingAt(v, k) # {} THEN "awaiting"
  ELSE IF v.accumulating.dl = k THEN "accumulating"
  ELSE "nowhere"

AddFrame(b, k, f) == [b EXCEPT !.frames = @ \union {<<k, f>>}]

(* The first frame in accumulating is read as the marker, if it is one;    *)
(* then the interval starts to play, unless another one is in next.        *)
Accumulate(v, k, f) ==
  LET first == v.accumulating.frames = {}
      acc   == [AddFrame(v.accumulating, k, f) EXCEPT
                 !.marker = IF first /\ f = 1 THEN k - 1 ELSE @]
  IN IF v.append = 0 /\ v.next.dl = 0
       THEN [v EXCEPT !.next = acc, !.append = k, !.append_to = "next",
                      !.accumulating = [acc EXCEPT !.frames = {}]]
       ELSE [v EXCEPT !.accumulating = acc]

(* DOWNLOAD_INTERVAL_WRITE: one frame.                                     *)
WriteFrame(v, k, f) ==
  LET to == Route(v, k) IN
  IF to = "nowhere" THEN v
  ELSE IF to = "accumulating" THEN Accumulate(v, k, f)
  ELSE IF to = "awaiting"
    THEN LET a == CHOOSE a \in AwaitingAt(v, k) : \A b \in AwaitingAt(v, k) : a <= b
         IN [v EXCEPT !.awaiting[a] = AddFrame(@, k, f)]
  ELSE [v EXCEPT ![to] = AddFrame(@, k, f), !.append = k, !.append_to = to]

(* DOWNLOAD_INTERVAL_WRITE with the end flag.  What is left in             *)
(* accumulating replaces next.                                             *)
EndDownload(v, k) ==
  IF AwaitingAt(v, k) # {}
    THEN [v EXCEPT !.awaiting = [a \in DOMAIN @ |->
            IF @[a].dl = k THEN [@[a] EXCEPT !.ended = TRUE] ELSE @[a]]]
  ELSE IF v.append = k THEN FinishAppend(v)
  ELSE IF v.accumulating.dl # k THEN v       \* findVideoStreamByGUID finds none
  ELSE [v EXCEPT !.next = IF Cardinality(v.accumulating.frames) > 1
                            THEN [v.accumulating EXCEPT !.ended = TRUE] ELSE @,
                 !.accumulating = EmptyBuffer]

Begin ==
  /\ wire.frame = 0
  /\ wire.iv \notin downloads
  /\ vs' = BeginDownload(vs, wire.iv)
  /\ downloads' = downloads \union {wire.iv}
  /\ UNCHANGED <<line, hold, wire, audio, overtaken>>

Write ==
  /\ wire.iv \in downloads
  /\ wire.frame < NumFrames
  /\ wire' = [wire EXCEPT !.frame = @ + 1]
  /\ vs' = WriteFrame(vs, wire.iv, wire.frame + 1)
  /\ UNCHANGED <<line, hold, downloads, audio, overtaken>>

End ==
  /\ wire.iv \in downloads
  /\ wire.frame >= 1
  /\ wire' = [wire EXCEPT !.frame = Closed]
  /\ vs' = EndDownload(vs, wire.iv)
  /\ downloads' = downloads \ {wire.iv}
  /\ UNCHANGED <<line, hold, audio, overtaken>>

(* The sender's next interval, with its camera on or off.  Its audio may   *)
(* be a little late (its last blocks follow the video's first ones).       *)
SenderInterval(camera) ==
  /\ wire.frame # 0 /\ wire.iv \notin downloads
  /\ wire.iv + 1 \in Intervals
  /\ audio >= wire.iv - AudioLag
  /\ wire' = [iv |-> wire.iv + 1, frame |-> IF camera THEN 0 ELSE Closed,
              video |-> wire.video \union (IF camera THEN {wire.iv + 1} ELSE {})]
  /\ UNCHANGED <<line, hold, vs, downloads, audio, overtaken>>

AudioArrives ==
  /\ audio < wire.iv
  /\ audio' = audio + 1
  /\ \E s \in Sessions : Receive([sess |-> s, iv |-> audio + 1,
                                  tagged |-> MarkersTagged, fresh |-> FALSE])
  /\ UNCHANGED <<vs, downloads, wire, overtaken>>

(* The user leaves: most of the stream is reset, its downloads released.   *)
Leave ==
  /\ Flush
  /\ vs' = [vs EXCEPT !.accumulating = EmptyBuffer, !.next = EmptyBuffer,
                      !.pending = EmptyBuffer, !.awaiting = <<>>,
                      !.hold_count = 0, !.prev_ds = NoGuid, !.synced = FALSE]
  /\ downloads' = {} /\ overtaken' = FALSE
  /\ UNCHANGED <<wire, audio>>

(* ResetAllVideoSyncState: the app comes to the foreground.                *)
Foreground ==
  /\ vs' = NewStream /\ overtaken' = FALSE
  /\ UNCHANGED <<line, hold, downloads, wire, audio>>
-----------------------------------------------------------------------------
(* The interval boundary: on_new_interval.  The line has advanced.         *)

Guid(e) == IF e = None THEN NoGuid ELSE e.iv

(* audioQueuePosition: the smallest slot, plus the wait; -1 is none.       *)
Position(q, h, g) ==
  LET at == {i \in SlotIdx : Guid(q[i]) = g} IN
  IF g = NoGuid \/ at = {} THEN -1 ELSE h + CHOOSE i \in at : \A j \in at : i <= j
Passed(q, g) == \E i \in SlotIdx : q[i] # None /\ q[i].iv > g

(* Stage 1: what matched at the last boundary plays.                       *)
(* Changed: the frames go on to pending.                                   *)
PromoteMutant(v) ==
  IF HasFrames(v.pending) THEN [v EXCEPT !.playing = v.pending, !.pending = EmptyBuffer] ELSE v

(* Changed: what has been promoted stays in pending.                       *)
PromoteMutant2(v) ==
  LET w == IF HasFrames(v.pending) THEN [v EXCEPT !.playing = v.pending] ELSE v
  IN [w EXCEPT !.append = 0, !.append_to = "playing"]

Promote(v) ==
  LET w == IF HasFrames(v.pending)
             THEN [v EXCEPT !.playing = v.pending, !.pending = EmptyBuffer] ELSE v
  IN [w EXCEPT !.append = 0, !.append_to = "playing"]

Play(v, b) == [v EXCEPT !.playing = b, !.synced = TRUE]
Defer(v, b) == [v EXCEPT !.pending = b, !.synced = TRUE, !.append = b.dl, !.append_to = "pending"]

(* Stage 1b: the oldest interval that waits; done says the stage is over.  *)
AwaitStep(v, q, h) ==
  LET b    == Head(v.awaiting)
      rest == [v EXCEPT !.awaiting = Tail(@)]
      own  == b.own_interval # NoGuid
      pos  == Position(q, h, IF own THEN b.own_interval ELSE b.marker)
  IN IF \/ v.awaiting = <<>>
        \/ pos > 0
        \/ pos < 0 /\ own /\ ~Passed(q, b.own_interval)
       THEN [v |-> v, done |-> TRUE]
     ELSE IF pos < 0 THEN [v |-> rest, done |-> FALSE]
     ELSE IF own \/ b.own_audio THEN [v |-> Play(rest, b), done |-> FALSE]
     ELSE [v |-> Defer(rest, b), done |-> TRUE]
Awaited(v, q, h) ==
  LET s == AwaitStep(v, q, h) IN IF s.done THEN s.v ELSE AwaitStep(s.v, q, h).v

(* Stage 2: the interval in next against the audio.                        *)
AudioWaits(b, q, h) ==
  MarkersTagged /\ HasGuid(b) /\ h > 0 /\ Guid(q[0]) \in {b.marker, b.marker + 1}

(* A changed MatchNext: what matches the audio plays at once.              *)
MatchNextMutant(v, q, h) ==
  LET b == v.next
      moved == [v EXCEPT !.next = EmptyBuffer, !.hold_count = 0, !.prev_ds = Guid(Heard(q, h))]
  IN IF Heard(q, h) = None THEN [v EXCEPT !.hold_count = 0]
     ELSE IF b.marker \in {Guid(Heard(q, h)), v.prev_ds} THEN Play(moved, b)
     ELSE IF Position(q, h, b.marker) > 0 THEN [moved EXCEPT !.awaiting = Await(@, b)]
     ELSE moved

MatchNext(v, q, h) ==
  LET b     == v.next
      ds    == Guid(Heard(q, h))
      ahead == Guid(q[0]) = b.marker + 1
      w     == [v EXCEPT !.prev_ds = ds]
      moved == [w EXCEPT !.next = EmptyBuffer, !.hold_count = 0]
  IN IF AudioWaits(b, q, h) THEN
       [v EXCEPT !.next = EmptyBuffer,
                 !.awaiting = Await(@, IF ahead THEN [b EXCEPT !.marker = @ + 1, !.own_audio = TRUE]
                                       ELSE b)]
     ELSE IF ds = NoGuid THEN [w EXCEPT !.hold_count = 0]
     ELSE IF b.marker = ds THEN Defer(moved, b)
     ELSE IF ~HasGuid(b) \/ v.prev_ds = b.marker THEN Play(moved, b)
     ELSE IF Position(q, h, b.marker) > 0 THEN [moved EXCEPT !.awaiting = Await(@, b)]
     ELSE IF v.hold_count + 1 >= HoldCap THEN [moved EXCEPT !.synced = FALSE]
     ELSE [w EXCEPT !.hold_count = @ + 1]

(* No interval in next: what accumulates may start, if the video is in     *)
(* sync and the user's first channel sounds.                               *)
Fallback(v, q, h) ==
  IF v.accumulating.dl = 0 \/ v.accumulating.frames = {} THEN [v EXCEPT !.hold_count = 0]
  ELSE IF Heard(q, h) = None \/ ~v.synced THEN v
  ELSE [v EXCEPT !.hold_count = 0, !.playing = v.accumulating,
                 !.append = v.accumulating.dl, !.append_to = "playing",
                 !.accumulating.frames = {}]

SwapVideo(v, q, h) ==
  LET w == Awaited(Promote(v), q, h)
  IN IF HasFrames(w.next) THEN MatchNext(w, q, h) ELSE Fallback(w, q, h)

(* Only the fallback leaves append at playing.  It overtakes what waits.   *)
Undecided(v) == {v.pending} \union {v.awaiting[a] : a \in DOMAIN v.awaiting}
FellBack(v)  == v.append # 0 /\ v.append_to = "playing"
Overtakes(v) == FellBack(v) /\ \E b \in Undecided(v) : b.dl \notin {0, v.playing.dl}

Swap(listening) ==
  /\ Boundary(listening)
  /\ vs' = SwapVideo(vs, line', hold')
  /\ overtaken' = (overtaken \/ Overtakes(vs'))
  /\ UNCHANGED <<downloads, wire, audio>>

VideoNext ==
  \/ Begin \/ Write \/ End \/ AudioArrives \/ Leave \/ Foreground
  \/ \E camera \in BOOLEAN : SenderInterval(camera)
  \/ \E listening \in BOOLEAN : Swap(listening)

VideoSpec == VideoInit /\ [][VideoNext]_videoVars
-----------------------------------------------------------------------------
(* Properties.                                                             *)

Sounds(q, h) == Guid(Heard(q, h))

(* Frames are routed by the GUID of their download, or by the append       *)
(* flags: no buffer ever mixes two intervals, whatever was reset while the *)
(* download went on.                                                       *)
Buffers == {vs.accumulating, vs.next, vs.pending, vs.playing}
           \union {vs.awaiting[a] : a \in DOMAIN vs.awaiting}
OneDownload == \A b \in Buffers : \A f \in b.frames : f[1] = b.dl

(* The pacing counts on it: "frame 0 = sender interval marker", "Frame 1 = *)
(* SPS/PPS (decoder setup, no visual). Frame 2 = IDR (first visible)": what*)
(* plays starts with the marker, and no frame inside it is missing.        *)
PlaysFromMarker ==
  \A f \in vs.playing.frames : \A g \in 1 .. f[2] : <<f[1], g>> \in vs.playing.frames

(* The screen never goes back to an earlier interval, unless the fallback  *)
(* has played one before those that waited for their audio: it looks at    *)
(* next alone, not at awaiting and pending.                                *)
VideoForward ==
  [][vs'.playing.dl # 0 /\ ~overtaken => vs'.playing.dl >= vs.playing.dl]_videoVars

(* A video interval starts together with the audio recorded with it: so it *)
(* is as long as the network does not stall (module MCVideoRecv).          *)
Starts == vs'.playing.dl \notin {0, vs.playing.dl}
StartsInSync == Starts => Sounds(line', hold') = vs'.playing.dl

(* "Require an established sync (vs->synced) to avoid playing video earlier*)
(* than its corresponding audio": so is the fallback meant.                *)
FallbackInTime ==
  [][(\E listening \in BOOLEAN : Swap(listening)) /\ FellBack(vs')
       => vs'.playing.dl <= Sounds(line', hold')]_videoVars

(* Once an interval plays with its video, the next one does too, if it has *)
(* any.  (prev_ds_guid must be up to date: it is not after a boundary that *)
(* found next empty.)                                                      *)
ContinuesInSync ==
  /\ Sounds(line', hold') = Sounds(line, hold) + 1
  /\ Sounds(line, hold) = vs.playing.dl /\ vs.prev_ds = vs.playing.dl
  /\ Sounds(line', hold') \in wire.video
  => vs'.playing.dl = Sounds(line', hold')
=============================================================================
