----------------------------- MODULE LocalUpload -----------------------------
(***************************************************************************)
(* The local channels on their way to the server (njclient.cpp):           *)
(*   - the audio thread cuts what is recorded into blocks (process_samples)*)
(*     and marks the ends of uploads in each channel's BufferQueue: at the *)
(*     interval boundary, or by itself in voice chat and session mode;     *)
(*   - the network thread (Run) takes the blocks one at a time, encodes    *)
(*     them and sends BEGIN, WRITE and END messages;                       *)
(*   - the UI changes a channel, deletes it, or disconnects.               *)
(* The adapter serialises Run and the UI calls (gsMtx); the audio thread   *)
(* runs between any two blocks.                                            *)
(*                                                                         *)
(* "server" is what the server has received of each channel.               *)
(***************************************************************************)
EXTENDS Naturals, Sequences, FiniteSets

CONSTANTS NumLocal,       \* local channels, all below m_max_localch
          LocalModes,     \* the channel flags that occur
          QueueCap,       \* 512: blocks a queue holds before it drops audio
          MaxLoop,        \* bound: interval boundaries
          MaxBlocks,      \* bound: audio blocks recorded by a channel
          MaxConnections  \* bound

Local == 0 .. NumLocal - 1
NotRunning == NumLocal

ASSUME UploadAssumption ==
  /\ NumLocal \in Nat /\ QueueCap \in Nat /\ MaxLoop \in Nat
  /\ LocalModes \subseteq SUBSET {"live", "session"}

VARIABLES conn,          \* "off", "on" (m_audio_enable), "lost", "crashed"
          connections,   \* connections so far
          loopcnt,       \* m_loopcnt: boundaries so far
          pos,           \* m_interval_pos: before the first boundary, at one, past it
          run,           \* the channel Run is encoding, or NotRunning
          lc,            \* Local_Channel: the part shared by the threads
          bq,            \* Local_Channel::m_bq
          up,            \* Local_Channel: the part only Run uses
          server         \* what reached the server

vars == <<conn, connections, loopcnt, pos, run, lc, bq, up, server>>
shared == <<conn, connections, loopcnt, pos>>

(* A block of audio: the interval and the mode it was recorded in.         *)
Audio   == [kind : {"audio"}, at : 0 .. MaxLoop, as : LocalModes]
END     == [kind |-> "end"]
SILENCE == [kind |-> "silence"]
Block   == Audio \union {END, SILENCE}

(* A GUID is fresh (n) and may carry the interval (makeIntervalGuid).      *)
Untagged == MaxLoop + 1
UpGuid   == [n : 1 .. MaxBlocks, tag : 0 .. Untagged]
ZeroGuid == [n |-> 0, tag |-> Untagged]

NewChannel == [flags |-> {}, broadcasting |-> FALSE, bcast_active |-> FALSE,
               curbuflen |-> 0]
NewUpload  == [m_enc |-> FALSE, pending |-> <<>>, need_header |-> TRUE, guid |-> ZeroGuid,
               header |-> ZeroGuid, n |-> 0]

(* What the server knows: the latest upload, whether it is open, what came *)
(* for it; how much audio it got, how much it could not place, how many    *)
(* uploads were cut by the next one; has the channel kept its mode.        *)
NothingSent == [guid |-> ZeroGuid, open |-> FALSE, holds |-> {}, got |-> 0, stray |-> 0, unfinished |-> 0,
                recorded |-> 0, dropped |-> 0, steady |-> TRUE]

Init ==
  /\ conn = "on" /\ connections = 1 /\ loopcnt = 0 /\ pos = 0 /\ run = NotRunning
  /\ \E f \in [Local -> LocalModes] : lc = [ch \in Local |-> [NewChannel EXCEPT !.flags = f[ch]]]
  /\ bq = [ch \in Local |-> <<>>]
  /\ up = [ch \in Local |-> NewUpload]
  /\ server = [ch \in Local |-> NothingSent]
-----------------------------------------------------------------------------
(* The audio thread.                                                       *)

(* BufferQueue::AddBlock: audio is dropped when the queue is full, the     *)
(* marks of ends and silence never are.                                    *)
Room(queue) == Len(queue) <= QueueCap
AddMark(queue, marks) == queue \o marks

Interval(c) == c.flags = {}

(* on_new_interval: the upload of the interval ends; a channel that stops  *)
(* transmitting says so.                                                   *)
Cut(c) ==
  IF ~c.bcast_active THEN <<>>
  ELSE IF c.broadcasting THEN <<END>> ELSE <<END, SILENCE>>

Boundary ==
  /\ conn = "on" /\ pos # 1 /\ loopcnt < MaxLoop
  /\ loopcnt' = loopcnt + 1 /\ pos' = 1
  /\ bq' = [ch \in Local |-> IF Interval(lc[ch]) THEN AddMark(bq[ch], Cut(lc[ch])) ELSE bq[ch]]
  /\ lc' = [ch \in Local |-> IF Interval(lc[ch])
                             THEN [lc[ch] EXCEPT !.bcast_active = lc[ch].broadcasting]
                             ELSE lc[ch]]
  /\ UNCHANGED <<conn, connections, run, up, server>>

(* process_samples, voice chat: the channel cuts its own upload when it    *)
(* starts, stops, or has recorded LL_CHUNK_SIZE.                           *)
LiveCut(c, long) == c.bcast_active # c.broadcasting \/ (c.bcast_active /\ long)

(* process_samples, session mode: on a seek, after SESSION_CHUNK_SIZE, or  *)
(* when playback starts or stops.                                          *)
SessionCut(c, long, playing, seek) ==
  \/ seek \/ long
  \/ playing /\ ~c.bcast_active /\ c.broadcasting
  \/ ~playing /\ c.bcast_active

Marks(c, long, playing, seek) ==
  LET end == IF c.bcast_active THEN <<END>> ELSE <<>> IN
  IF "live" \in c.flags THEN IF LiveCut(c, long) THEN end ELSE <<>>
  ELSE IF "session" \in c.flags /\ SessionCut(c, long, playing, seek)
       THEN end \o (IF c.broadcasting /\ playing THEN <<SILENCE>> ELSE <<>>)
       ELSE <<>>

Broadcasts(c, long, playing, seek) ==
  IF "live" \in c.flags /\ LiveCut(c, long) THEN c.broadcasting
  ELSE IF "session" \in c.flags /\ "live" \notin c.flags /\ SessionCut(c, long, playing, seek)
       THEN c.broadcasting /\ playing
       ELSE c.bcast_active

(* One block of every channel, under m_locchan_cs.  "long" are the channels*)
(* that have recorded their two seconds.                                   *)
ProcessSamples(long, playing, seek) ==
  LET on(ch)    == Broadcasts(lc[ch], ch \in long, playing, seek)
      marks(ch) == Marks(lc[ch], ch \in long, playing, seek)
      queue(ch) == AddMark(bq[ch], marks(ch))
      keep(ch)  == on(ch) /\ Room(queue(ch))
      block(ch) == [kind |-> "audio", at |-> loopcnt, as |-> lc[ch].flags]
  IN /\ conn = "on" /\ pos > 0
     /\ \A ch \in Local : on(ch) => server[ch].recorded < MaxBlocks
     /\ \A ch \in long : lc[ch].curbuflen > 0
     /\ pos' = 2
     /\ bq' = [ch \in Local |-> IF keep(ch) THEN Append(queue(ch), block(ch)) ELSE queue(ch)]
     /\ lc' = [ch \in Local |->
                [lc[ch] EXCEPT !.bcast_active = on(ch),
                               !.curbuflen = IF on(ch) THEN 1
                                             ELSE IF lc[ch].bcast_active \/ Interval(lc[ch]) THEN 0
                                             ELSE @]]
     /\ server' = [ch \in Local |->
                    IF ~on(ch) THEN server[ch]
                    ELSE [server[ch] EXCEPT !.recorded = @ + 1,
                                            !.dropped = IF keep(ch) THEN @ ELSE @ + 1]]
     /\ UNCHANGED <<conn, connections, loopcnt, run, up>>
-----------------------------------------------------------------------------
(* What the server does with the messages of a channel.                    *)
OnBegin(s, guid) ==
  [s EXCEPT !.guid = guid, !.open = TRUE, !.holds = {},
            !.unfinished = IF s.open THEN @ + 1 ELSE @]

OnWrite(s, guid, audio) ==
  IF audio = <<>> THEN s
  ELSE IF s.open /\ guid = s.guid
  THEN [s EXCEPT !.holds = @ \union {audio[i] : i \in DOMAIN audio}, !.got = @ + Len(audio)]
  ELSE [s EXCEPT !.stray = @ + Len(audio)]

OnEnd(s, guid) == IF guid = s.guid THEN [s EXCEPT !.open = FALSE] ELSE s

(* A WRITE, and before it the BEGIN that waits for the first audio.        *)
SendWrite(s, u, audio) ==
  OnWrite(IF u.header # ZeroGuid THEN OnBegin(s, u.header) ELSE s, u.guid, audio)
-----------------------------------------------------------------------------
(* Run: the channels one after the other, each until its queue is empty.   *)

RunStart ==
  /\ conn = "on" /\ run = NotRunning
  /\ \E ch \in Local : bq[ch] # <<>>
  /\ run' = 0
  /\ UNCHANGED <<shared, lc, bq, up, server>>

RunNextChannel ==
  /\ run # NotRunning /\ bq[run] = <<>>
  /\ run' = run + 1
  /\ UNCHANGED <<shared, lc, bq, up, server>>

TakeBlock(kind) ==
  /\ run # NotRunning /\ bq[run] # <<>>
  /\ Head(bq[run]).kind = kind
  /\ bq' = [bq EXCEPT ![run] = Tail(@)]
  /\ UNCHANGED <<shared, run, lc>>

(* Silence: a BEGIN with a zero GUID, which opens nothing.                 *)
EncodeSilence ==
  /\ TakeBlock("silence")
  /\ up' = [up EXCEPT ![run].guid = ZeroGuid]
  /\ UNCHANGED server

(* The first audio of an upload draws its GUID: tagged with the interval   *)
(* the block was recorded in, unless the channel is in a mode of its own.  *)
TagMutant(f, block) == loopcnt
Tag(f, block) == IF f = {} THEN block.at ELSE Untagged

NewHeader(u, f, block) ==
  LET guid == [n |-> u.n + 1, tag |-> Tag(f, block)] IN
  IF ~u.need_header THEN u
  ELSE [u EXCEPT !.need_header = FALSE, !.guid = guid, !.n = @ + 1, !.header = guid]

(* Audio: encoded, and sent as soon as it is enough for a message; "ready" *)
(* blocks come out of the encoder.                                         *)
EncodeAudio ==
  LET block == Head(bq[run])
      u     == NewHeader(up[run], lc[run].flags, block)
      enc   == Append(u.pending, [at |-> block.at, as |-> block.as])
  IN /\ TakeBlock("audio")
     /\ \E ready \in 0 .. Len(enc) :
          /\ up' = [up EXCEPT ![run] =
                     [u EXCEPT !.m_enc = TRUE, !.pending = SubSeq(enc, ready + 1, Len(enc)),
                               !.header = IF ready > 0 THEN ZeroGuid ELSE @]]
          /\ server' = IF ready = 0 THEN server
                       ELSE [server EXCEPT ![run] = SendWrite(@, u, SubSeq(enc, 1, ready))]

(* The end: what the encoder still holds, the last message with the end    *)
(* flag; the encoder restarts, or goes when its format changed.            *)
FinishMutant(u, fresh) ==          \* keeps encoding into the same stream
  [u EXCEPT !.header = ZeroGuid, !.need_header = TRUE]
FinishMutant2(u, fresh) ==         \* asks for a header only if it encoded
  IF ~u.m_enc THEN u
  ELSE [u EXCEPT !.m_enc = ~fresh, !.pending = <<>>, !.header = ZeroGuid, !.need_header = TRUE]
Finish(u, fresh) ==
  [u EXCEPT !.m_enc = @ /\ ~fresh, !.pending = <<>>,
            !.header = IF u.m_enc THEN ZeroGuid ELSE @,
            !.need_header = TRUE]

(* The last message goes out even when there is nothing left to send.      *)
SendsEndMutant(u) == u.m_enc /\ u.pending # <<>>
SendsEnd(u) == u.m_enc

EncodeEnd ==
  LET u == up[run] IN
  /\ TakeBlock("end")
  /\ \E fresh \in BOOLEAN : up' = [up EXCEPT ![run] = Finish(u, fresh)]
  /\ server' = IF ~SendsEnd(u) THEN server
               ELSE [server EXCEPT ![run] = OnEnd(SendWrite(@, u, u.pending), u.guid)]
-----------------------------------------------------------------------------
(* The UI, never while Run is running.                                     *)

(* Nothing of what was recorded will come any more.                        *)
Lost(s) == [NothingSent EXCEPT !.recorded = s.recorded, !.dropped = s.recorded,
                               !.steady = s.steady]

SetLocalChannelInfo(ch, broadcast, f) ==
  /\ run = NotRunning
  /\ <<broadcast, f>> # <<lc[ch].broadcasting, lc[ch].flags>>
  /\ lc' = [lc EXCEPT ![ch].broadcasting = broadcast, ![ch].flags = f]
  /\ server' = [server EXCEPT ![ch].steady = @ /\ f = lc[ch].flags]
  /\ UNCHANGED <<shared, run, bq, up>>

(* The channel goes, and with it what it had still to send.                *)
DeleteLocalChannel(ch) ==
  /\ run = NotRunning
  /\ lc' = [lc EXCEPT ![ch] = NewChannel]
  /\ bq' = [bq EXCEPT ![ch] = <<>>]
  /\ up' = [up EXCEPT ![ch] = [NewUpload EXCEPT !.n = up[ch].n]]
  /\ server' = [server EXCEPT ![ch] = [Lost(@) EXCEPT !.steady = TRUE]]
  /\ UNCHANGED <<shared, run>>

(* Disconnect: the queues are cleared, block by block; the mark of silence *)
(* is no block, and deleting it brings the program down.  What the channel *)
(* was doing (bcast_active, m_need_header, its GUID) stays.                *)
Marked(queue) == \E i \in DOMAIN queue : queue[i] = SILENCE

Released(u) == [u EXCEPT !.m_enc = FALSE, !.pending = <<>>, !.header = ZeroGuid]

Disconnect ==
  /\ conn \in {"on", "lost"} /\ run = NotRunning
  /\ conn' = IF \E ch \in Local : Marked(bq[ch]) THEN "crashed" ELSE "off"
  /\ pos' = 0
  /\ bq' = [ch \in Local |-> <<>>]
  /\ up' = [ch \in Local |-> Released(up[ch])]
  /\ server' = [ch \in Local |-> Lost(server[ch])]
  /\ UNCHANGED <<connections, loopcnt, run, lc>>

(* The server or the network is gone: the audio stops, and Run returns     *)
(* before it looks at the queues.                                          *)
ConnectionLost ==
  /\ conn = "on" /\ run = NotRunning
  /\ conn' = "lost"
  /\ UNCHANGED <<connections, loopcnt, pos, run, lc, bq, up, server>>

(* Connect, the login and CONFIG_CHANGE: the audio runs.                   *)
Reconnect ==
  /\ conn = "off" /\ connections < MaxConnections
  /\ conn' = "on" /\ connections' = connections + 1
  /\ UNCHANGED <<loopcnt, pos, run, lc, bq, up, server>>

Next ==
  \/ Boundary
  \/ \E long \in SUBSET Local, playing, seek \in BOOLEAN : ProcessSamples(long, playing, seek)
  \/ RunStart \/ RunNextChannel
  \/ EncodeSilence \/ EncodeAudio \/ EncodeEnd
  \/ \E ch \in Local, broadcast \in BOOLEAN, f \in LocalModes : SetLocalChannelInfo(ch, broadcast, f)
  \/ \E ch \in Local : DeleteLocalChannel(ch)
  \/ ConnectionLost \/ Disconnect \/ Reconnect

Spec == Init /\ [][Next]_vars
-----------------------------------------------------------------------------
AudioIn(queue) == {i \in 1 .. Len(queue) : queue[i].kind = "audio"}

(* The types; a queue holds no more audio than AddBlock lets in, however   *)
(* long Run stays away.                                                    *)
UploadTypeOK ==
  /\ conn \in {"off", "on", "lost", "crashed"}
  /\ loopcnt \in 0 .. MaxLoop /\ pos \in 0 .. 2 /\ run \in 0 .. NumLocal
  /\ \A ch \in Local :
       /\ lc[ch] \in [flags : LocalModes \union {{}}, broadcasting : BOOLEAN,
                      bcast_active : BOOLEAN, curbuflen : 0 .. 1]
       /\ \A i \in DOMAIN bq[ch] : bq[ch][i] \in Block
       /\ up[ch].guid \in UpGuid \union {ZeroGuid}
       /\ up[ch].header \in UpGuid \union {ZeroGuid}
       /\ Cardinality(AudioIn(bq[ch])) <= QueueCap + 1

(* While the channel keeps its mode, an upload of interval-mode audio has a*)
(* tag, and carries audio of the interval the tag names alone; the uploads *)
(* of the other modes have none, as the receivers that align by the tag    *)
(* assume (makeIntervalGuid).                                              *)
TagNamesInterval ==
  \A ch \in Local : server[ch].steady => \A a \in server[ch].holds :
    server[ch].guid.tag = (IF a.as = {} THEN a.at ELSE Untagged)

(* No upload begins before the one before it has ended, however the cuts   *)
(* of the audio thread and the blocks Run takes interleave; the audio of   *)
(* an interval-mode channel that has kept its mode always has an open      *)
(* upload to go to, also after a new connection; and every block recorded  *)
(* is sent once, waits in the queue or in the encoder, or was dropped by a *)
(* full queue or with the connection.                                      *)
UploadsWhole ==
  \A ch \in Local :
    LET s == server[ch] IN
    /\ s.unfinished = 0
    /\ Interval(lc[ch]) /\ s.steady => s.stray = 0
    /\ s.recorded = s.dropped + s.got + s.stray
                    + Cardinality(AudioIn(bq[ch])) + Len(up[ch].pending)

(* Clearing a queue deletes its blocks (BufferQueue::Clear, a list of      *)
(* pointers with NULL for spaces): it must hold nothing else.              *)
ClearsBlocks == conn # "crashed"
=============================================================================
