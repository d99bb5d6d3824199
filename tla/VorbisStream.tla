---------------------------- MODULE VorbisStream ----------------------------
(***************************************************************************)
(* What becomes of the samples of an upload: a channel's encoder           *)
(* (VorbisEncoder, vorbisencdec.h) turns blocks into Ogg pages and queues  *)
(* their bytes (WDL_Queue, queue.h); Run (njclient.cpp) sends the queue in *)
(* pieces of its own size, ends the upload, and uses the encoder again for *)
(* the next; the receiver keeps the bytes of a download                    *)
(* (DecodeMediaBuffer), and the mixer feeds them to a decoder of its own   *)
(* for each download (VorbisDecoder) in reads of a third size, taking      *)
(* samples as it goes.                                                     *)
(*                                                                         *)
(* A page is two units of the queue, its header and its body.  How libogg  *)
(* and libvorbis group samples into packets and packets into pages is left *)
(* open; the network in between loses nothing (see Transport).             *)
(***************************************************************************)
EXTENDS Integers, Sequences, SequencesExt

CONSTANTS MaxUploads,  \* bound: uploads
          MaxFrames,   \* bound: frames of an upload, a frame being a sample of every channel
          FirstSend,   \* units that wait before the first piece of an upload (MIN_ENC_BLOCKSIZE * 4)
          NextSend,    \* before another (MIN_ENC_BLOCKSIZE)
          MaxSend,     \* units of a piece (MAX_ENC_BLOCKSIZE)
          ReadSizes,   \* units runDecode asks for
          MaxFade,     \* frames of a fade (overlapFadeState::MAX_FADE)
          Serials      \* the serial numbers a new encoder may draw

ASSUME StreamAssumption ==
  /\ {FirstSend, NextSend, MaxSend} \subseteq Nat \ {0} /\ MaxFade \in Nat
  /\ ReadSizes \subseteq Nat \ {0}
  /\ Serials \subseteq Int

VARIABLES upload,  \* number of the upload being recorded; history
          open,    \* ~m_need_header
          header,  \* m_enc_header_needsend # 0
          encoded,   \* history: the frames encoded for each upload
          enc,     \* m_enc
          file,    \* the receiver's DecodeMediaBuffer of each upload, and whether it has ended
          dec      \* the receiver's DecodeState

streamVars == <<upload, open, header, encoded, enc, file, dec>>
-----------------------------------------------------------------------------
(* WDL_Queue and WDL_TypedQueue: "pos" is how much at the front is used.   *)
EmptyQueue == [mem |-> <<>>, pos |-> 0]

QueueAdd(q, buf) == IF q.pos >= Len(q.mem) THEN [mem |-> buf, pos |-> 0]
                    ELSE [q EXCEPT !.mem = @ \o buf]
QueueGet(q, n)     == SubSeq(q.mem, q.pos + 1, q.pos + n)
QueueAvailable(q)  == Len(q.mem) - q.pos
QueueAdvance(q, n) == [q EXCEPT !.pos = IF @ + n > Len(q.mem) THEN Len(q.mem) ELSE @ + n]

QueueCompact(q) ==
  IF q.pos > Len(q.mem) \div 2 THEN [mem |-> SubSeq(q.mem, q.pos + 1, Len(q.mem)), pos |-> 0] ELSE q
-----------------------------------------------------------------------------
(* VorbisEncoder.  "waiting" are frames libvorbis has not yet made into a  *)
(* packet, "stream" packets libogg has not yet put on a page.              *)
HeaderPacket == [header |-> TRUE, frames |-> <<>>]
AudioPacket(frames) == [header |-> FALSE, frames |-> frames]
Page(serial, packets) == [serial |-> serial, packets |-> packets]
Units(page) == <<[page |-> page, part |-> 1], [page |-> page, part |-> 2]>>

NoEncoder == [made |-> FALSE]

(* The first of the three headers has a page of its own.                   *)
Headers(e) ==
  [e EXCEPT !.outqueue = QueueAdd(QueueAdd(@, Units(Page(e.os, <<HeaderPacket>>))),
                                  Units(Page(e.os, <<HeaderPacket, HeaderPacket>>)))]

NewEncoder(serial) ==
  Headers([made |-> TRUE, m_ser |-> serial, os |-> serial, waiting |-> <<>>, stream |-> <<>>,
           outqueue |-> EmptyQueue])

ReinitEncoder(e) ==
  Headers([e EXCEPT !.os = e.m_ser, !.m_ser = @ + 1, !.waiting = <<>>, !.stream = <<>>,
                    !.outqueue = QueueCompact(QueueAdvance(@, QueueAvailable(@)))])

(* Encode: the first n of the frames make a packet, and the packets a page *)
(* or not yet.  At the end of the stream everything comes out.             *)
Packeted(e, frames, n) ==
  LET all == e.waiting \o frames IN
  [e EXCEPT !.waiting = SubSeq(all, n + 1, Len(all)),
            !.stream = IF n = 0 THEN @ ELSE Append(@, AudioPacket(SubSeq(all, 1, n)))]
Paged(e) ==
  IF e.stream = <<>> THEN e
  ELSE [e EXCEPT !.stream = <<>>, !.outqueue = QueueAdd(@, Units(Page(e.os, e.stream)))]

Encodings(e, frames) ==
  LET packed == {Packeted(e, frames, n) : n \in 0 .. Len(e.waiting \o frames)}
  IN packed \union {Paged(p) : p \in packed}
EncodeEnd(e) ==
  Paged([e EXCEPT !.waiting = <<>>, !.stream = Append(@, AudioPacket(e.waiting))])
-----------------------------------------------------------------------------
(* Run, for a block of the channel: encode, then send while enough waits.  *)
Enough(first) == IF first THEN FirstSend ELSE NextSend
SendSize(n) == IF n > MaxSend THEN MaxSend ELSE n

(* What stays queued of n units.                                           *)
StaysQueued(n, first) ==
  LET stays[k \in 0 .. n, f \in BOOLEAN] ==
        IF k < Enough(f) THEN k ELSE stays[k - SendSize(k), FALSE]
  IN stays[n, first]

Write(f, units) == [f EXCEPT !.buf = QueueAdd(@, units)]

NoFile == [buf |-> EmptyQueue, ended |-> FALSE]

(* "n" is the block's length.                                              *)
NetBlock(n) ==
  /\ IF open THEN UNCHANGED <<upload, open>>
     ELSE upload < MaxUploads /\ upload' = upload + 1 /\ open' = TRUE
  /\ Len(encoded[upload']) + n <= MaxFrames
  /\ LET block == [i \in 1 .. n |-> <<upload', Len(encoded[upload']) + i>>]
     IN /\ encoded' = [encoded EXCEPT ![upload'] = @ \o block]
        /\ \E serial \in Serials :
             \E e \in Encodings(IF enc.made THEN enc ELSE NewEncoder(serial), block) :
               LET first == header \/ ~open
                   waits == QueueAvailable(e.outqueue)
                   sends == waits - StaysQueued(waits, first)
               IN /\ enc' = [e EXCEPT !.outqueue = QueueCompact(QueueAdvance(@, sends))]
                  /\ file' = IF sends = 0 THEN file
                             ELSE [file EXCEPT ![upload'] = Write(@, QueueGet(e.outqueue, sends))]
                  /\ header' = (first /\ sends = 0)
  /\ UNCHANGED dec

(* Run, at the end of an upload: piece by piece all that is queued goes    *)
(* out, and the last piece carries the end.  The encoder stays for the     *)
(* next upload unless the number of channels or the bitrate has changed.   *)
FinalSendMutant(n) == SendSize(n)
FinalSend(n) == n

NetEnd(keeps) ==
  /\ open /\ enc.made
  /\ LET e == EncodeEnd(enc)
         n == FinalSend(QueueAvailable(e.outqueue))
     IN /\ file' = [file EXCEPT ![upload] =
                      [Write(@, QueueGet(e.outqueue, n)) EXCEPT !.ended = TRUE]]
        /\ enc' = IF ~keeps THEN NoEncoder
                  ELSE ReinitEncoder([e EXCEPT !.outqueue = QueueCompact(QueueAdvance(@, n))])
  /\ header' = FALSE /\ open' = FALSE
  /\ UNCHANGED <<upload, encoded, dec>>
-----------------------------------------------------------------------------
(* VorbisDecoder.  "sync" are the units that make no page yet.             *)
NewDecoder(u) == [of |-> u, rdpos |-> 0, sync |-> <<>>, packets |-> 0, serial |-> 0,
                  m_buf |-> EmptyQueue, taken |-> 0]

(* ogg_sync_pageout: a page is its two units in a row.                     *)
PagesIn(units) ==
  LET starts == SelectSeq([i \in 1 .. Len(units) |-> i],
                  LAMBDA i : /\ i < Len(units) /\ units[i].part = 1
                             /\ units[i + 1] = [units[i] EXCEPT !.part = 2])
  IN [k \in DOMAIN starts |-> units[starts[k]].page]
Unpaged(units) ==
  IF units # <<>> /\ Last(units).part = 1 THEN <<Last(units)>> ELSE <<>>

(* A page of another stream starts the decoder over.                       *)
OnSerial(d, serial) ==
  IF d.packets = 0 \/ serial # d.serial THEN [d EXCEPT !.serial = serial, !.packets = 0] ELSE d

(* Three headers first: a packet that is none is refused.  After them      *)
(* every packet is counted, and one that carries audio gives its frames.   *)
PacketIn(d, p) ==
  IF d.packets < 3 /\ ~p.header THEN d
  ELSE [d EXCEPT !.packets = @ + 1,
                 !.m_buf = IF d.packets < 3 \/ p.frames = <<>> THEN @ ELSE QueueAdd(@, p.frames)]
PageIn(d, page) == FoldLeft(PacketIn, OnSerial(d, page.serial), page.packets)

DecodeWrote(d, units) ==
  LET all == d.sync \o units
  IN FoldLeft(PageIn, [d EXCEPT !.sync = Unpaged(all)], PagesIn(all))

(* runDecode: at most "size" units of the file, none at its end so far.    *)
Unread(d) == QueueAvailable(file[d.of].buf) - d.rdpos
Read(d, size) ==
  LET n    == IF Unread(d) > size THEN size ELSE Unread(d)
      from == QueueGet(file[d.of].buf, d.rdpos + n)
  IN [DecodeWrote(d, SubSeq(from, d.rdpos + 1, d.rdpos + n)) EXCEPT !.rdpos = @ + n]

RunDecode(size) ==
  /\ dec.of > 0 /\ Unread(dec) > 0
  /\ dec' = Read(dec, size)
  /\ UNCHANGED <<upload, open, header, encoded, enc, file>>

(* The mixer has used n frames.                                            *)
Skip(n) ==
  /\ n <= QueueAvailable(dec.m_buf)
  /\ dec' = [dec EXCEPT !.m_buf = QueueCompact(QueueAdvance(@, n)), !.taken = @ + n]
  /\ UNCHANGED <<upload, open, header, encoded, enc, file>>

(* calcOverlap: the frames a decoder still has, and its last half block    *)
(* (GenerateLappingSamples: none or one), are what the next is faded in    *)
(* over.                                                                   *)
Lappings == {0, 1}
Overlap(d, lapped) ==
  LET left == QueueAvailable(d.m_buf) + lapped
  IN IF d.of = 0 THEN 0 ELSE IF left > MaxFade THEN MaxFade ELSE left

(* applyOverlap, and the loop of start_decode: read until there are so     *)
(* many frames or no more data.  A fade changes no frame's place.          *)
Primed(d, frames, size) ==
  LET reads[k \in Nat] == IF k = 0 THEN d ELSE Read(reads[k - 1], size)
      enough(k) == QueueAvailable(reads[k].m_buf) >= frames \/ Unread(reads[k]) = 0
  IN reads[CHOOSE k \in 0 .. Unread(d) : enough(k) /\ \A j \in 0 .. k - 1 : ~enough(j)]

(* start_decode: the next download that has begun gets a decoder of its    *)
(* own, with a frame at least if there is one.                             *)
StartDecode(lapped, size) ==
  /\ dec.of < MaxUploads
  /\ file[dec.of + 1] # NoFile
  /\ dec' = Primed(Primed(NewDecoder(dec.of + 1), 1, size), Overlap(dec, lapped), size)
  /\ UNCHANGED <<upload, open, header, encoded, enc, file>>
-----------------------------------------------------------------------------
StreamInit ==
  /\ upload = 0 /\ open = FALSE /\ header = FALSE
  /\ encoded = [u \in 1 .. MaxUploads |-> <<>>]
  /\ enc = NoEncoder
  /\ file = [u \in 1 .. MaxUploads |-> NoFile]
  /\ dec = NewDecoder(0)

StreamNext ==
  \/ \E n \in 1 .. MaxFrames : NetBlock(n)
  \/ \E keeps \in BOOLEAN : NetEnd(keeps)
  \/ \E size \in ReadSizes : RunDecode(size)
  \/ \E n \in 1 .. MaxFrames : Skip(n)
  \/ \E lapped \in Lappings, size \in ReadSizes : StartDecode(lapped, size)

StreamSpec == StreamInit /\ [][StreamNext]_streamVars
-----------------------------------------------------------------------------
(* What the mixer takes of a download are the frames of that upload in the *)
(* order they were recorded, whatever the sizes of blocks, pages, pieces   *)
(* and reads; and when the download has ended and is read, all of them:    *)
(* the frames the encoder held back, and the pages it had queued, came     *)
(* with the end, and nothing of the upload before it (Run, reinit,         *)
(* WDL_Queue::Compact, DecodeWrote).                                       *)
UploadDecodes ==
  dec.of > 0 =>
    LET decoded == dec.taken + QueueAvailable(dec.m_buf) IN
    /\ decoded <= Len(encoded[dec.of])
    /\ QueueGet(dec.m_buf, QueueAvailable(dec.m_buf))
         = SubSeq(encoded[dec.of], dec.taken + 1, decoded)
    /\ file[dec.of].ended /\ Unread(dec) = 0 => decoded = Len(encoded[dec.of])
=============================================================================
