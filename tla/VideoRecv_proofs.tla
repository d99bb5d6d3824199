-------------------------- MODULE VideoRecv_proofs --------------------------
(***************************************************************************)
(* Theorems about the video of a remote user, for any audio line: however  *)
(* it waits and skips, whatever is lost, reset or left behind in between.  *)
(***************************************************************************)
EXTENDS VideoRecv, AudioSlots_proofs, SequenceTheorems, FiniteSetTheorems, TLAPS

USE DEF NoGuid

(* The streams there can be.                                               *)
Stream ==
  [accumulating : Buffer, next : Buffer, pending : Buffer, playing : Buffer,
   awaiting : Seq(Buffer), append : Intervals \union {0},
   append_to : {"playing", "pending", "next"}, hold_count : 0 .. HoldCap - 1,
   prev_ds : Nat \union {NoGuid}, synced : BOOLEAN]
-----------------------------------------------------------------------------
(* What a buffer holds is of its own download.                             *)
Own(b) == \A f \in b.frames : f[1] = b.dl

(* A buffer names the audio recorded before its pictures, or with them.    *)
Plain(b)  == b.marker = b.dl - 1 /\ ~b.own_audio /\ b.own_interval = NoGuid
Marked(b) == /\ b.marker = IF b.own_audio THEN b.dl ELSE b.dl - 1
             /\ b.own_interval \in {NoGuid, b.dl}

Content(v) ==
  /\ \A b \in {v.accumulating, v.next, v.pending, v.playing} : Own(b)
  /\ \A a \in DOMAIN v.awaiting : Own(v.awaiting[a])
  /\ v.next.dl # 0 => v.next.frames # {} /\ Plain(v.next)
  /\ v.pending.dl # 0 => v.pending.frames # {} /\ Marked(v.pending)
  /\ \A a \in DOMAIN v.awaiting : /\ v.awaiting[a].dl # 0
                                  /\ v.awaiting[a].frames # {} /\ Marked(v.awaiting[a])
  /\ v.accumulating.frames # {} => v.accumulating.dl # 0 /\ Plain(v.accumulating)

(* The intervals stand in line: what accumulates is the latest.            *)
Behind(b, c) == b.dl = 0 \/ c.dl = 0 \/ b.dl <= c.dl
InLine(v) ==
  /\ \A a \in DOMAIN v.awaiting : /\ Behind(v.pending, v.awaiting[a])
                                  /\ Behind(v.awaiting[a], v.next)
                                  /\ Behind(v.awaiting[a], v.accumulating)
  /\ \A a, c \in DOMAIN v.awaiting : a < c => Behind(v.awaiting[a], v.awaiting[c])
  /\ Behind(v.pending, v.next) /\ Behind(v.pending, v.accumulating)
  /\ Behind(v.next, v.accumulating)

(* What plays is the first of them.                                        *)
First(v) ==
  /\ \A a \in DOMAIN v.awaiting : Behind(v.playing, v.awaiting[a])
  /\ Behind(v.playing, v.pending) /\ Behind(v.playing, v.next)
  /\ Behind(v.playing, v.accumulating)

(* Nothing is later than k.                                                *)
Until(v, k) ==
  /\ \A b \in {v.accumulating, v.next, v.pending, v.playing} : b.dl <= k
  /\ \A a \in DOMAIN v.awaiting : v.awaiting[a].dl <= k

(* All that is not in accumulating is earlier than k, and what is there    *)
(* with its first frame too.                                               *)
Before(v, k) ==
  /\ \A b \in {v.next, v.pending, v.playing} : b.dl < k
  /\ \A a \in DOMAIN v.awaiting : v.awaiting[a].dl < k
  /\ v.accumulating.frames # {} => v.accumulating.dl < k

(* The audio waits in recording order, and none of it is older than what   *)
(* the last boundary heard.                                                *)
Sorted(q) == /\ NoGap(q)
             /\ \A i, j \in SlotIdx : i < j /\ q[i] # None /\ q[j] # None => q[i].iv < q[j].iv
Newer(q, t) == \A i \in SlotIdx : q[i] # None => q[i].iv > t

Sender ==
  /\ wire.iv = 0 => wire.frame = Closed
  /\ \A k \in 1 .. wire.iv : k \in Intervals
  /\ downloads \subseteq 1 .. wire.iv
  /\ audio <= wire.iv
Audio ==
  /\ Sorted(line)
  /\ \A i \in SlotIdx : line[i] # None => line[i].iv <= audio
  /\ vs.prev_ds <= audio
  /\ \A i \in SlotIdx : line[i] # None /\ (i > 0 \/ hold > 0) => line[i].iv > vs.prev_ds

(* Until the first frame of an interval has come, there is nothing of it.  *)
(* It is the marker.                                                       *)
Unstarted(v, k) == Before(v, k) /\ v.append < k
Named(b, k) == b.dl = k /\ ~b.own_audio /\ b.own_interval = NoGuid
Started ==
  /\ wire.frame = 0 => Unstarted(vs, wire.iv)
  /\ \/ vs.accumulating.dl = 0 \/ Plain(vs.accumulating)
     \/ wire.frame = 0 /\ Named(vs.accumulating, wire.iv)

(* The append flags point at the buffer of the download they name, as long *)
(* as it goes on.                                                          *)
Aims(v, k) == v.append = k => v[v.append_to].dl = k

VideoInv ==
  /\ VideoTypeOK
  /\ Sender /\ Audio /\ Started
  /\ Content(vs) /\ InLine(vs)
  /\ Until(vs, wire.iv) /\ vs.append <= wire.iv
  /\ wire.iv \in downloads => Aims(vs, wire.iv)
  /\ ~overtaken => First(vs)
-----------------------------------------------------------------------------
(* Buffers that only grow, by frames of their own download.                *)
Grows(b, c) == /\ c.dl = b.dl /\ c.marker = b.marker
               /\ c.own_audio = b.own_audio /\ c.own_interval = b.own_interval
               /\ b.frames \subseteq c.frames
               /\ \A f \in c.frames : f \in b.frames \/ f[1] = b.dl

LEMMA IntervalsAre == Intervals \union {0} \subseteq Nat
  BY IntervalsAssumption

LEMMA BufferType ==
  ASSUME NEW b \in Buffer
  PROVE  /\ b.dl \in Nat /\ b.dl \in Intervals \union {0}
         /\ b.marker \in Nat \union {NoGuid}
         /\ b.frames \in SUBSET (Intervals \X Frames) /\ b.ended \in BOOLEAN
         /\ b.own_audio \in BOOLEAN /\ b.own_interval \in Nat \union {NoGuid}
<1> DEFINE pictures == SUBSET (Intervals \X Frames)
<1>1. b \in [dl : Intervals \union {0}, marker : Nat \union {NoGuid}, frames : pictures,
             ended : BOOLEAN, own_audio : BOOLEAN, own_interval : Nat \union {NoGuid}]
  BY DEF Buffer
<1> HIDE DEF pictures
<1>2. b.dl \in Intervals \union {0} /\ b.marker \in Nat \union {NoGuid}
      /\ b.frames \in pictures /\ b.ended \in BOOLEAN
      /\ b.own_audio \in BOOLEAN /\ b.own_interval \in Nat \union {NoGuid}
  BY <1>1
<1>3. b.dl \in Nat
  BY <1>2, IntervalsAre
<1> QED BY <1>2, <1>3 DEF pictures

LEMMA GrownOwn == ASSUME NEW b, NEW c, Grows(b, c), Own(b) PROVE Own(c)
  BY DEF Grows, Own

LEMMA StreamType ==
  ASSUME NEW v \in Stream
  PROVE  /\ v.accumulating \in Buffer /\ v.next \in Buffer
         /\ v.pending \in Buffer /\ v.playing \in Buffer
         /\ v.awaiting \in Seq(Buffer)
         /\ \A a \in DOMAIN v.awaiting : v.awaiting[a] \in Buffer
         /\ v.append \in Intervals \union {0} /\ v.append \in Nat
         /\ v.append_to \in {"playing", "pending", "next"}
         /\ v.hold_count \in 0 .. HoldCap - 1
         /\ v.prev_ds \in Nat \union {NoGuid} /\ v.synced \in BOOLEAN
<1>1. v.awaiting \in Seq(Buffer)
  BY DEF Stream
<1>2. \A a \in DOMAIN v.awaiting : v.awaiting[a] \in Buffer
  BY <1>1
<1>3. v.append \in Intervals \union {0}
  BY DEF Stream
<1>4. v.append \in Nat
  BY <1>3, IntervalsAre
<1>5. v.synced \in BOOLEAN /\ v.hold_count \in 0 .. HoldCap - 1
  BY DEF Stream
<1> QED BY <1>1, <1>2, <1>3, <1>4, <1>5 DEF Stream

LEMMA EmptyIs ==
  /\ EmptyBuffer \in Buffer
  /\ EmptyBuffer.dl = 0 /\ EmptyBuffer.frames = {} /\ EmptyBuffer.own_interval = NoGuid
  /\ ~EmptyBuffer.own_audio /\ Own(EmptyBuffer)
  BY DEF EmptyBuffer, Buffer, Own

LEMMA FreshIs ==
  ASSUME NEW k \in Intervals
  PROVE  LET b == [EmptyBuffer EXCEPT !.dl = k]
         IN /\ b \in Buffer /\ b.dl = k /\ b.frames = {} /\ b.own_interval = NoGuid
            /\ ~b.own_audio /\ Own(b)
<1> DEFINE b == [EmptyBuffer EXCEPT !.dl = k]
<1>1. b \in Buffer
  BY EmptyIs DEF Buffer
<1>2. b.dl = k /\ b.frames = {} /\ b.own_interval = NoGuid /\ b.own_audio = EmptyBuffer.own_audio
  BY EmptyIs DEF Buffer
<1>3. ~b.own_audio
  BY <1>2, EmptyIs
<1>4. Own(b)
  BY <1>2 DEF Own
<1> QED BY <1>1, <1>2, <1>3, <1>4

(* A stream whose buffers only grow, but for what accumulates.             *)
StreamGrows(v, w) ==
  /\ Grows(v.next, w.next) /\ Grows(v.pending, w.pending) /\ Grows(v.playing, w.playing)
  /\ w.accumulating = v.accumulating
  /\ DOMAIN w.awaiting = DOMAIN v.awaiting
  /\ \A a \in DOMAIN v.awaiting : Grows(v.awaiting[a], w.awaiting[a])

LEMMA GrownFacts ==
  ASSUME NEW b, NEW c, Grows(b, c)
  PROVE  /\ c.dl = b.dl /\ (Plain(b) => Plain(c)) /\ (Marked(b) => Marked(c))
         /\ (b.frames # {} => c.frames # {}) /\ (Own(b) => Own(c))
  BY GrownOwn DEF Grows, Plain, Marked

LEMMA GrownBehind ==
  ASSUME NEW b, NEW c, NEW d, NEW e, d.dl = b.dl, e.dl = c.dl, Behind(b, c)
  PROVE  Behind(d, e)
  BY DEF Behind

LEMMA StreamGrown ==
  ASSUME NEW v, NEW w, StreamGrows(v, w)
  PROVE  /\ Content(v) => Content(w)
         /\ InLine(v) => InLine(w)
         /\ First(v) => First(w)
         /\ \A k : Until(v, k) => Until(w, k)
         /\ \A k : Before(v, k) => Before(w, k)
<1>1. w.next.dl = v.next.dl /\ w.pending.dl = v.pending.dl /\ w.playing.dl = v.playing.dl
  BY DEF StreamGrows, Grows
<1>2. w.accumulating = v.accumulating /\ DOMAIN w.awaiting = DOMAIN v.awaiting
  BY DEF StreamGrows
<1>3. \A a \in DOMAIN v.awaiting : w.awaiting[a].dl = v.awaiting[a].dl
  BY DEF StreamGrows, Grows
<1>4. ASSUME Content(v) PROVE Content(w)
  BY <1>2, <1>4, GrownFacts DEF Content, StreamGrows
<1>5. ASSUME InLine(v) PROVE InLine(w)
  BY <1>1, <1>2, <1>3, <1>5 DEF InLine, Behind
<1>6. ASSUME First(v) PROVE First(w)
  BY <1>1, <1>2, <1>3, <1>6 DEF First, Behind
<1>7. ASSUME NEW k, Until(v, k) PROVE Until(w, k)
  BY <1>1, <1>2, <1>3, <1>7 DEF Until
<1>8. ASSUME NEW k, Before(v, k) PROVE Before(w, k)
  BY <1>1, <1>2, <1>3, <1>8 DEF Before
<1> QED BY <1>4, <1>5, <1>6, <1>7, <1>8
-----------------------------------------------------------------------------
(* What the network thread does to a stream.                               *)
Short(v) == Len(v.awaiting) <= 2
Settled(w, v) == /\ w.hold_count = v.hold_count
                 /\ w.prev_ds = v.prev_ds /\ w.synced = v.synced

LEMMA GrowsSelf == ASSUME NEW b PROVE Grows(b, b)
  BY DEF Grows

(* One of the buffers that the append flags may name grows.                *)
Put(v, to, c) == [v EXCEPT ![to] = c]

LEMMA OneGrows ==
  ASSUME NEW v \in Stream, NEW to \in {"playing", "pending", "next"},
         NEW c \in Buffer, Grows(v[to], c)
  PROVE  LET w == Put(v, to, c)
         IN /\ w \in Stream /\ StreamGrows(v, w) /\ Settled(w, v)
            /\ w.awaiting = v.awaiting /\ w.accumulating = v.accumulating
            /\ w.append = v.append /\ w.append_to = v.append_to
            /\ w[to] = c
            /\ \A t \in {"playing", "pending", "next"} : w[t].dl = v[t].dl
<1> DEFINE w == Put(v, to, c)
<1>1. \A b : Grows(b, b)
  BY GrowsSelf
<1>2. CASE to = "playing"
  <2>1. w = [v EXCEPT !.playing = c]
    BY <1>2 DEF Put
  <2> HIDE DEF w
  <2>2. w \in Stream
    BY <2>1 DEF Stream
  <2>3. /\ w.accumulating = v.accumulating /\ w.next = v.next /\ w.pending = v.pending
        /\ w.playing = c /\ w.awaiting = v.awaiting /\ w.append = v.append
        /\ w.append_to = v.append_to /\ w.hold_count = v.hold_count
        /\ w.prev_ds = v.prev_ds /\ w.synced = v.synced
    BY <2>1 DEF Stream
  <2>4. c.dl = v.playing.dl
    BY <1>2 DEF Grows
  <2> QED BY <1>1, <1>2, <2>2, <2>3, <2>4 DEF StreamGrows, Settled, w
<1>3. CASE to = "pending"
  <2>1. w = [v EXCEPT !.pending = c]
    BY <1>3 DEF Put
  <2> HIDE DEF w
  <2>2. w \in Stream
    BY <2>1 DEF Stream
  <2>3. /\ w.accumulating = v.accumulating /\ w.next = v.next /\ w.pending = c
        /\ w.playing = v.playing /\ w.awaiting = v.awaiting /\ w.append = v.append
        /\ w.append_to = v.append_to /\ w.hold_count = v.hold_count
        /\ w.prev_ds = v.prev_ds /\ w.synced = v.synced
    BY <2>1 DEF Stream
  <2>4. c.dl = v.pending.dl
    BY <1>3 DEF Grows
  <2> QED BY <1>1, <1>3, <2>2, <2>3, <2>4 DEF StreamGrows, Settled, w
<1>4. CASE to = "next"
  <2>1. w = [v EXCEPT !.next = c]
    BY <1>4 DEF Put
  <2> HIDE DEF w
  <2>2. w \in Stream
    BY <2>1 DEF Stream
  <2>3. /\ w.accumulating = v.accumulating /\ w.next = c /\ w.pending = v.pending
        /\ w.playing = v.playing /\ w.awaiting = v.awaiting /\ w.append = v.append
        /\ w.append_to = v.append_to /\ w.hold_count = v.hold_count
        /\ w.prev_ds = v.prev_ds /\ w.synced = v.synced
    BY <2>1 DEF Stream
  <2>4. c.dl = v.next.dl
    BY <1>4 DEF Grows
  <2> QED BY <1>1, <1>4, <2>2, <2>3, <2>4 DEF StreamGrows, Settled, w
<1> QED BY <1>2, <1>3, <1>4

(* Where the append goes is a choice of its own.                           *)
Aim(v, k, to) == [v EXCEPT !.append = k, !.append_to = to]

Redirection(v, k, to, w) ==
  /\ w \in Stream /\ StreamGrows(v, w) /\ Settled(w, v)
  /\ w.awaiting = v.awaiting /\ w.accumulating = v.accumulating
  /\ w.append = k /\ w.append_to = to
  /\ w.next = v.next /\ w.pending = v.pending /\ w.playing = v.playing
  /\ \A t \in {"playing", "pending", "next"} : w[t] = v[t]

LEMMA Redirected ==
  ASSUME NEW v \in Stream, NEW k \in Intervals \union {0},
         NEW to \in {"playing", "pending", "next"}
  PROVE  Redirection(v, k, to, Aim(v, k, to))
<1> DEFINE w == Aim(v, k, to)
<1>1. \A b : Grows(b, b)
  BY GrowsSelf
<1>2. w \in Stream
  BY DEF Stream, Aim
<1>3. /\ w.accumulating = v.accumulating /\ w.next = v.next /\ w.pending = v.pending
      /\ w.playing = v.playing /\ w.awaiting = v.awaiting /\ w.append = k
      /\ w.append_to = to /\ w.hold_count = v.hold_count
      /\ w.prev_ds = v.prev_ds /\ w.synced = v.synced
  BY DEF Stream, Aim
<1> HIDE DEF w
<1>4. \A t \in {"playing", "pending", "next"} : w[t] = v[t]
  BY <1>3
<1> QED BY <1>1, <1>2, <1>3, <1>4 DEF Redirection, StreamGrows, Settled, w
-----------------------------------------------------------------------------
(* Two changes at once are one after the other.                            *)
Ended(b, e) == [b EXCEPT !.ended = e]

LEMMA EndAndAim ==
  ASSUME NEW v \in Stream, NEW e
  PROVE  [v EXCEPT ![v.append_to].ended = e, !.append = 0]
           = Aim(Put(v, v.append_to, Ended(v[v.append_to], e)), 0, v.append_to)
<1>0. v.append_to \in {"playing", "pending", "next"}
  BY StreamType
<1>1. CASE v.append_to = "playing"
  BY <1>1 DEF Stream, Aim, Put, Ended
<1>2. CASE v.append_to = "pending"
  BY <1>2 DEF Stream, Aim, Put, Ended
<1>3. CASE v.append_to = "next"
  BY <1>3 DEF Stream, Aim, Put, Ended
<1> QED BY <1>0, <1>1, <1>2, <1>3

LEMMA FinishAppendIs ==
  ASSUME NEW v \in Stream
  PROVE  LET w == FinishAppend(v)
         IN /\ w \in Stream /\ StreamGrows(v, w) /\ Settled(w, v)
            /\ w.awaiting = v.awaiting /\ w.accumulating = v.accumulating
            /\ w.append = 0 /\ w.append_to = v.append_to
            /\ \A t \in {"playing", "pending", "next"} : w[t].dl = v[t].dl
<1> DEFINE w == FinishAppend(v)
           to == v.append_to
           e == v[to].frames # {}
           c == Ended(v[to], e)
           x == Put(v, to, c)
<1>1. CASE v.append = 0
  <2>1. w = v
    BY <1>1 DEF FinishAppend
  <2>2. StreamGrows(v, v) /\ Settled(v, v)
    BY GrowsSelf DEF StreamGrows, Settled
  <2> HIDE DEF w
  <2> QED BY <1>1, <2>1, <2>2 DEF w
<1>2. CASE v.append # 0
  <2>1. to \in {"playing", "pending", "next"} /\ v[to] \in Buffer
    BY StreamType
  <2>2. e \in BOOLEAN
    OBVIOUS
  <2>3. w = [v EXCEPT ![to].ended = e, !.append = 0]
    BY <1>2 DEF FinishAppend
  <2> HIDE DEF e
  <2>4. c \in Buffer /\ Grows(v[to], c)
    BY <2>1, <2>2 DEF Buffer, Grows, Ended
  <2>5. /\ x \in Stream /\ StreamGrows(v, x) /\ Settled(x, v)
        /\ x.awaiting = v.awaiting /\ x.accumulating = v.accumulating
        /\ x.append = v.append /\ x.append_to = to
        /\ \A t \in {"playing", "pending", "next"} : x[t].dl = v[t].dl
    BY <2>1, <2>4, OneGrows
  <2>6. w = Aim(x, 0, to)
    BY <2>1, <2>3, EndAndAim
  <2> HIDE DEF x, w, c, to
  <2>0. 0 \in Intervals \union {0}
    OBVIOUS
  <2>7. /\ w \in Stream /\ StreamGrows(x, w) /\ Settled(w, x)
        /\ w.awaiting = x.awaiting /\ w.accumulating = x.accumulating
        /\ w.append = 0 /\ w.append_to = to
        /\ w.next = x.next /\ w.pending = x.pending /\ w.playing = x.playing
        /\ \A t \in {"playing", "pending", "next"} : w[t] = x[t]
    BY <2>0, <2>1, <2>5, <2>6, Redirected DEF Redirection
  <2>8. StreamGrows(v, w)
    BY <2>5, <2>7 DEF StreamGrows
  <2>9. Settled(w, v)
    BY <2>5, <2>7 DEF Settled
  <2> QED BY <2>5, <2>7, <2>8, <2>9 DEF w, to
<1> QED BY <1>1, <1>2
-----------------------------------------------------------------------------
(* What waits stays in its order, and the new one is the last.             *)
Tailed(r, q, b) ==
  \E d \in {0, 1} : \A i \in DOMAIN r :
    IF i + d \in DOMAIN q THEN r[i] = q[i + d]
    ELSE r[i] = b /\ \A j \in DOMAIN r : j <= i

LEMMA AwaitIs ==
  ASSUME NEW q \in Seq(Buffer), Len(q) <= 2, NEW b \in Buffer
  PROVE  /\ Await(q, b) \in Seq(Buffer) /\ Len(Await(q, b)) <= 2
         /\ Tailed(Await(q, b), q, b)
<1>1. CASE Len(q) = 2
  <2>0. DOMAIN q = 1 .. 2
    BY <1>1, LenProperties
  <2>1. q[1] \in Buffer /\ q[2] \in Buffer /\ DOMAIN q = 1 .. 2
    <3>1. 1 \in 1 .. Len(q) /\ 2 \in 1 .. Len(q)
      BY <1>1
    <3>2. \A i \in 1 .. Len(q) : q[i] \in Buffer
      BY ElementOfSeq
    <3> QED BY <2>0, <3>1, <3>2
  <2>2. Await(q, b) = <<q[2], b>>
    BY <1>1 DEF Await
  <2> DEFINE r == <<q[2], b>>
  <2>3. r \in Seq(Buffer) /\ Len(r) = 2 /\ DOMAIN r = 1 .. 2 /\ r[1] = q[2] /\ r[2] = b
    BY <2>1
  <2> HIDE DEF r
  <2>4. Tailed(r, q, b)
    <3>1. \A i \in DOMAIN r : IF i + 1 \in DOMAIN q THEN r[i] = q[i + 1]
                              ELSE r[i] = b /\ \A j \in DOMAIN r : j <= i
      BY <2>1, <2>3
    <3> QED BY <3>1 DEF Tailed
  <2> QED BY <2>2, <2>3, <2>4 DEF r
<1>2. CASE Len(q) # 2
  <2>1. Await(q, b) = Append(q, b)
    BY <1>2 DEF Await
  <2> DEFINE r == Append(q, b)
  <2>2. Len(q) \in Nat /\ DOMAIN q = 1 .. Len(q)
    BY LenProperties
  <2>3. /\ r \in Seq(Buffer) /\ Len(r) = Len(q) + 1 /\ DOMAIN r = 1 .. Len(q) + 1
        /\ \A i \in 1 .. Len(q) : r[i] = q[i]
        /\ r[Len(q) + 1] = b
    BY AppendProperties, LenProperties
  <2> HIDE DEF r
  <2>4. Tailed(r, q, b)
    <3>1. \A i \in DOMAIN r : i + 0 \in DOMAIN q => r[i] = q[i + 0]
      BY <2>2, <2>3
    <3>2. \A i \in DOMAIN r : i + 0 \notin DOMAIN q => i = Len(q) + 1
      BY <2>2, <2>3
    <3>3. \A j \in DOMAIN r : j <= Len(q) + 1
      BY <2>2, <2>3
    <3> QED BY <2>3, <3>1, <3>2, <3>3 DEF Tailed
  <2> QED BY <1>2, <2>1, <2>2, <2>3, <2>4 DEF r
<1> QED BY <1>1, <1>2

(* It fits when it is not before those, and the later ones not before it.  *)
Fits(v, b) ==
  /\ b.dl # 0 /\ b.frames # {} /\ Own(b) /\ Marked(b)
  /\ Behind(v.pending, b) /\ \A a \in DOMAIN v.awaiting : Behind(v.awaiting[a], b)

LEMMA TailedFits ==
  ASSUME NEW v \in Stream, Short(v), Content(v), InLine(v), NEW b \in Buffer, Fits(v, b)
  PROVE  LET r == Await(v.awaiting, b)
         IN /\ r \in Seq(Buffer) /\ Len(r) <= 2
            /\ \A i \in DOMAIN r : /\ r[i].dl # 0 /\ r[i].frames # {}
                                   /\ Own(r[i]) /\ Marked(r[i]) /\ Behind(v.pending, r[i])
                                   /\ r[i] = b \/ \E a \in DOMAIN v.awaiting : r[i] = v.awaiting[a]
            /\ \A i, j \in DOMAIN r : i < j => Behind(r[i], r[j])
<1> DEFINE r == Await(v.awaiting, b)
<1>1. v.awaiting \in Seq(Buffer) /\ Len(v.awaiting) <= 2
  BY StreamType DEF Short
<1>2. r \in Seq(Buffer) /\ Len(r) <= 2 /\ Tailed(r, v.awaiting, b)
  BY <1>1, AwaitIs
<1> HIDE DEF r
<1>3. PICK d \in {0, 1} : \A i \in DOMAIN r :
        IF i + d \in DOMAIN v.awaiting THEN r[i] = v.awaiting[i + d]
        ELSE r[i] = b /\ \A j \in DOMAIN r : j <= i
  BY <1>2 DEF Tailed
<1>4. \A i \in DOMAIN r : r[i] = b \/ \E a \in DOMAIN v.awaiting : r[i] = v.awaiting[a]
  BY <1>3
<1>5. ASSUME NEW i \in DOMAIN r
      PROVE  r[i].dl # 0 /\ r[i].frames # {} /\ Own(r[i]) /\ Marked(r[i]) /\ Behind(v.pending, r[i])
  <2>1. CASE r[i] = b
    BY <2>1 DEF Fits
  <2>2. CASE \E a \in DOMAIN v.awaiting : r[i] = v.awaiting[a]
    BY <2>2 DEF Content, InLine
  <2> QED BY <1>4, <2>1, <2>2
<1>6. ASSUME NEW i \in DOMAIN r, NEW j \in DOMAIN r, i < j
      PROVE  Behind(r[i], r[j])
  <2>1. DOMAIN r = 1 .. Len(r) /\ Len(r) \in Nat /\ DOMAIN v.awaiting = 1 .. Len(v.awaiting)
        /\ Len(v.awaiting) \in Nat
    BY <1>1, <1>2, LenProperties
  <2>2. i + d \in DOMAIN v.awaiting /\ r[i] = v.awaiting[i + d]
    BY <1>3, <1>6, <2>1
  <2>3. CASE j + d \in DOMAIN v.awaiting
    <3>1. r[j] = v.awaiting[j + d]
      BY <1>3, <2>3
    <3>2. i + d < j + d
      BY <1>6, <2>1
    <3> QED BY <2>2, <2>3, <3>1, <3>2 DEF InLine
  <2>4. CASE j + d \notin DOMAIN v.awaiting
    <3>1. r[j] = b
      BY <1>3, <2>4
    <3> QED BY <2>2, <3>1 DEF Fits
  <2> QED BY <2>3, <2>4
<1> QED BY <1>2, <1>4, <1>5, <1>6 DEF r
-----------------------------------------------------------------------------
(* The next interval begins.                                               *)
Good(v) == v \in Stream /\ Short(v) /\ Content(v) /\ InLine(v)

LEMMA GrownGood ==
  ASSUME NEW v, NEW w, w \in Stream, StreamGrows(v, w), w.awaiting = v.awaiting, Good(v)
  PROVE  Good(w)
  BY StreamGrown DEF Good, Short

Began(w, q, k) == [w EXCEPT !.awaiting = q, !.next = EmptyBuffer,
                            !.accumulating = [EmptyBuffer EXCEPT !.dl = k]]

(* What may wait next, of what is in the stream w.                         *)
Queue(w, q) ==
  /\ q \in Seq(Buffer) /\ Len(q) <= 2
  /\ \A i \in DOMAIN q : /\ q[i].dl # 0 /\ q[i].frames # {}
                         /\ Own(q[i]) /\ Marked(q[i]) /\ Behind(w.pending, q[i])
                         /\ \/ q[i].dl = w.next.dl
                            \/ \E a \in DOMAIN w.awaiting : q[i] = w.awaiting[a]
  /\ \A i, j \in DOMAIN q : i < j => Behind(q[i], q[j])

LEMMA BeganGood ==
  ASSUME NEW w, Good(w), NEW q, Queue(w, q), NEW k \in Intervals, Until(w, k)
  PROVE  LET x == Began(w, q, k)
         IN /\ Good(x) /\ Until(x, k) /\ (First(w) => First(x))
            /\ Before(w, k) => Before(x, k)
            /\ x.append = w.append /\ x.append_to = w.append_to /\ x.prev_ds = w.prev_ds
            /\ x.playing = w.playing
            /\ x.accumulating.dl = k /\ x.accumulating.frames = {}
            /\ ~x.accumulating.own_audio /\ x.accumulating.own_interval = NoGuid
<1> DEFINE n == [EmptyBuffer EXCEPT !.dl = k]
           x == Began(w, q, k)
<1>1. n \in Buffer /\ n.dl = k /\ n.frames = {} /\ n.own_interval = NoGuid
      /\ ~n.own_audio /\ Own(n)
  BY FreshIs
<1>2. x = [w EXCEPT !.awaiting = q, !.next = EmptyBuffer, !.accumulating = n]
  BY DEF Began
<1> HIDE DEF n, x
<1>3. x \in Stream
  BY <1>1, <1>2, EmptyIs DEF Good, Stream, Queue
<1>4. /\ x.accumulating = n /\ x.next = EmptyBuffer /\ x.pending = w.pending
      /\ x.playing = w.playing /\ x.awaiting = q /\ x.append = w.append
      /\ x.append_to = w.append_to /\ x.hold_count = w.hold_count
      /\ x.prev_ds = w.prev_ds /\ x.synced = w.synced
  BY <1>2 DEF Good, Stream
<1>5. Content(w) /\ InLine(w)
  BY DEF Good
<1>6. Content(x)
  <2>1. Own(x.pending) /\ Own(x.playing) /\ Own(x.next) /\ Own(x.accumulating)
    BY <1>1, <1>4, <1>5, EmptyIs DEF Content
  <2>2. x.pending.dl # 0 => x.pending.frames # {} /\ Marked(x.pending)
    BY <1>4, <1>5 DEF Content
  <2> QED BY <1>1, <1>4, <2>1, <2>2, EmptyIs DEF Content, Queue
<1>7. \A i \in DOMAIN q : q[i].dl <= k
  BY DEF Until, Queue
<1>8. w.pending.dl <= k /\ w.playing.dl <= k /\ w.next.dl <= k
  BY DEF Until
<1>9. InLine(x)
  BY <1>1, <1>4, <1>5, <1>7, <1>8, EmptyIs DEF InLine, Behind, Queue
<1>10. Until(x, k)
  <2>1. k \in Nat
    BY IntervalsAre
  <2> QED BY <1>1, <1>4, <1>7, <1>8, <2>1, EmptyIs DEF Until
<1>11. ASSUME First(w) PROVE First(x)
  <2>1. \A i \in DOMAIN q : Behind(w.playing, q[i])
    BY <1>11 DEF First, Behind, Queue
  <2> QED BY <1>1, <1>4, <1>8, <1>11, <2>1, EmptyIs DEF First, Behind
<1>12. ASSUME Before(w, k) PROVE Before(x, k)
  <2>1. \A i \in DOMAIN q : q[i].dl < k
    BY <1>12 DEF Before, Queue
  <2>2. 0 < k
    <3>1. w.next \in Buffer /\ k \in Nat
      BY StreamType, IntervalsAre DEF Good
    <3>2. w.next.dl \in Nat /\ w.next.dl < k
      BY <1>12, <3>1, BufferType DEF Before
    <3> QED BY <3>1, <3>2
  <2> QED BY <1>1, <1>4, <1>12, <2>1, <2>2, EmptyIs DEF Before
<1> QED BY <1>1, <1>3, <1>4, <1>6, <1>9, <1>10, <1>11, <1>12 DEF Good, Short, Queue, x

LEMMA BeginIs ==
  ASSUME NEW v, Good(v), NEW k \in Intervals, Until(v, k)
  PROVE  LET x == BeginDownload(v, k)
         IN /\ Good(x) /\ Until(x, k) /\ (First(v) => First(x))
            /\ Before(v, k) => Before(x, k)
            /\ x.append = 0 /\ x.prev_ds = v.prev_ds /\ x.playing.dl = v.playing.dl
            /\ x.accumulating.dl = k /\ x.accumulating.frames = {}
            /\ ~x.accumulating.own_audio /\ x.accumulating.own_interval = NoGuid
<1> DEFINE w == FinishAppend(v)
           o == IF MarkersTagged THEN w.next.marker + 1 ELSE NoGuid
           late == [w.next EXCEPT !.own_interval = o]
           q == IF HasFrames(w.next) /\ HasGuid(w.next) THEN Await(w.awaiting, late) ELSE w.awaiting
           x == BeginDownload(v, k)
<1>1. x = Began(w, q, k)
  BY DEF BeginDownload, Began
<1>2. w \in Stream /\ StreamGrows(v, w) /\ w.awaiting = v.awaiting /\ w.append = 0
      /\ w.prev_ds = v.prev_ds /\ w.playing.dl = v.playing.dl
  <2>1. v \in Stream
    BY DEF Good
  <2> HIDE DEF w
  <2> QED BY <2>1, FinishAppendIs DEF Settled, w
<1> HIDE DEF w, x
<1>3. Good(w) /\ Until(w, k) /\ (First(v) => First(w)) /\ (Before(v, k) => Before(w, k))
  BY <1>2, GrownGood, StreamGrown
<1>4. w.next \in Buffer /\ w.awaiting \in Seq(Buffer) /\ Len(w.awaiting) <= 2
  BY <1>2, <1>3, StreamType DEF Good, Short
<1>5. Queue(w, q)
  <2>1. CASE HasFrames(w.next) /\ HasGuid(w.next)
    <3>1. w.next.dl # 0 /\ w.next.frames # {} /\ Plain(w.next) /\ Own(w.next)
      BY <1>3, <2>1 DEF HasFrames, Good, Content
    <3>2. o \in Nat \union {NoGuid} /\ o \in {NoGuid, w.next.dl}
      <4>1. w.next.dl \in Nat /\ w.next.marker = w.next.dl - 1
        BY <1>4, <3>1, BufferType DEF Plain
      <4> QED BY <3>1, <4>1
    <3> HIDE DEF o
    <3>3. late \in Buffer /\ late.dl = w.next.dl /\ late.frames = w.next.frames
          /\ late.marker = w.next.marker /\ late.own_audio = w.next.own_audio
          /\ late.own_interval = o
      BY <1>4, <3>2 DEF Buffer
    <3> HIDE DEF late
    <3>4. Own(late) /\ Marked(late)
      BY <3>1, <3>2, <3>3 DEF Own, Marked, Plain
    <3>5. Behind(w.pending, late) /\ \A a \in DOMAIN w.awaiting : Behind(w.awaiting[a], late)
      BY <1>3, <3>3 DEF Good, InLine, Behind
    <3>6. Fits(w, late)
      BY <3>1, <3>3, <3>4, <3>5 DEF Fits
    <3>7. q = Await(w.awaiting, late)
      BY <2>1
    <3> HIDE DEF q
    <3> QED BY <1>3, <3>3, <3>6, <3>7, TailedFits DEF Good, Queue
  <2>2. CASE ~(HasFrames(w.next) /\ HasGuid(w.next))
    <3>1. q = w.awaiting
      BY <2>2
    <3> HIDE DEF q
    <3>2. /\ \A a \in DOMAIN w.awaiting : /\ w.awaiting[a].dl # 0 /\ w.awaiting[a].frames # {}
                                           /\ Own(w.awaiting[a]) /\ Marked(w.awaiting[a])
                                           /\ Behind(w.pending, w.awaiting[a])
          /\ \A a, c \in DOMAIN w.awaiting : a < c => Behind(w.awaiting[a], w.awaiting[c])
      BY <1>3 DEF Good, Content, InLine
    <3> QED BY <1>4, <3>1, <3>2 DEF Queue
  <2> QED BY <2>1, <2>2
<1> HIDE DEF q
<1>6. LET y == Began(w, q, k)
      IN /\ Good(y) /\ Until(y, k) /\ (First(w) => First(y))
         /\ Before(w, k) => Before(y, k)
         /\ y.append = w.append /\ y.append_to = w.append_to /\ y.prev_ds = w.prev_ds
         /\ y.playing = w.playing
         /\ y.accumulating.dl = k /\ y.accumulating.frames = {}
         /\ ~y.accumulating.own_audio /\ y.accumulating.own_interval = NoGuid
  BY <1>3, <1>5, BeganGood
<1> QED BY <1>1, <1>2, <1>3, <1>6 DEF x
-----------------------------------------------------------------------------
(* One frame comes.                                                        *)
LEMMA AddFrameIs ==
  ASSUME NEW b \in Buffer, NEW k \in Intervals, NEW f \in Frames, b.dl = k
  PROVE  /\ AddFrame(b, k, f) \in Buffer /\ Grows(b, AddFrame(b, k, f))
         /\ AddFrame(b, k, f).frames # {}
<1> DEFINE s == b.frames \union {<<k, f>>}
<1>1. s \in SUBSET (Intervals \X Frames)
  BY BufferType
<1>2. AddFrame(b, k, f) = [b EXCEPT !.frames = s]
  BY DEF AddFrame
<1>3. \A g \in s : g \in b.frames \/ g[1] = k
  OBVIOUS
<1>4. b.frames \subseteq s /\ s # {}
  OBVIOUS
<1> HIDE DEF s
<1> QED BY <1>1, <1>2, <1>3, <1>4 DEF Buffer, Grows

Written(v, to, k, f) == [v EXCEPT ![to] = AddFrame(@, k, f), !.append = k, !.append_to = to]

LEMMA WriteDirect ==
  ASSUME NEW v, Good(v), NEW k \in Intervals, NEW f \in Frames,
         NEW to \in {"playing", "pending", "next"}, v[to].dl = k
  PROVE  LET x == Written(v, to, k, f)
         IN /\ Good(x) /\ StreamGrows(v, x) /\ x.append = k /\ x[x.append_to].dl = k
            /\ x.prev_ds = v.prev_ds /\ x.accumulating = v.accumulating
<1> DEFINE c == AddFrame(v[to], k, f)
           y == Put(v, to, c)
           x == Written(v, to, k, f)
<1>1. v \in Stream /\ v[to] \in Buffer
  BY StreamType DEF Good
<1>2. c \in Buffer /\ Grows(v[to], c)
  BY <1>1, AddFrameIs
<1>3. x = Aim(y, k, to)
  BY <1>1 DEF Aim, Put, Written
<1> HIDE DEF c, x
<1>4. /\ y \in Stream /\ StreamGrows(v, y) /\ Settled(y, v)
      /\ y.awaiting = v.awaiting /\ y.accumulating = v.accumulating
      /\ y[to].dl = k
  BY <1>1, <1>2, OneGrows
<1> HIDE DEF y
<1>5. /\ x \in Stream /\ StreamGrows(y, x) /\ Settled(x, y)
      /\ x.awaiting = y.awaiting /\ x.accumulating = y.accumulating
      /\ x.append = k /\ x.append_to = to /\ x[to] = y[to]
  <2> DEFINE w == Aim(y, k, to)
  <2>1. /\ w \in Stream /\ StreamGrows(y, w) /\ Settled(w, y)
        /\ w.awaiting = y.awaiting /\ w.accumulating = y.accumulating
        /\ w.append = k /\ w.append_to = to
        /\ \A t \in {"playing", "pending", "next"} : w[t] = y[t]
    <3>1. Redirection(y, k, to, w)
      BY <1>4, Redirected
    <3> QED BY <3>1 DEF Redirection
  <2>2. x = w
    BY <1>3
  <2> HIDE DEF w
  <2> QED BY <2>1, <2>2
<1>6. Good(x)
  BY <1>4, <1>5, GrownGood
<1>7. StreamGrows(v, x)
  BY <1>4, <1>5 DEF StreamGrows, Grows
<1> QED BY <1>4, <1>5, <1>6, <1>7 DEF Settled, x

Awaits(v, a, k, f) == [v EXCEPT !.awaiting[a] = AddFrame(@, k, f)]

LEMMA WriteAwaiting ==
  ASSUME NEW v, Good(v), NEW k \in Intervals, NEW f \in Frames,
         NEW a \in DOMAIN v.awaiting, v.awaiting[a].dl = k
  PROVE  LET x == Awaits(v, a, k, f)
         IN /\ Good(x) /\ StreamGrows(v, x) /\ x.append = v.append
            /\ x.append_to = v.append_to /\ x.prev_ds = v.prev_ds
<1> DEFINE c == AddFrame(v.awaiting[a], k, f)
           q == [v.awaiting EXCEPT ![a] = c]
           x == Awaits(v, a, k, f)
<1>1. v \in Stream /\ v.awaiting \in Seq(Buffer) /\ v.awaiting[a] \in Buffer
  BY StreamType DEF Good
<1>2. c \in Buffer /\ Grows(v.awaiting[a], c)
  BY <1>1, AddFrameIs
<1>3. x = [v EXCEPT !.awaiting = q]
  BY <1>1 DEF Stream, Awaits
<1> HIDE DEF c, x
<1>4. /\ q \in Seq(Buffer) /\ Len(q) = Len(v.awaiting) /\ DOMAIN q = DOMAIN v.awaiting
      /\ \A i \in DOMAIN v.awaiting : q[i] = IF i = a THEN c ELSE v.awaiting[i]
  <2>1. a \in 1 .. Len(v.awaiting)
    BY <1>1, LenProperties
  <2> QED BY <1>1, <1>2, <2>1, ExceptSeq
<1> HIDE DEF q
<1>5. x \in Stream
  BY <1>1, <1>3, <1>4 DEF Stream
<1>6. /\ x.accumulating = v.accumulating /\ x.next = v.next /\ x.pending = v.pending
      /\ x.playing = v.playing /\ x.awaiting = q /\ x.append = v.append
      /\ x.append_to = v.append_to /\ x.prev_ds = v.prev_ds
  BY <1>1, <1>3 DEF Stream
<1>7. StreamGrows(v, x)
  <2>1. \A b : Grows(b, b)
    BY GrowsSelf
  <2> QED BY <1>2, <1>4, <1>6, <2>1 DEF StreamGrows
<1>8. Good(x)
  BY <1>4, <1>5, <1>6, <1>7, StreamGrown DEF Good, Short
<1> QED BY <1>6, <1>7, <1>8 DEF x
-----------------------------------------------------------------------------
(* The interval that accumulates starts to play, or goes on to wait.       *)
Taken(b, k, f) == [AddFrame(b, k, f) EXCEPT !.marker = IF b.frames = {} /\ f = 1 THEN k - 1 ELSE @]
Emptied(b)     == [b EXCEPT !.frames = {}]
Takes(b, k, f) == Plain(b) \/ (b.frames = {} /\ f = 1 /\ Named(b, k))

LEMMA AccumulatedIs ==
  ASSUME NEW b \in Buffer, NEW k \in Intervals, NEW f \in Frames, b.dl = k, Own(b), 1 <= k,
         Takes(b, k, f)
  PROVE  LET c == Taken(b, k, f)
             e == Emptied(c)
         IN /\ c \in Buffer /\ c.dl = k /\ c.frames # {} /\ Own(c) /\ Plain(c)
            /\ e \in Buffer /\ e.dl = k /\ e.frames = {} /\ Own(e) /\ Plain(e)
<1> DEFINE m == IF b.frames = {} /\ f = 1 THEN k - 1 ELSE b.marker
           d == AddFrame(b, k, f)
           c == Taken(b, k, f)
           e == Emptied(c)
<1>1. d \in Buffer /\ Grows(b, d) /\ d.frames # {}
  BY AddFrameIs
<1>2. m = k - 1 /\ m \in Nat \union {NoGuid} /\ k \in Nat
  BY IntervalsAre DEF Plain, Named, Takes
<1>3. ~b.own_audio /\ b.own_interval = NoGuid
  BY DEF Plain, Named, Takes
<1>4. d.dl = k /\ ~d.own_audio /\ d.own_interval = NoGuid /\ Own(d)
  BY <1>1, <1>3, GrownFacts DEF Grows
<1>9. c = [d EXCEPT !.marker = m]
  <2>1. d.marker = b.marker
    BY <1>1 DEF Grows
  <2> QED BY <2>1 DEF Taken
<1> HIDE DEF m, d, c
<1>5. c \in Buffer /\ c.dl = k /\ c.frames = d.frames /\ c.marker = m
      /\ c.own_audio = d.own_audio /\ c.own_interval = NoGuid
  BY <1>1, <1>2, <1>4, <1>9 DEF Buffer
<1>6. e \in Buffer /\ e.dl = k /\ e.frames = {} /\ e.marker = m
      /\ e.own_audio = c.own_audio /\ e.own_interval = NoGuid
  BY <1>5 DEF Buffer, Emptied
<1> HIDE DEF e
<1>7. Own(c) /\ Own(e)
  BY <1>4, <1>5, <1>6 DEF Own
<1>8. Plain(c) /\ Plain(e)
  BY <1>2, <1>4, <1>5, <1>6 DEF Plain
<1> QED BY <1>1, <1>5, <1>6, <1>7, <1>8 DEF c, d, e, m

LEMMA AccumulateIs ==
  ASSUME NEW v, Good(v), NEW k \in Intervals, NEW f \in Frames, Until(v, k), 1 <= k,
         v.append # k, v.append <= k, v.accumulating.dl = k,
         Takes(v.accumulating, k, f)
  PROVE  LET x == Accumulate(v, k, f)
         IN /\ Good(x) /\ Until(x, k) /\ (First(v) => First(x)) /\ Aims(x, k)
            /\ x.append <= k /\ x.prev_ds = v.prev_ds /\ Plain(x.accumulating)
            /\ x.playing = v.playing
<1> DEFINE b == v.accumulating
           c == Taken(b, k, f)
           e == Emptied(c)
           x == Accumulate(v, k, f)
<1>1. v \in Stream /\ b \in Buffer /\ Content(v) /\ InLine(v) /\ k \in Nat
  BY StreamType, IntervalsAre DEF Good
<1>2. b.dl = k /\ Own(b) /\ Takes(b, k, f)
  BY <1>1 DEF Content
<1>3. x = IF v.append = 0 /\ v.next.dl = 0
            THEN [v EXCEPT !.next = c, !.append = k, !.append_to = "next", !.accumulating = e]
            ELSE [v EXCEPT !.accumulating = c]
  BY DEF Accumulate, Taken, Emptied
<1> HIDE DEF b
<1>4. /\ c \in Buffer /\ c.dl = k /\ c.frames # {} /\ Own(c) /\ Plain(c)
      /\ e \in Buffer /\ e.dl = k /\ e.frames = {} /\ Own(e) /\ Plain(e)
  BY <1>1, <1>2, AccumulatedIs
<1> HIDE DEF x, e, c
<1>5. /\ \A a \in DOMAIN v.awaiting : v.awaiting[a].dl <= k
      /\ v.pending.dl <= k /\ v.playing.dl <= k /\ v.next.dl <= k
  BY DEF Until
<1>6. CASE v.append = 0 /\ v.next.dl = 0
  <2>1. x = [v EXCEPT !.next = c, !.append = k, !.append_to = "next", !.accumulating = e]
    BY <1>3, <1>6
  <2>2. x \in Stream
    BY <1>1, <1>4, <2>1 DEF Stream
  <2>3. /\ x.accumulating = e /\ x.next = c /\ x.pending = v.pending
        /\ x.playing = v.playing /\ x.awaiting = v.awaiting /\ x.append = k
        /\ x.append_to = "next" /\ x.prev_ds = v.prev_ds
    BY <1>1, <2>1 DEF Stream
  <2>4. Content(x)
    BY <1>1, <1>4, <2>3 DEF Content
  <2>5. InLine(x)
    BY <1>1, <1>4, <1>5, <2>3 DEF InLine, Behind
  <2>6. Until(x, k)
    BY <1>1, <1>4, <1>5, <2>3 DEF Until
  <2>7. First(v) => First(x)
    BY <1>4, <1>5, <2>3 DEF First, Behind
  <2>8. Aims(x, k)
    BY <1>4, <2>3 DEF Aims
  <2> QED BY <1>1, <1>4, <2>2, <2>3, <2>4, <2>5, <2>6, <2>7, <2>8 DEF Good, Short, x
<1>7. CASE ~(v.append = 0 /\ v.next.dl = 0)
  <2>1. x = [v EXCEPT !.accumulating = c]
    BY <1>3, <1>7
  <2>2. x \in Stream
    BY <1>1, <1>4, <2>1 DEF Stream
  <2>3. /\ x.accumulating = c /\ x.next = v.next /\ x.pending = v.pending
        /\ x.playing = v.playing /\ x.awaiting = v.awaiting /\ x.append = v.append
        /\ x.append_to = v.append_to /\ x.prev_ds = v.prev_ds
    BY <1>1, <2>1 DEF Stream
  <2>4. Content(x)
    BY <1>1, <1>4, <2>3 DEF Content
  <2>5. InLine(x)
    BY <1>1, <1>4, <1>5, <2>3 DEF InLine, Behind
  <2>6. Until(x, k)
    BY <1>1, <1>4, <1>5, <2>3 DEF Until
  <2>7. First(v) => First(x)
    BY <1>4, <1>5, <2>3 DEF First, Behind
  <2>8. Aims(x, k)
    BY <2>3 DEF Aims
  <2> QED BY <1>1, <1>4, <2>2, <2>3, <2>4, <2>5, <2>6, <2>7, <2>8 DEF Good, Short, x
<1> QED BY <1>6, <1>7

LEMMA WriteIs ==
  ASSUME NEW v, Good(v), NEW k \in Intervals, NEW f \in Frames, Until(v, k), 1 <= k,
         v.append <= k, Aims(v, k),
         \/ v.accumulating.dl = 0 \/ Plain(v.accumulating)
         \/ f = 1 /\ Named(v.accumulating, k),
         f = 1 => Unstarted(v, k)
  PROVE  LET x == WriteFrame(v, k, f)
         IN /\ Good(x) /\ Until(x, k) /\ (First(v) => First(x)) /\ Aims(x, k)
            /\ x.append <= k /\ x.prev_ds = v.prev_ds
            /\ x.accumulating.dl = 0 \/ Plain(x.accumulating)
            /\ x.playing.dl = v.playing.dl
<1> DEFINE x == WriteFrame(v, k, f)
           to == Route(v, k)
<1>1. v \in Stream /\ k \in Nat
  BY IntervalsAre DEF Good
<1>2. CASE to = "accumulating"
  <2>1. v.append # k /\ v.accumulating.dl = k
    BY <1>1, <1>2, StreamType DEF Route
  <2>2. Takes(v.accumulating, k, f)
    <3>1. CASE f = 1 /\ Named(v.accumulating, k)
      <4>1. Before(v, k)
        BY <3>1 DEF Unstarted
      <4>2. v.accumulating.frames = {}
        BY <1>1, <2>1, <4>1 DEF Before
      <4> QED BY <3>1, <4>2 DEF Takes
    <3> QED BY <1>1, <2>1, <3>1 DEF Takes
  <2>3. x = Accumulate(v, k, f)
    BY <1>2 DEF WriteFrame
  <2> QED BY <2>1, <2>2, <2>3, AccumulateIs
<1>3. CASE to \in {"playing", "pending", "next"}
  <2>1. v[to].dl = k /\ (v.append = k \/ v.playing.dl = k \/ v.pending.dl = k)
    <3>1. CASE v.append = k
      <4>1. to = v.append_to /\ v[v.append_to].dl = k
        BY <3>1 DEF Route, Aims
      <4> QED BY <3>1, <4>1
    <3>2. CASE v.append # k
      BY <1>3, <3>2 DEF Route
    <3> QED BY <3>1, <3>2
  <2>2. x = Written(v, to, k, f)
    BY <1>3 DEF WriteFrame, Written
  <2>3. v.accumulating.dl = 0 \/ Plain(v.accumulating)
    <3>1. ~(Before(v, k) /\ v.append < k)
      BY <1>1, <2>1 DEF Before
    <3> QED BY <3>1 DEF Unstarted
  <2> HIDE DEF to, x
  <2>4. /\ Good(x) /\ StreamGrows(v, x) /\ x.append = k /\ x[x.append_to].dl = k
        /\ x.prev_ds = v.prev_ds /\ x.accumulating = v.accumulating
    BY <1>3, <2>1, <2>2, WriteDirect
  <2>5. Until(x, k) /\ (First(v) => First(x))
    BY <2>4, StreamGrown
  <2>6. x.playing.dl = v.playing.dl
    BY <2>4 DEF StreamGrows, Grows
  <2> QED BY <1>1, <2>3, <2>4, <2>5, <2>6 DEF Aims, x
<1>4. CASE to = "awaiting"
  <2>1. v.append # k /\ AwaitingAt(v, k) # {}
    BY <1>1, <1>4, StreamType DEF Route
  <2> DEFINE a == CHOOSE a \in AwaitingAt(v, k) : \A b \in AwaitingAt(v, k) : a <= b
  <2>2. a \in AwaitingAt(v, k)
    <3>1. AwaitingAt(v, k) \subseteq 1 .. Len(v.awaiting) /\ Len(v.awaiting) <= 2
          /\ Len(v.awaiting) \in Nat
      BY <1>1, StreamType, LenProperties DEF AwaitingAt, Good, Short
    <3>2. \E i \in AwaitingAt(v, k) : \A b \in AwaitingAt(v, k) : i <= b
      <4>1. AwaitingAt(v, k) \subseteq {1, 2}
        BY <3>1
      <4>2. CASE 1 \in AwaitingAt(v, k)
        BY <4>1, <4>2
      <4>3. CASE 1 \notin AwaitingAt(v, k)
        BY <2>1, <4>1, <4>3
      <4> QED BY <4>2, <4>3
    <3> QED BY <3>2
  <2>3. x = Awaits(v, a, k, f)
    BY <1>4 DEF WriteFrame, Awaits
  <2>4. a \in DOMAIN v.awaiting /\ v.awaiting[a].dl = k
    BY <1>1, <2>2, StreamType, LenProperties DEF AwaitingAt
  <2> HIDE DEF a, x
  <2>5. v.accumulating.dl = 0 \/ Plain(v.accumulating)
    <3>1. ~Before(v, k)
      BY <1>1, <2>4 DEF Before
    <3> QED BY <3>1 DEF Unstarted
  <2>6. /\ Good(x) /\ StreamGrows(v, x) /\ x.append = v.append
        /\ x.append_to = v.append_to /\ x.prev_ds = v.prev_ds
    BY <2>3, <2>4, WriteAwaiting
  <2>7. Until(x, k) /\ (First(v) => First(x))
    BY <2>6, StreamGrown
  <2>8. x.playing.dl = v.playing.dl /\ x.accumulating = v.accumulating
    BY <2>6 DEF StreamGrows, Grows
  <2> QED BY <2>1, <2>5, <2>6, <2>7, <2>8 DEF Aims, x
<1>5. CASE to = "nowhere"
  <2>1. v.append # k /\ v.accumulating.dl # k
    BY <1>1, <1>5, StreamType DEF Route
  <2>2. x = v
    BY <1>5 DEF WriteFrame
  <2>3. v.accumulating.dl = 0 \/ Plain(v.accumulating)
    BY <2>1 DEF Named
  <2> QED BY <2>1, <2>2, <2>3 DEF Aims
<1>6. to \in {"playing", "pending", "next", "awaiting", "accumulating", "nowhere"}
  BY <1>1, StreamType DEF Route
<1> QED BY <1>2, <1>3, <1>4, <1>5, <1>6
-----------------------------------------------------------------------------
(* The download ends.                                                      *)
LEMMA EndedIs ==
  ASSUME NEW b \in Buffer
  PROVE  Ended(b, TRUE) \in Buffer /\ Grows(b, Ended(b, TRUE))
<1> DEFINE c == Ended(b, TRUE)
<1>1. c \in Buffer
  BY DEF Buffer, Ended
<1>2. /\ c.dl = b.dl /\ c.marker = b.marker /\ c.frames = b.frames
      /\ c.own_audio = b.own_audio /\ c.own_interval = b.own_interval
  BY DEF Buffer, Ended
<1> HIDE DEF c
<1> QED BY <1>1, <1>2 DEF Grows, c

AllEnded(v, k) ==
  [v EXCEPT !.awaiting = [a \in DOMAIN @ |->
     IF @[a].dl = k THEN [@[a] EXCEPT !.ended = TRUE] ELSE @[a]]]

LEMMA EndAwaiting ==
  ASSUME NEW v, Good(v), NEW k
  PROVE  LET x == AllEnded(v, k)
         IN Good(x) /\ StreamGrows(v, x) /\ x.append = v.append /\ x.prev_ds = v.prev_ds
<1> DEFINE w == v.awaiting
           q == [a \in DOMAIN w |-> IF w[a].dl = k THEN Ended(w[a], TRUE) ELSE w[a]]
           x == AllEnded(v, k)
<1>1. v \in Stream /\ w \in Seq(Buffer) /\ \A a \in DOMAIN w : w[a] \in Buffer
  BY StreamType DEF Good
<1>2. x = [v EXCEPT !.awaiting = q]
  BY <1>1 DEF AllEnded, Stream, Ended
<1> HIDE DEF x
<1>3. \A a \in DOMAIN w : q[a] \in Buffer /\ Grows(w[a], q[a])
  BY <1>1, EndedIs, GrowsSelf
<1>4. q \in Seq(Buffer) /\ Len(q) = Len(w) /\ DOMAIN q = DOMAIN w
  <2>1. DOMAIN w = 1 .. Len(w) /\ Len(w) \in Nat
    BY <1>1, LenProperties
  <2>2. DOMAIN q = DOMAIN w /\ q \in [1 .. Len(w) -> Buffer]
    BY <1>3, <2>1
  <2> HIDE DEF q
  <2> QED BY <2>1, <2>2, SeqDef, LenProperties
<1> HIDE DEF q, w
<1>5. x \in Stream
  BY <1>1, <1>2, <1>4 DEF Stream
<1>6. /\ x.accumulating = v.accumulating /\ x.next = v.next /\ x.pending = v.pending
      /\ x.playing = v.playing /\ x.awaiting = q /\ x.append = v.append
      /\ x.append_to = v.append_to /\ x.prev_ds = v.prev_ds
  BY <1>1, <1>2 DEF Stream
<1>7. StreamGrows(v, x)
  <2>1. \A b : Grows(b, b)
    BY GrowsSelf
  <2> QED BY <1>3, <1>4, <1>6, <2>1 DEF StreamGrows, w
<1>8. Good(x)
  BY <1>4, <1>5, <1>6, <1>7, StreamGrown DEF Good, Short, w
<1> QED BY <1>6, <1>7, <1>8 DEF x

Replaced(v, n) == [v EXCEPT !.next = n, !.accumulating = EmptyBuffer]

LEMMA EndIs ==
  ASSUME NEW v, Good(v), NEW k \in Intervals, Until(v, k), v.append <= k, 1 <= k,
         v.accumulating.dl = 0 \/ Plain(v.accumulating)
  PROVE  LET x == EndDownload(v, k)
         IN /\ Good(x) /\ Until(x, k) /\ (First(v) => First(x))
            /\ x.append <= k /\ x.prev_ds = v.prev_ds
            /\ x.accumulating.dl = 0 \/ Plain(x.accumulating)
            /\ x.playing.dl = v.playing.dl
<1> DEFINE x == EndDownload(v, k)
           b == v.accumulating
           n == IF Cardinality(b.frames) > 1 THEN Ended(b, TRUE) ELSE v.next
<1>1. v \in Stream /\ k \in Nat /\ b \in Buffer /\ v.next \in Buffer
  BY IntervalsAre, StreamType DEF Good
<1>2. CASE AwaitingAt(v, k) # {}
  <2>0. x = AllEnded(v, k)
    BY <1>2 DEF EndDownload, AllEnded
  <2> HIDE DEF x
  <2>1. Good(x) /\ StreamGrows(v, x) /\ x.append = v.append /\ x.prev_ds = v.prev_ds
    BY <2>0, EndAwaiting
  <2>2. Until(x, k) /\ (First(v) => First(x))
    BY <2>1, StreamGrown
  <2>3. x.playing.dl = v.playing.dl /\ x.accumulating = v.accumulating
    BY <2>1 DEF StreamGrows, Grows
  <2> QED BY <2>1, <2>2, <2>3 DEF x
<1>3. CASE AwaitingAt(v, k) = {} /\ v.append = k
  <2>1. x = FinishAppend(v)
    BY <1>3 DEF EndDownload
  <2> HIDE DEF x
  <2>2. /\ x \in Stream /\ StreamGrows(v, x) /\ Settled(x, v)
        /\ x.awaiting = v.awaiting /\ x.accumulating = v.accumulating
        /\ x.append = 0 /\ x.playing.dl = v.playing.dl
    BY <1>1, <2>1, FinishAppendIs
  <2>3. Good(x) /\ Until(x, k) /\ (First(v) => First(x))
    BY <2>2, GrownGood, StreamGrown
  <2> QED BY <1>1, <2>2, <2>3 DEF Settled, x
<1>4. CASE AwaitingAt(v, k) = {} /\ v.append # k /\ b.dl # k
  <2>1. x = v
    BY <1>4 DEF EndDownload
  <2> QED BY <2>1
<1>5. CASE AwaitingAt(v, k) = {} /\ v.append # k /\ b.dl = k
  <2>1. x = Replaced(v, n)
    BY <1>5 DEF EndDownload, Ended, Replaced
  <2>2. Content(v) /\ InLine(v)
    BY DEF Good
  <2>3. /\ n \in Buffer /\ Own(n) /\ (n.dl # 0 => n.frames # {} /\ Plain(n))
        /\ n = v.next \/ n.dl = k
    <3>1. CASE Cardinality(b.frames) > 1
      <4>1. n = Ended(b, TRUE)
        BY <3>1
      <4>2. n \in Buffer /\ Grows(b, n)
        BY <1>1, <4>1, EndedIs
      <4>3. b.frames # {}
        <5>1. Cardinality({}) = 0
          BY FS_EmptySet
        <5> QED BY <3>1, <5>1
      <4> HIDE DEF n
      <4>4. Own(b) /\ Plain(b)
        BY <1>1, <1>5, <2>2 DEF Content
      <4> QED BY <1>5, <4>2, <4>3, <4>4, GrownFacts DEF n
    <3>2. CASE ~(Cardinality(b.frames) > 1)
      <4>1. n = v.next
        BY <3>2
      <4> HIDE DEF n
      <4> QED BY <1>1, <2>2, <4>1 DEF Content
    <3> QED BY <3>1, <3>2
  <2> HIDE DEF x, n
  <2>4. x \in Stream
    BY <1>1, <2>1, <2>3, EmptyIs DEF Stream, Replaced
  <2>5. /\ x.accumulating = EmptyBuffer /\ x.next = n /\ x.pending = v.pending
        /\ x.playing = v.playing /\ x.awaiting = v.awaiting /\ x.append = v.append
        /\ x.append_to = v.append_to /\ x.prev_ds = v.prev_ds
    BY <1>1, <2>1 DEF Stream, Replaced
  <2>6. /\ \A a \in DOMAIN v.awaiting : v.awaiting[a].dl <= k
        /\ v.pending.dl <= k /\ v.playing.dl <= k /\ v.next.dl <= k
    BY DEF Until
  <2>7. Content(x)
    BY <2>2, <2>3, <2>5, EmptyIs DEF Content
  <2>8. InLine(x)
    BY <2>2, <2>3, <2>5, <2>6, EmptyIs DEF InLine, Behind
  <2>9. Until(x, k)
    BY <1>1, <2>3, <2>5, <2>6, EmptyIs DEF Until
  <2>10. First(v) => First(x)
    BY <2>3, <2>5, <2>6, EmptyIs DEF First, Behind
  <2> QED BY <1>5, <2>4, <2>5, <2>7, <2>8, <2>9, <2>10, EmptyIs DEF Good, Short, x
<1> QED BY <1>2, <1>3, <1>4, <1>5
-----------------------------------------------------------------------------
(* The audio at a boundary.                                                *)
Within(q, t, a) == \A i \in SlotIdx : q[i] # None => t < q[i].iv /\ q[i].iv <= a

LEMMA EntryInterval == ASSUME NEW e \in MaybeEntry, e # None PROVE e.iv \in Nat
  BY EntryType DEF MaybeEntry

LEMMA SlotCases == SlotIdx = {0, 1, 2}
  BY DEF SlotIdx

LEMMA DeliverSorted ==
  ASSUME NEW q \in Slots, Sorted(q), NEW a \in Nat, NEW e \in Entry, e.iv = a + 1,
         \A i \in SlotIdx : q[i] # None => q[i].iv <= a
  PROVE  LET r == Deliver(q, e)
         IN /\ r \in Slots /\ Sorted(r) /\ r[0] = q[0]
            /\ \A i \in SlotIdx : r[i] # None => r[i].iv <= a + 1 /\ (r[i] = q[i] \/ r[i] = e)
<1> DEFINE r == Deliver(q, e)
<1>1. e # None /\ e.iv \in Nat
  BY NoneAssumption, EntryType
<1>2. \A i \in SlotIdx : q[i] # None => q[i].iv \in Nat /\ q[i].iv < e.iv
  BY SlotsAre, EntryInterval
<1>3. r \in Slots
  BY DeliverType DEF MaybeEntry
<1>4. CASE q[1] = None
  <2>1. q[2] = None
    BY <1>4 DEF Sorted, NoGap
  <2>2. r[0] = q[0] /\ r[1] = e /\ r[2] = None
    BY <1>4, <2>1 DEF Deliver, FreeSlot, Slots, SlotIdx
  <2> HIDE DEF r
  <2>3. Sorted(r)
    BY <1>1, <1>2, <2>2, SlotCases DEF Sorted, NoGap
  <2> QED BY <1>1, <1>2, <1>3, <2>2, <2>3, SlotCases DEF r
<1>5. CASE q[1] # None
  <2>1. r[0] = q[0] /\ r[1] = q[1] /\ r[2] = e
    BY <1>5 DEF Deliver, FreeSlot, Slots, SlotIdx
  <2> HIDE DEF r
  <2>2. Sorted(r)
    BY <1>1, <1>2, <1>5, <2>1, SlotCases DEF Sorted, NoGap
  <2> QED BY <1>1, <1>2, <1>3, <2>1, <2>2, SlotCases DEF r
<1> QED BY <1>4, <1>5

(* A queue whose entries are some of another one's, in the same order.     *)
Part(r, q) ==
  \/ \E k \in 0 .. 3 : \A i \in SlotIdx : r[i] = IF i + k \in SlotIdx THEN q[i + k] ELSE None
  \/ r[0] = None /\ r[1] = q[1] /\ r[2] = q[2]
  \/ r[0] = None /\ r[1] = q[2] /\ r[2] = None

LEMMA PartSorted ==
  ASSUME NEW q \in Slots, Sorted(q), NEW r \in Slots, Part(r, q)
  PROVE  /\ Sorted(r) /\ (\A t, a : Within(q, t, a) => Within(r, t, a))
         /\ \A i \in SlotIdx : r[i] # None => \E j \in SlotIdx : r[i] = q[j]
<1>1. /\ r[0] = None \/ r[0] \in {q[0], q[1], q[2]}
      /\ r[1] = None \/ r[1] \in {q[1], q[2]}
      /\ r[2] = None \/ r[2] = q[2]
      /\ r[0] # None => \/ r[0] = q[0] /\ r[1] = q[1] /\ r[2] = q[2]
                        \/ r[0] = q[1] /\ r[1] = q[2] /\ r[2] = None
                        \/ r[0] = q[2] /\ r[1] = None /\ r[2] = None
      /\ r[1] = q[2] /\ r[1] # None /\ r[0] = None => r[2] = None \/ r[1] = q[1]
      /\ \/ r[1] = q[1] /\ r[2] = q[2]
         \/ r[1] = q[2] /\ r[2] = None
         \/ r[1] = None /\ r[2] = None
  <2>1. CASE \E k \in 0 .. 3 : \A i \in SlotIdx : r[i] = IF i + k \in SlotIdx THEN q[i + k] ELSE None
    <3>1. PICK k \in 0 .. 3 : \A i \in SlotIdx : r[i] = IF i + k \in SlotIdx THEN q[i + k] ELSE None
      BY <2>1
    <3>2. k \in {0, 1, 2, 3}
      OBVIOUS
    <3>3. CASE k = 0
      <4>1. r[0] = q[0] /\ r[1] = q[1] /\ r[2] = q[2]
        BY <3>1, <3>3, SlotCases
      <4> QED BY <4>1
    <3>4. CASE k = 1
      <4>1. r[0] = q[1] /\ r[1] = q[2] /\ r[2] = None
        BY <3>1, <3>4, SlotCases
      <4> QED BY <4>1
    <3>5. CASE k = 2
      <4>1. r[0] = q[2] /\ r[1] = None /\ r[2] = None
        BY <3>1, <3>5, SlotCases
      <4> QED BY <4>1
    <3>6. CASE k = 3
      <4>1. r[0] = None /\ r[1] = None /\ r[2] = None
        BY <3>1, <3>6, SlotCases
      <4> QED BY <4>1
    <3> QED BY <3>2, <3>3, <3>4, <3>5, <3>6
  <2>2. CASE r[0] = None /\ r[1] = q[1] /\ r[2] = q[2]
    BY <2>2
  <2>3. CASE r[0] = None /\ r[1] = q[2] /\ r[2] = None
    BY <2>3
  <2> QED BY <2>1, <2>2, <2>3 DEF Part
<1>2. NoGap(q) /\ \A i, j \in SlotIdx : i < j /\ q[i] # None /\ q[j] # None => q[i].iv < q[j].iv
  BY DEF Sorted
<1>3. /\ q[0] # None /\ q[1] # None => q[0].iv < q[1].iv
      /\ q[1] # None /\ q[2] # None => q[1].iv < q[2].iv
      /\ q[0] # None /\ q[2] # None => q[0].iv < q[2].iv
  BY <1>2, SlotCases
<1>4. NoGap(r)
  BY <1>1, <1>2 DEF NoGap
<1>5. /\ r[0] # None /\ r[1] # None => r[0].iv < r[1].iv
      /\ r[1] # None /\ r[2] # None => r[1].iv < r[2].iv
      /\ r[0] # None /\ r[2] # None => r[0].iv < r[2].iv
  BY <1>1, <1>3
<1>6. Sorted(r)
  BY <1>4, <1>5, SlotCases DEF Sorted
<1>7. \A i \in SlotIdx : r[i] # None => \E j \in SlotIdx : r[i] = q[j]
  BY <1>1, SlotCases
<1>8. \A t, a : Within(q, t, a) => Within(r, t, a)
  BY <1>7 DEF Within
<1> QED BY <1>6, <1>7, <1>8

LEMMA AgedSorted ==
  ASSUME NEW q \in Slots, Sorted(q)
  PROVE  /\ AgeAll(q) \in Slots /\ Sorted(AgeAll(q))
         /\ \A t, a : Within(q, t, a) => Within(AgeAll(q), t, a)
<1> DEFINE r == AgeAll(q)
<1>1. r \in Slots
  BY AgeAllType
<1>2. \A i \in SlotIdx : /\ r[i] = None <=> q[i] = None
                         /\ q[i] # None => r[i].iv = q[i].iv
  <2>1. \A i \in SlotIdx : r[i] = Aged(q[i])
    BY DEF AgeAll
  <2> QED BY <2>1, SlotsAre, AgedType
<1> HIDE DEF r
<1>3. Sorted(r)
  BY <1>2, SlotCases DEF Sorted, NoGap
<1>4. \A t, a : Within(q, t, a) => Within(r, t, a)
  BY <1>2 DEF Within
<1> QED BY <1>1, <1>3, <1>4 DEF r

LEMMA AdvanceSlots ==
  ASSUME NEW q \in Slots, NEW listening \in BOOLEAN
  PROVE  LET r == Advance(q, listening)
         IN r[0] \in {q[1], None} /\ r[1] = q[2] /\ r[2] = None
  BY DEF Advance, Shift, SlotIdx

(* What was heard last, t, is gone from the line.                          *)
LEMMA BoundaryLine ==
  ASSUME line \in Slots, hold \in 0 .. 1, Sorted(line), NEW t, NEW a,
         \A i \in SlotIdx : line[i] # None => line[i].iv <= a,
         \A i \in SlotIdx : line[i] # None /\ (i > 0 \/ hold > 0) => line[i].iv > t,
         NEW listening \in BOOLEAN, Boundary(listening)
  PROVE  line' \in Slots /\ hold' \in 0 .. 1 /\ Sorted(line') /\ Within(line', t, a)
<1>1. PICK d \in Advanced(listening) : \E s \in Aligned(d) :
        line' = AgeAll(s) /\ hold' \in IF CanHold(s) THEN {0, 1} ELSE {0}
  BY DEF Boundary
<1>2. PICK s \in Aligned(d) : line' = AgeAll(s) /\ hold' \in IF CanHold(s) THEN {0, 1} ELSE {0}
  BY <1>1
<1>3. d \in Slots /\ Sorted(d) /\ Within(d, t, a)
  <2>1. CASE hold > 0
    <3>1. d = line
      BY <1>1, <2>1 DEF Advanced
    <3> QED BY <2>1, <3>1 DEF Within
  <2>2. CASE hold = 0 /\ d = Advance(line, listening)
    <3>1. d \in Slots
      BY <2>2, AdvanceType
    <3>2. d[0] \in {line[1], None} /\ d[1] = line[2] /\ d[2] = None
      BY <2>2, AdvanceSlots
    <3>3. Part(d, line)
      <4>1. CASE d[0] = None
        BY <3>2, <4>1 DEF Part
      <4>2. CASE d[0] = line[1]
        <5>1. \A i \in SlotIdx : d[i] = IF i + 1 \in SlotIdx THEN line[i + 1] ELSE None
          BY <3>2, <4>2 DEF SlotIdx
        <5> QED BY <5>1 DEF Part
      <4> QED BY <3>2, <4>1, <4>2
    <3>4. Sorted(d)
      BY <3>1, <3>3, PartSorted
    <3>5. Within(d, t, a)
      BY <3>2, SlotCases DEF Within
    <3> QED BY <3>1, <3>4, <3>5
  <2>3. CASE hold = 0 /\ d = [line EXCEPT ![0] = None]
    <3>1. d[0] = None /\ d[1] = line[1] /\ d[2] = line[2] /\ d \in Slots
      BY <2>3 DEF Slots, SlotIdx
    <3>2. Part(d, line)
      BY <3>1 DEF Part
    <3>3. Sorted(d)
      BY <3>1, <3>2, PartSorted
    <3>4. Within(d, t, a)
      BY <3>1, SlotCases DEF Within
    <3> QED BY <3>1, <3>3, <3>4
  <2> QED BY <1>1, <2>1, <2>2, <2>3 DEF Advanced
<1>4. s \in Slots /\ Sorted(s) /\ Within(s, t, a)
  <2>1. CASE s = d
    BY <1>3, <2>1
  <2>2. CASE \E u \in Intervals : s = SkipTo(d, u)
    <3>1. PICK u \in Intervals : s = SkipTo(d, u)
      BY <2>2
    <3>2. SkipCount(d, u) \in 0 .. 3 /\ s \in Slots
      BY <1>3, <3>1, SkipCountSpec, SkipToType
    <3>3. \A i \in SlotIdx : s[i] = IF i + SkipCount(d, u) \in SlotIdx THEN d[i + SkipCount(d, u)] ELSE None
      BY <3>1 DEF SkipTo, Shift
    <3>4. Part(s, d)
      BY <3>2, <3>3 DEF Part
    <3> QED BY <1>3, <3>2, <3>4, PartSorted
  <2> QED BY <1>2, <2>1, <2>2 DEF Aligned
<1> QED BY <1>2, <1>4, AgedSorted
-----------------------------------------------------------------------------
(* Where an interval is in the audio.                                      *)
Sound(q, h) == Guid(Heard(q, h))

LEMMA GuidIs ==
  ASSUME NEW e \in MaybeEntry
  PROVE  /\ Guid(e) \in Nat \union {NoGuid}
         /\ Guid(e) = NoGuid <=> e = None
         /\ e # None => Guid(e) = e.iv
  BY EntryInterval DEF Guid

LEMMA SoundIs ==
  ASSUME NEW q \in Slots, NEW h \in 0 .. 1
  PROVE  /\ Sound(q, h) \in Nat \union {NoGuid}
         /\ Sound(q, h) = NoGuid <=> Heard(q, h) = None
         /\ Heard(q, h) # None => h = 0 /\ q[0] # None /\ Sound(q, h) = q[0].iv
<1>1. q[0] \in MaybeEntry /\ None \in MaybeEntry
  BY SlotsAre DEF SlotIdx, MaybeEntry
<1>2. Heard(q, h) \in MaybeEntry
  BY <1>1 DEF Heard
<1> QED BY <1>1, <1>2, GuidIs DEF Sound, Heard

LEMMA PositionIs ==
  ASSUME NEW q \in Slots, Sorted(q), NEW h \in 0 .. 1, NEW g \in Nat \union {NoGuid}
  PROVE  LET p == Position(q, h, g)
             s == Sound(q, h)
         IN /\ p \in Int
            /\ p > 0 => s < g
            /\ p = 0 => s = g /\ s # NoGuid
            /\ p < 0 /\ g # NoGuid /\ ~Passed(q, g) => s < g
<1> DEFINE at == {i \in SlotIdx : Guid(q[i]) = g}
           i0 == CHOOSE i \in at : \A j \in at : i <= j
           p == Position(q, h, g)
           s == Sound(q, h)
<1>1. \A i \in SlotIdx : /\ q[i] \in MaybeEntry /\ Guid(q[i]) \in Nat \union {NoGuid}
                         /\ Guid(q[i]) = NoGuid <=> q[i] = None
                         /\ q[i] # None => Guid(q[i]) = q[i].iv
  BY SlotsAre, GuidIs
<1>2. s \in Nat \union {NoGuid} /\ (s # NoGuid => h = 0 /\ q[0] # None /\ s = q[0].iv)
  BY SoundIs
<1>3. h = 0 => s = Guid(q[0])
  BY DEF Sound, Heard
<1> HIDE DEF s
<1>4. CASE g = NoGuid \/ at = {}
  <2>1. p = -1
    BY <1>4 DEF Position
  <2>2. g # NoGuid /\ ~Passed(q, g) => s < g
    <3>1. SUFFICES ASSUME g # NoGuid, ~Passed(q, g), s # NoGuid PROVE s < g
      BY <1>2
    <3>2. 0 \notin at
      BY <1>4, <3>1
    <3>3. Guid(q[0]) # g
      BY <3>2, SlotCases
    <3>4. ~(q[0].iv > g)
      BY <1>2, <3>1, SlotCases DEF Passed
    <3>5. s = q[0].iv /\ Guid(q[0]) = q[0].iv
      BY <1>1, <1>2, <3>1, SlotCases
    <3> QED BY <1>2, <3>1, <3>3, <3>4, <3>5
  <2> QED BY <2>1, <2>2 DEF s
<1>5. CASE g # NoGuid /\ at # {}
  <2>1. i0 \in at /\ \A j \in at : i0 <= j
    <3>1. \E i \in at : \A j \in at : i <= j
      <4>1. at \subseteq {0, 1, 2}
        BY SlotCases
      <4> HIDE DEF at
      <4>2. CASE 0 \in at
        BY <4>1, <4>2
      <4>3. CASE 0 \notin at /\ 1 \in at
        BY <4>1, <4>3
      <4>4. CASE 0 \notin at /\ 1 \notin at
        <5>1. at = {2}
          BY <1>5, <4>1, <4>4
        <5> QED BY <5>1
      <4> QED BY <4>2, <4>3, <4>4
    <3> QED BY <3>1
  <2>2. p = h + i0
    BY <1>5 DEF Position
  <2> HIDE DEF i0, p
  <2>3. i0 \in {0, 1, 2} /\ Guid(q[i0]) = g
    BY <2>1, SlotCases
  <2>4. q[i0] # None /\ q[i0].iv = g
    BY <1>1, <1>5, <2>3, SlotCases
  <2>5. p > 0 => s < g
    <3>1. SUFFICES ASSUME p > 0, s # NoGuid PROVE s < g
      BY <1>2, <1>5
    <3>2. h = 0 /\ q[0] # None /\ s = q[0].iv
      BY <1>2, <3>1
    <3>3. 0 < i0 /\ i0 \in SlotIdx /\ 0 \in SlotIdx
      BY <2>2, <2>3, <3>1, <3>2, SlotCases
    <3> QED BY <2>4, <3>2, <3>3 DEF Sorted
  <2>6. p = 0 => s = g
    BY <1>3, <2>2, <2>3
  <2> QED BY <1>5, <2>2, <2>3, <2>5, <2>6 DEF p, s
<1> QED BY <1>4, <1>5 DEF s

-----------------------------------------------------------------------------
(* Stage 1 and 1b of the boundary: what has matched plays, what waits may. *)

(* Stages of the boundary go from a stream v to a stream w: nothing gets   *)
(* later, and the screen does not go back.                                 *)
Stage(v, w) ==
  /\ Good(w)
  /\ \A k \in Nat : Until(v, k) => Until(w, k)
  /\ \A k \in Nat : Before(v, k) => Before(w, k)
  /\ First(v) => First(w) /\ v.playing.dl <= w.playing.dl

(* They leave what has not matched alone.                                  *)
Same(v, w) == w.next = v.next /\ w.accumulating = v.accumulating /\ w.prev_ds = v.prev_ds

LEMMA StageTrans ==
  ASSUME NEW u, NEW v, NEW w, Good(u), Stage(u, v), Stage(v, w) PROVE Stage(u, w)
<1>1. u.playing.dl \in Nat /\ v.playing.dl \in Nat /\ w.playing.dl \in Nat
  BY StreamType, BufferType DEF Stage, Good
<1>2. First(u) => First(w) /\ u.playing.dl <= w.playing.dl
  BY <1>1 DEF Stage
<1> QED BY <1>2 DEF Stage

(* The append goes to pending, if anywhere.                                *)
Clear(v)   == v.pending.dl = 0
Pointed(v) == v.append = 0 \/ (v.append_to = "pending" /\ v.append = v.pending.dl)

LEMMA PromoteIs ==
  ASSUME NEW v, Good(v)
  PROVE  LET w == Promote(v)
         IN Stage(v, w) /\ Same(v, w) /\ Clear(w) /\ w.append = 0
<1> DEFINE w == Promote(v)
<1>1. v \in Stream /\ v.pending \in Buffer /\ v.playing \in Buffer
  BY StreamType DEF Good
<1>2. Content(v) /\ InLine(v) /\ v.pending.dl \in Nat /\ v.playing.dl \in Nat
  BY <1>1, BufferType DEF Good
<1>3. CASE HasFrames(v.pending)
  <2>1. w = [v EXCEPT !.playing = v.pending, !.pending = EmptyBuffer,
                      !.append = 0, !.append_to = "playing"]
    BY <1>1, <1>3 DEF Promote, Stream
  <2> HIDE DEF w
  <2>2. w \in Stream
    BY <1>1, <2>1, EmptyIs DEF Stream
  <2>3. /\ w.accumulating = v.accumulating /\ w.next = v.next /\ w.pending = EmptyBuffer
        /\ w.playing = v.pending /\ w.awaiting = v.awaiting /\ w.append = 0
        /\ w.prev_ds = v.prev_ds
    BY <1>1, <2>1 DEF Stream
  <2>4. Content(w) /\ InLine(w)
    <3>1. Own(w.playing) /\ Own(w.pending)
      BY <1>2, <2>3, EmptyIs DEF Content
    <3>2. Content(w)
      BY <1>2, <2>3, <3>1, EmptyIs DEF Content
    <3> QED BY <1>2, <2>3, <3>2, EmptyIs DEF InLine, Behind
  <2>5. \A k \in Nat : Until(v, k) => Until(w, k)
    <3>1. ASSUME NEW k \in Nat, Until(v, k) PROVE Until(w, k)
      <4>1. v.pending.dl <= k /\ v.pending.dl # 0
        BY <1>3, <3>1 DEF Until, HasFrames
      <4>2. v.accumulating.dl <= k /\ v.next.dl <= k /\ \A a \in DOMAIN v.awaiting : v.awaiting[a].dl <= k
        BY <3>1 DEF Until
      <4>3. 0 <= k
        BY <1>1, <1>2, <4>1, <4>2
      <4> QED BY <2>3, <4>1, <4>2, <4>3, EmptyIs DEF Until
    <3> QED BY <3>1
  <2>6. \A k \in Nat : Before(v, k) => Before(w, k)
    <3>1. ASSUME NEW k \in Nat, Before(v, k) PROVE Before(w, k)
      <4>1. v.pending.dl < k /\ v.next.dl < k /\ (\A a \in DOMAIN v.awaiting : v.awaiting[a].dl < k)
            /\ (v.accumulating.frames # {} => v.accumulating.dl < k)
        BY <3>1 DEF Before
      <4>2. 0 < k
        BY <1>1, <1>2, <4>1
      <4> QED BY <2>3, <4>1, <4>2, EmptyIs DEF Before
    <3> QED BY <3>1
  <2>7. ASSUME First(v) PROVE First(w) /\ v.playing.dl <= w.playing.dl
    <3>1. First(w)
      BY <1>2, <2>3, EmptyIs DEF First, InLine, Behind
    <3>2. v.pending.dl # 0 /\ Behind(v.playing, v.pending)
      BY <1>3, <2>7 DEF First, HasFrames
    <3> QED BY <1>2, <2>3, <3>1, <3>2 DEF Behind
  <2> QED BY <1>1, <2>2, <2>3, <2>4, <2>5, <2>6, <2>7, EmptyIs DEF Good, Short, Stage, Same, Clear, w
<1>4. CASE ~HasFrames(v.pending)
  <2>1. w = Aim(v, 0, "playing")
    BY <1>4 DEF Promote, Aim
  <2> HIDE DEF w
  <2>2. v.pending.dl = 0
    BY <1>2, <1>4 DEF HasFrames, Content
  <2>3. /\ w \in Stream /\ StreamGrows(v, w) /\ Settled(w, v)
        /\ w.awaiting = v.awaiting /\ w.accumulating = v.accumulating
        /\ w.append = 0 /\ w.next = v.next /\ w.pending = v.pending /\ w.playing = v.playing
    BY <1>1, <2>1, Redirected DEF Redirection
  <2>4. Good(w)
    BY <2>3, GrownGood
  <2> QED BY <1>2, <2>2, <2>3, <2>4, StreamGrown DEF Stage, Same, Settled, Clear, w
<1> QED BY <1>3, <1>4
-----------------------------------------------------------------------------
(* An interval leaves the queue for the screen, or for pending.            *)
Leads(r, b) ==
  /\ b \in Buffer /\ b.dl # 0 /\ b.frames # {} /\ Own(b) /\ Marked(b)
  /\ \A a \in DOMAIN r.awaiting : Behind(b, r.awaiting[a])
  /\ Behind(b, r.next) /\ Behind(b, r.accumulating)

LEMMA PlayIs ==
  ASSUME NEW r, Good(r), NEW b, Leads(r, b), Behind(b, r.pending)
  PROVE  LET x == Play(r, b)
         IN /\ Good(x) /\ Same(r, x) /\ First(x) /\ x.playing = b
            /\ x.awaiting = r.awaiting /\ x.pending = r.pending
            /\ x.append = r.append /\ x.append_to = r.append_to
            /\ \A k \in Nat : Until(r, k) /\ b.dl <= k => Until(x, k)
            /\ \A k \in Nat : Before(r, k) /\ b.dl < k => Before(x, k)
<1> DEFINE x == Play(r, b)
<1>1. r \in Stream /\ Content(r) /\ InLine(r) /\ b \in Buffer
  BY DEF Good, Leads
<1>2. x \in Stream
  BY <1>1 DEF Stream, Play
<1>3. /\ x.accumulating = r.accumulating /\ x.next = r.next /\ x.pending = r.pending
      /\ x.playing = b /\ x.awaiting = r.awaiting /\ x.append = r.append
      /\ x.append_to = r.append_to /\ x.prev_ds = r.prev_ds
  BY <1>1 DEF Stream, Play
<1> HIDE DEF x
<1>4. Content(x) /\ InLine(x)
  BY <1>1, <1>3 DEF Content, InLine, Leads
<1>5. First(x)
  BY <1>3 DEF First, Leads
<1>6. ASSUME NEW k \in Nat, Until(r, k), b.dl <= k PROVE Until(x, k)
  BY <1>3, <1>6 DEF Until
<1>7. ASSUME NEW k \in Nat, Before(r, k), b.dl < k PROVE Before(x, k)
  BY <1>3, <1>7 DEF Before
<1> QED BY <1>2, <1>3, <1>4, <1>5, <1>6, <1>7 DEF Good, Short, Same, x

LEMMA DeferIs ==
  ASSUME NEW r, Good(r), NEW b, Leads(r, b)
  PROVE  LET x == Defer(r, b)
         IN /\ Good(x) /\ Same(r, x) /\ x.playing = r.playing
            /\ First(r) /\ Behind(r.playing, b) => First(x)
            /\ x.awaiting = r.awaiting /\ x.pending = b
            /\ x.append = b.dl /\ x.append_to = "pending"
            /\ \A k \in Nat : Until(r, k) /\ b.dl <= k => Until(x, k)
            /\ \A k \in Nat : Before(r, k) /\ b.dl < k => Before(x, k)
<1> DEFINE x == Defer(r, b)
<1>1. r \in Stream /\ Content(r) /\ InLine(r) /\ b \in Buffer /\ b.dl \in Intervals \union {0}
  BY BufferType DEF Good, Leads
<1>2. x \in Stream
  BY <1>1 DEF Stream, Defer
<1>3. /\ x.accumulating = r.accumulating /\ x.next = r.next /\ x.pending = b
      /\ x.playing = r.playing /\ x.awaiting = r.awaiting /\ x.append = b.dl
      /\ x.append_to = "pending" /\ x.prev_ds = r.prev_ds
  BY <1>1 DEF Stream, Defer
<1> HIDE DEF x
<1>4. Content(x) /\ InLine(x)
  BY <1>1, <1>3 DEF Content, InLine, Leads
<1>5. First(r) /\ Behind(r.playing, b) => First(x)
  BY <1>3 DEF First
<1>6. ASSUME NEW k \in Nat, Until(r, k), b.dl <= k PROVE Until(x, k)
  BY <1>3, <1>6 DEF Until
<1>7. ASSUME NEW k \in Nat, Before(r, k), b.dl < k PROVE Before(x, k)
  BY <1>3, <1>7 DEF Before
<1> QED BY <1>2, <1>3, <1>4, <1>5, <1>6, <1>7 DEF Good, Short, Same, x

(* The queue without its head.                                             *)
Rest(v) == [v EXCEPT !.awaiting = Tail(@)]

LEMMA RestIs ==
  ASSUME NEW v, Good(v), v.awaiting # <<>>
  PROVE  LET r == Rest(v)
             b == Head(v.awaiting)
         IN /\ Good(r) /\ Same(v, r) /\ Leads(r, b)
            /\ Len(r.awaiting) = Len(v.awaiting) - 1
            /\ (First(v) => First(r) /\ Behind(r.playing, b))
            /\ r.playing = v.playing /\ r.pending = v.pending
            /\ r.append = v.append /\ r.append_to = v.append_to
            /\ \A k \in Nat : Until(v, k) => Until(r, k) /\ b.dl <= k
            /\ \A k \in Nat : Before(v, k) => Before(r, k) /\ b.dl < k
<1> DEFINE r == Rest(v)
           b == Head(v.awaiting)
           q == v.awaiting
           t == Tail(v.awaiting)
<1>1. v \in Stream /\ Content(v) /\ InLine(v) /\ q \in Seq(Buffer) /\ Len(q) <= 2
  BY StreamType DEF Good, Short
<1>2. /\ t \in Seq(Buffer) /\ Len(t) = Len(q) - 1 /\ Len(q) \in Nat /\ Len(q) > 0
      /\ DOMAIN q = 1 .. Len(q) /\ DOMAIN t = 1 .. Len(t)
      /\ \A i \in 1 .. Len(t) : t[i] = q[i + 1]
      /\ b = q[1]
  BY <1>1, HeadTailProperties, LenProperties, EmptySeq
<1>3. 1 \in DOMAIN q /\ b \in Buffer
  <2>1. 1 \in 1 .. Len(q)
    BY <1>2
  <2> QED BY <1>1, <1>2, <2>1, ElementOfSeq
<1>4. \A i \in DOMAIN t : i + 1 \in DOMAIN q /\ 1 < i + 1 /\ t[i] = q[i + 1]
  BY <1>2
<1>5. r = [v EXCEPT !.awaiting = t]
  BY <1>1 DEF Rest, Stream
<1> HIDE DEF r, b, t
<1>6. r \in Stream
  BY <1>1, <1>2, <1>5 DEF Stream
<1>7. /\ r.accumulating = v.accumulating /\ r.next = v.next /\ r.pending = v.pending
      /\ r.playing = v.playing /\ r.awaiting = t /\ r.append = v.append
      /\ r.append_to = v.append_to /\ r.prev_ds = v.prev_ds
  BY <1>1, <1>5 DEF Stream
<1> HIDE DEF q
<1>8. Content(r)
  BY <1>1, <1>4, <1>7 DEF Content, q
<1>9. InLine(r)
  <2>1. \A i, j \in DOMAIN t : i < j => Behind(t[i], t[j])
    <3>1. ASSUME NEW i \in DOMAIN t, NEW j \in DOMAIN t, i < j PROVE Behind(t[i], t[j])
      <4>1. i + 1 < j + 1
        BY <1>2, <3>1
      <4> QED BY <1>1, <1>4, <4>1 DEF InLine, q
    <3> QED BY <3>1
  <2> QED BY <1>1, <1>4, <1>7, <2>1 DEF InLine, q
<1>10. Leads(r, b)
  <2>1. b.dl # 0 /\ b.frames # {} /\ Own(b) /\ Marked(b)
    BY <1>1, <1>2, <1>3 DEF Content, q
  <2>2. \A i \in DOMAIN t : Behind(b, t[i])
    BY <1>1, <1>2, <1>3, <1>4 DEF InLine, q
  <2>3. Behind(b, v.next) /\ Behind(b, v.accumulating)
    BY <1>1, <1>2, <1>3 DEF InLine, q
  <2> QED BY <1>3, <1>7, <2>1, <2>2, <2>3 DEF Leads
<1>11. First(v) => First(r) /\ Behind(r.playing, b)
  BY <1>2, <1>3, <1>4, <1>7 DEF First, q
<1>12. \A k \in Nat : Until(v, k) => Until(r, k) /\ b.dl <= k
  BY <1>2, <1>3, <1>4, <1>7 DEF Until, q
<1>13. \A k \in Nat : Before(v, k) => Before(r, k) /\ b.dl < k
  BY <1>2, <1>3, <1>4, <1>7 DEF Before, q
<1>14. Good(r)
  BY <1>1, <1>2, <1>6, <1>7, <1>8, <1>9 DEF Good, Short
<1> QED BY <1>2, <1>7, <1>10, <1>11, <1>12, <1>13, <1>14 DEF Same, r, b, q, t
-----------------------------------------------------------------------------
(* All that waits is later than t.                                         *)
Past(w, t) == /\ w.pending.dl = 0 \/ t < w.pending.dl
              /\ \A a \in DOMAIN w.awaiting : t < w.awaiting[a].dl

LEMMA PlayNat ==
  ASSUME NEW v, Good(v)
  PROVE  /\ v.playing.dl \in Nat /\ v.pending.dl \in Nat /\ v.next.dl \in Nat
         /\ v.accumulating.dl \in Nat
         /\ \A a \in DOMAIN v.awaiting : v.awaiting[a].dl \in Nat
  BY StreamType, BufferType DEF Good

LEMMA AwaitStepIs ==
  ASSUME NEW v, Good(v), Clear(v), v.append = 0,
         NEW q \in Slots, Sorted(q), NEW h \in 0 .. 1
  PROVE  LET s == AwaitStep(v, q, h)
         IN /\ Stage(v, s.v) /\ Same(v, s.v) /\ Pointed(s.v)
            /\ s.done => Past(s.v, Sound(q, h))
            /\ ~s.done => /\ Clear(s.v) /\ s.v.append = 0
                          /\ v.awaiting # <<>> /\ Len(s.v.awaiting) = Len(v.awaiting) - 1
<1> DEFINE s == AwaitStep(v, q, h)
           b == Head(v.awaiting)
           rest == Rest(v)
           own == b.own_interval # NoGuid
           g == IF own THEN b.own_interval ELSE b.marker
           pos == Position(q, h, g)
           ds == Sound(q, h)
           stop == \/ v.awaiting = <<>>
                   \/ pos > 0
                   \/ pos < 0 /\ own /\ ~Passed(q, b.own_interval)
<1>1. s = IF stop THEN [v |-> v, done |-> TRUE]
          ELSE IF pos < 0 THEN [v |-> rest, done |-> FALSE]
          ELSE IF own \/ b.own_audio THEN [v |-> Play(rest, b), done |-> FALSE]
          ELSE [v |-> Defer(rest, b), done |-> TRUE]
  BY DEF AwaitStep, Rest
<1> HIDE DEF s
<1>2. ds \in Nat \union {NoGuid}
  BY SoundIs
<1>3. \A a \in DOMAIN v.awaiting : v.awaiting[a].dl \in Nat
  BY PlayNat
<1>4. Stage(v, v) /\ Same(v, v) /\ Pointed(v)
  BY PlayNat DEF Stage, Same, Pointed
<1>5. CASE v.awaiting = <<>>
  <2>1. s.v = v /\ s.done = TRUE
    BY <1>1, <1>5
  <2>2. Past(v, ds)
    BY <1>5 DEF Past, Clear
  <2> QED BY <1>4, <2>1, <2>2 DEF s
<1>6. CASE v.awaiting # <<>>
  <2> HIDE DEF ds, rest, b
  <2>1. /\ Good(rest) /\ Same(v, rest) /\ Leads(rest, b)
        /\ Len(rest.awaiting) = Len(v.awaiting) - 1
        /\ (First(v) => First(rest) /\ Behind(rest.playing, b))
        /\ rest.playing = v.playing /\ rest.pending = v.pending
        /\ rest.append = v.append /\ rest.append_to = v.append_to
        /\ \A k \in Nat : Until(v, k) => Until(rest, k) /\ b.dl <= k
        /\ \A k \in Nat : Before(v, k) => Before(rest, k) /\ b.dl < k
    BY <1>6, RestIs DEF rest, b
  <2>2. b \in Buffer /\ b.dl # 0 /\ Marked(b) /\ b.dl \in Nat
    BY <2>1, BufferType DEF Leads
  <2>3. /\ g \in Nat \union {NoGuid} /\ g <= b.dl /\ g # NoGuid
        /\ own => g = b.dl /\ g = b.own_interval
        /\ ~own /\ ~b.own_audio => g = b.dl - 1
    <3>1. b.own_interval \in {NoGuid, b.dl}
          /\ b.marker = IF b.own_audio THEN b.dl ELSE b.dl - 1
      BY <2>2 DEF Marked
    <3> QED BY <2>2, <3>1
  <2> HIDE DEF g
  <2>4. /\ pos \in Int
        /\ pos > 0 => ds < g
        /\ pos = 0 => ds = g
        /\ pos < 0 /\ ~Passed(q, g) => ds < g
    BY <2>3, PositionIs DEF ds
  <2> HIDE DEF pos
  <2>5. rest.playing.dl \in Nat /\ v.playing.dl \in Nat
        /\ \A a \in DOMAIN rest.awaiting : rest.awaiting[a].dl \in Nat
    BY <2>1, PlayNat
  <2>6. Stage(v, rest) /\ Pointed(rest) /\ Clear(rest)
    BY <2>1, <2>5 DEF Stage, Pointed, Clear
  <2>7. CASE stop
    <3>1. s.v = v /\ s.done = TRUE
      BY <1>1, <2>7
    <3>2. ds < b.dl
      BY <1>2, <1>6, <2>2, <2>3, <2>4, <2>7
    <3>3. \A a \in DOMAIN v.awaiting : ds < v.awaiting[a].dl
      <4>1. \A a \in DOMAIN v.awaiting : a = 1 \/ 1 < a
        BY StreamType, LenProperties DEF Good
      <4>2. b = v.awaiting[1] /\ 1 \in DOMAIN v.awaiting
        BY <1>6, StreamType, HeadTailProperties, LenProperties, EmptySeq DEF Good, b
      <4>3. \A a \in DOMAIN v.awaiting : 1 < a => Behind(b, v.awaiting[a])
        BY <4>2 DEF Good, InLine
      <4>4. \A a \in DOMAIN v.awaiting : v.awaiting[a].dl # 0
        BY DEF Good, Content
      <4> QED BY <1>2, <1>3, <2>2, <3>2, <4>1, <4>2, <4>3, <4>4 DEF Behind
    <3>4. Past(v, ds)
      BY <3>3 DEF Past, Clear
    <3> QED BY <1>4, <3>1, <3>4 DEF s, ds
  <2>8. CASE ~stop /\ pos < 0
    <3>1. s.v = rest /\ s.done = FALSE
      BY <1>1, <2>8
    <3> QED BY <1>6, <2>1, <2>6, <3>1 DEF s
  <2>9. CASE ~stop /\ ~(pos < 0) /\ (own \/ b.own_audio)
    <3> DEFINE x == Play(rest, b)
    <3>1. s.v = x /\ s.done = FALSE
      BY <1>1, <2>9
    <3>2. Behind(b, rest.pending)
      BY <2>6 DEF Clear, Behind
    <3> HIDE DEF x
    <3>3. /\ Good(x) /\ Same(rest, x) /\ First(x) /\ x.playing = b
          /\ x.awaiting = rest.awaiting /\ x.pending = rest.pending
          /\ x.append = rest.append /\ x.append_to = rest.append_to
          /\ \A k \in Nat : Until(rest, k) /\ b.dl <= k => Until(x, k)
          /\ \A k \in Nat : Before(rest, k) /\ b.dl < k => Before(x, k)
      BY <2>1, <3>2, PlayIs DEF x
    <3>4. First(v) => v.playing.dl <= x.playing.dl
      BY <2>1, <2>2, <2>5, <3>3 DEF Behind
    <3>5. Stage(v, x)
      BY <2>1, <3>3, <3>4 DEF Stage
    <3>6. Same(v, x) /\ Pointed(x) /\ Clear(x) /\ x.append = 0
      BY <2>1, <2>6, <3>3 DEF Same, Pointed, Clear
    <3> QED BY <1>6, <2>1, <3>1, <3>3, <3>5, <3>6 DEF s
  <2>10. CASE ~stop /\ ~(pos < 0) /\ ~(own \/ b.own_audio)
    <3> DEFINE x == Defer(rest, b)
    <3>1. s.v = x /\ s.done = TRUE
      BY <1>1, <2>10
    <3> HIDE DEF x
    <3>2. /\ Good(x) /\ Same(rest, x) /\ x.playing = rest.playing
          /\ First(rest) /\ Behind(rest.playing, b) => First(x)
          /\ x.awaiting = rest.awaiting /\ x.pending = b
          /\ x.append = b.dl /\ x.append_to = "pending"
          /\ \A k \in Nat : Until(rest, k) /\ b.dl <= k => Until(x, k)
          /\ \A k \in Nat : Before(rest, k) /\ b.dl < k => Before(x, k)
      BY <2>1, DeferIs DEF x
    <3>3. Stage(v, x)
      BY <2>1, <2>5, <3>2 DEF Stage
    <3>4. Same(v, x) /\ Pointed(x)
      BY <2>1, <3>2 DEF Same, Pointed
    <3>5. ds < b.dl
      BY <2>2, <2>3, <2>4, <2>10
    <3>6. Past(x, ds)
      <4>1. \A a \in DOMAIN rest.awaiting : Behind(b, rest.awaiting[a])
        BY <2>1 DEF Leads
      <4>2. \A a \in DOMAIN rest.awaiting : rest.awaiting[a].dl # 0
        BY <2>1 DEF Good, Content
      <4> QED BY <1>2, <2>2, <2>5, <3>2, <3>5, <4>1, <4>2 DEF Behind, Past
    <3> QED BY <3>1, <3>3, <3>4, <3>6 DEF s, ds
  <2> QED BY <2>7, <2>8, <2>9, <2>10
<1> QED BY <1>5, <1>6

LEMMA AwaitedIs ==
  ASSUME NEW v, Good(v), Clear(v), v.append = 0,
         NEW q \in Slots, Sorted(q), NEW h \in 0 .. 1
  PROVE  LET w == Awaited(v, q, h)
         IN Stage(v, w) /\ Same(v, w) /\ Pointed(w) /\ Past(w, Sound(q, h))
<1> DEFINE s == AwaitStep(v, q, h)
           r == AwaitStep(s.v, q, h)
           w == Awaited(v, q, h)
           ds == Sound(q, h)
<1>1. w = IF s.done THEN s.v ELSE r.v
  BY DEF Awaited
<1>2. /\ Stage(v, s.v) /\ Same(v, s.v) /\ Pointed(s.v)
      /\ s.done => Past(s.v, ds)
      /\ ~s.done => /\ Clear(s.v) /\ s.v.append = 0
                    /\ v.awaiting # <<>> /\ Len(s.v.awaiting) = Len(v.awaiting) - 1
  BY AwaitStepIs
<1> HIDE DEF w, s, ds
<1>3. CASE s.done
  BY <1>1, <1>2, <1>3 DEF w, ds
<1>4. CASE ~s.done
  <2> DEFINE u == s.v
  <2>1. Good(u) /\ Clear(u) /\ u.append = 0 /\ Len(u.awaiting) = Len(v.awaiting) - 1
    BY <1>2, <1>4 DEF Stage
  <2> HIDE DEF u
  <2>2. r = AwaitStep(u, q, h)
    BY DEF u
  <2> HIDE DEF r
  <2>3. /\ Stage(u, r.v) /\ Same(u, r.v) /\ Pointed(r.v)
        /\ r.done => Past(r.v, ds)
        /\ ~r.done => /\ Clear(r.v) /\ r.v.append = 0
                      /\ u.awaiting # <<>> /\ Len(r.v.awaiting) = Len(u.awaiting) - 1
    BY <2>1, <2>2, AwaitStepIs DEF ds
  <2>4. Stage(v, r.v) /\ Same(v, r.v)
    <3>1. Stage(v, u) /\ Same(v, u)
      BY <1>2 DEF u
    <3> QED BY <2>3, <3>1, StageTrans DEF Same
  <2>5. Past(r.v, ds)
    <3>1. CASE r.done
      BY <2>3, <3>1
    <3>2. CASE ~r.done
      <4>1. Len(v.awaiting) <= 2 /\ r.v \in Stream
        BY <2>4 DEF Good, Short, Stage
      <4>2. r.v.awaiting \in Seq(Buffer) /\ v.awaiting \in Seq(Buffer)
        BY <4>1, StreamType DEF Good
      <4>3. Len(r.v.awaiting) <= 0 /\ Clear(r.v)
        BY <2>1, <2>3, <3>2, <4>1, <4>2
      <4>4. DOMAIN r.v.awaiting = {}
        BY <4>2, <4>3, LenProperties
      <4> QED BY <4>3, <4>4 DEF Past, Clear
    <3> QED BY <3>1, <3>2
  <2> QED BY <1>1, <1>4, <2>3, <2>4, <2>5 DEF w, ds
<1> QED BY <1>3, <1>4
-----------------------------------------------------------------------------
(* Stage 2 of the boundary: the interval in next.                          *)
Tuned(v, c, p, y) == [v EXCEPT !.hold_count = c, !.prev_ds = p, !.synced = y]

LEMMA TunedIs ==
  ASSUME NEW v, Good(v), NEW c \in 0 .. HoldCap - 1, NEW p \in Nat \union {NoGuid},
         NEW y \in BOOLEAN
  PROVE  LET x == Tuned(v, c, p, y)
         IN /\ Stage(v, x) /\ x.prev_ds = p
            /\ x.accumulating = v.accumulating /\ x.next = v.next
            /\ x.playing = v.playing /\ x.pending = v.pending /\ x.awaiting = v.awaiting
            /\ x.append = v.append /\ x.append_to = v.append_to
<1> DEFINE x == Tuned(v, c, p, y)
<1>1. v \in Stream
  BY DEF Good
<1>2. x \in Stream
  BY <1>1 DEF Stream, Tuned
<1>3. /\ x.accumulating = v.accumulating /\ x.next = v.next /\ x.pending = v.pending
      /\ x.playing = v.playing /\ x.awaiting = v.awaiting /\ x.append = v.append
      /\ x.append_to = v.append_to /\ x.prev_ds = p
  BY <1>1 DEF Stream, Tuned
<1> HIDE DEF x
<1>4. Content(x) /\ InLine(x)
  BY <1>3 DEF Good, Content, InLine
<1>5. First(v) => First(x)
  BY <1>3 DEF First
<1>6. \A k \in Nat : Until(v, k) => Until(x, k)
  BY <1>3 DEF Until
<1>7. \A k \in Nat : Before(v, k) => Before(x, k)
  BY <1>3 DEF Before
<1> QED BY <1>2, <1>3, <1>4, <1>5, <1>6, <1>7, PlayNat DEF Good, Short, Stage, x

Moved(v, q) == [v EXCEPT !.next = EmptyBuffer, !.awaiting = q]

LEMMA MovedIs ==
  ASSUME NEW v, Good(v), NEW q, Queue(v, q), v.next.dl # 0
  PROVE  LET x == Moved(v, q)
         IN /\ Stage(v, x) /\ x.prev_ds = v.prev_ds
            /\ x.accumulating = v.accumulating /\ x.next = EmptyBuffer
            /\ x.playing = v.playing /\ x.pending = v.pending /\ x.awaiting = q
            /\ x.append = v.append /\ x.append_to = v.append_to
<1> DEFINE x == Moved(v, q)
<1>1. v \in Stream /\ Content(v) /\ InLine(v) /\ q \in Seq(Buffer)
  BY DEF Good, Queue
<1>2. x \in Stream
  BY <1>1, EmptyIs DEF Stream, Moved
<1>3. /\ x.accumulating = v.accumulating /\ x.next = EmptyBuffer /\ x.pending = v.pending
      /\ x.playing = v.playing /\ x.awaiting = q /\ x.append = v.append
      /\ x.append_to = v.append_to /\ x.prev_ds = v.prev_ds
  BY <1>1 DEF Stream, Moved
<1> HIDE DEF x
<1>4. Content(x)
  BY <1>1, <1>3, EmptyIs DEF Content, Queue
<1>5. InLine(x)
  BY <1>1, <1>3, EmptyIs DEF InLine, Queue, Behind
<1>6. First(v) => First(x)
  BY <1>3, EmptyIs DEF First, Queue, Behind
<1>7. \A k \in Nat : Until(v, k) => Until(x, k)
  BY <1>3, EmptyIs DEF Until, Queue
<1>8. \A k \in Nat : Before(v, k) => Before(x, k)
  <2>1. ASSUME NEW k \in Nat, Before(v, k) PROVE Before(x, k)
    <3>1. v.next.dl < k /\ v.next.dl \in Nat
      BY <2>1, PlayNat DEF Before
    <3>2. 0 < k
      BY <3>1
    <3> QED BY <1>3, <2>1, <3>2, EmptyIs DEF Before, Queue
  <2> QED BY <2>1
<1> QED BY <1>2, <1>3, <1>4, <1>5, <1>6, <1>7, <1>8, PlayNat DEF Good, Short, Stage, Queue, x

LEMMA SameQueue == ASSUME NEW v, Good(v) PROVE Queue(v, v.awaiting)
  BY StreamType DEF Good, Short, Content, InLine, Queue

LEMMA LateQueue ==
  ASSUME NEW v, Good(v), NEW b \in Buffer, Fits(v, b), b.dl = v.next.dl
  PROVE  Queue(v, Await(v.awaiting, b))
  BY TailedFits DEF Good, Queue

LEMMA NextIs ==
  ASSUME NEW v, Good(v), v.next.dl # 0
  PROVE  /\ v.next \in Buffer /\ Fits(v, v.next) /\ v.next.dl \in Nat
         /\ v.next.marker = v.next.dl - 1 /\ HasGuid(v.next)
         /\ v.next.own_interval = NoGuid /\ ~v.next.own_audio
<1>1. v.next \in Buffer /\ v.next.dl \in Nat /\ v.next.marker \in Nat \union {NoGuid}
  BY StreamType, BufferType DEF Good
<1>2. v.next.frames # {} /\ Plain(v.next) /\ Own(v.next)
  BY DEF Good, Content
<1>3. Marked(v.next)
  BY <1>2 DEF Plain, Marked
<1>4. Behind(v.pending, v.next) /\ \A a \in DOMAIN v.awaiting : Behind(v.awaiting[a], v.next)
  BY DEF Good, InLine
<1>5. v.next.marker = v.next.dl - 1 /\ v.next.dl - 1 # NoGuid
  BY <1>1, <1>2 DEF Plain
<1> QED BY <1>1, <1>2, <1>3, <1>4, <1>5 DEF Plain, Fits, HasGuid

(* The next audio is there already: what waits is timed by that.           *)
Timed(b) == [b EXCEPT !.marker = @ + 1, !.own_audio = TRUE]

LEMMA TimedFits ==
  ASSUME NEW v, Good(v), v.next.dl # 0
  PROVE  Timed(v.next) \in Buffer /\ Fits(v, Timed(v.next)) /\ Timed(v.next).dl = v.next.dl
<1> DEFINE b == v.next
           c == Timed(b)
<1>1. b \in Buffer /\ Fits(v, b) /\ b.dl \in Nat /\ b.marker = b.dl - 1
      /\ b.own_interval = NoGuid
  BY NextIs
<1>2. b.marker + 1 = b.dl
  BY <1>1
<1> HIDE DEF b
<1>3. c = [b EXCEPT !.marker = b.dl, !.own_audio = TRUE]
  BY <1>1, <1>2 DEF Timed, Buffer
<1> HIDE DEF c
<1>4. /\ c \in Buffer /\ c.dl = b.dl /\ c.marker = b.dl /\ c.own_audio = TRUE
      /\ c.own_interval = b.own_interval /\ c.frames = b.frames
  BY <1>1, <1>3 DEF Buffer
<1>5. Own(c) /\ Marked(c)
  BY <1>1, <1>4 DEF Fits, Own, Marked
<1> QED BY <1>1, <1>4, <1>5 DEF Fits, Behind, b, c
-----------------------------------------------------------------------------
(* What is in next plays, waits or goes.                                   *)
Matched(v, x, s) ==
  /\ Stage(v, x) /\ Pointed(x) /\ x.accumulating = v.accumulating
  /\ x.prev_ds \in {v.prev_ds, s}

LEMMA MatchNextIs ==
  ASSUME NEW v, Good(v), v.next.dl # 0, Pointed(v),
         NEW q \in Slots, Sorted(q), NEW h \in 0 .. 1,
         Newer(q, v.prev_ds), Past(v, Sound(q, h))
  PROVE  Matched(v, MatchNext(v, q, h), Sound(q, h))
<1> DEFINE b == v.next
           ds == Sound(q, h)
           ahead == Guid(q[0]) = b.marker + 1
           c == IF ahead THEN Timed(b) ELSE b
           w == [v EXCEPT !.prev_ds = ds]
           moved == [w EXCEPT !.next = EmptyBuffer, !.hold_count = 0]
           m == Moved(Tuned(v, 0, ds, v.synced), v.awaiting)
           x == MatchNext(v, q, h)
<1>1. v \in Stream /\ Content(v) /\ InLine(v) /\ v.synced \in BOOLEAN
      /\ v.hold_count \in 0 .. HoldCap - 1 /\ v.prev_ds \in Nat \union {NoGuid}
  BY StreamType DEF Good
<1>2. ds \in Nat \union {NoGuid} /\ ds = Guid(Heard(q, h))
  BY SoundIs DEF Sound
<1>3. b \in Buffer /\ Fits(v, b) /\ b.dl \in Nat /\ b.dl # 0 /\ b.marker = b.dl - 1
      /\ HasGuid(b) /\ b.own_interval = NoGuid /\ ~b.own_audio
  BY NextIs
<1>4. 0 \in 0 .. HoldCap - 1 /\ HoldCap \in Nat
  BY VideoAssumption
<1>5. m = moved
  BY <1>1 DEF Moved, Tuned, Stream
<1>6. x = IF AudioWaits(b, q, h) THEN Moved(v, Await(v.awaiting, c))
          ELSE IF ds = NoGuid THEN Tuned(v, 0, ds, v.synced)
          ELSE IF b.marker = ds THEN Defer(moved, b)
          ELSE IF ~HasGuid(b) \/ v.prev_ds = b.marker THEN Play(moved, b)
          ELSE IF Position(q, h, b.marker) > 0 THEN [moved EXCEPT !.awaiting = Await(@, b)]
          ELSE IF v.hold_count + 1 >= HoldCap THEN [moved EXCEPT !.synced = FALSE]
          ELSE [w EXCEPT !.hold_count = @ + 1]
  <2>1. Tuned(v, 0, ds, v.synced) = [w EXCEPT !.hold_count = 0]
    BY <1>1 DEF Tuned, Stream
  <2>2. Moved(v, Await(v.awaiting, c)) = [v EXCEPT !.next = EmptyBuffer, !.awaiting = Await(@, c)]
    BY <1>1 DEF Moved, Stream
  <2>3. c = IF ahead THEN [b EXCEPT !.marker = @ + 1, !.own_audio = TRUE] ELSE b
    BY DEF Timed
  <2> HIDE DEF c
  <2> QED BY <1>2, <2>1, <2>2, <2>3 DEF MatchNext
<1> HIDE DEF x, moved, w
<1> DEFINE u == Tuned(v, 0, ds, v.synced)
<1>7. /\ Stage(v, u) /\ u.prev_ds = ds
      /\ u.accumulating = v.accumulating /\ u.next = b
      /\ u.playing = v.playing /\ u.pending = v.pending /\ u.awaiting = v.awaiting
      /\ u.append = v.append /\ u.append_to = v.append_to
  <2> HIDE DEF ds
  <2> QED BY <1>1, <1>2, <1>4, TunedIs
<1> HIDE DEF u, b, ds, c, m
<1>8. Good(u) /\ Queue(u, v.awaiting) /\ u.next.dl # 0
  <2>1. Good(u)
    BY <1>7 DEF Stage
  <2> QED BY <1>3, <1>7, <2>1, SameQueue
<1>9. /\ Stage(u, m) /\ m.prev_ds = ds
      /\ m.accumulating = v.accumulating /\ m.next = EmptyBuffer
      /\ m.playing = v.playing /\ m.pending = v.pending /\ m.awaiting = v.awaiting
      /\ m.append = v.append /\ m.append_to = v.append_to
  <2>1. m = Moved(u, v.awaiting)
    BY DEF m, u
  <2> QED BY <1>7, <1>8, <2>1, MovedIs
<1>10. Good(m) /\ Stage(v, m)
  BY <1>7, <1>8, <1>9, StageTrans DEF Stage
<1>11. /\ \A k \in Nat : Until(v, k) => Until(m, k) /\ b.dl <= k
       /\ \A k \in Nat : Before(v, k) => Before(m, k) /\ b.dl < k
  BY <1>10 DEF Stage, Until, Before, b
<1>12. v.pending.dl \in Nat /\ v.playing.dl \in Nat /\ v.accumulating.dl \in Nat
       /\ \A a \in DOMAIN v.awaiting : v.awaiting[a].dl \in Nat
  BY PlayNat
<1>13. Past(v, ds)
  BY DEF ds
<1>14. CASE AudioWaits(b, q, h)
  <2>1. x = Moved(v, Await(v.awaiting, c))
    BY <1>6, <1>14
  <2>2. c \in Buffer /\ Fits(v, c) /\ c.dl = b.dl
    BY <1>3, TimedFits DEF b, c
  <2>3. Queue(v, Await(v.awaiting, c))
    BY <2>2, LateQueue DEF b
  <2>4. /\ Stage(v, x) /\ x.prev_ds = v.prev_ds /\ x.accumulating = v.accumulating
        /\ x.append = v.append /\ x.append_to = v.append_to /\ x.pending = v.pending
    BY <2>1, <2>3, MovedIs
  <2> QED BY <2>4 DEF Matched, Pointed, x
<1>15. CASE ~AudioWaits(b, q, h) /\ ds = NoGuid
  <2>1. x = u
    BY <1>6, <1>15 DEF u
  <2> QED BY <1>7, <2>1 DEF Matched, Pointed, x, ds
<1>16. CASE ~AudioWaits(b, q, h) /\ ds # NoGuid /\ b.marker = ds
  <2>1. x = Defer(m, b)
    BY <1>5, <1>6, <1>16
  <2>2. Leads(m, b)
    <3>1. \A a \in DOMAIN v.awaiting : Behind(b, v.awaiting[a])
      BY <1>2, <1>3, <1>12, <1>13, <1>16 DEF Past, Behind
    <3>2. Behind(b, v.accumulating) /\ Behind(b, EmptyBuffer)
      BY <1>1, EmptyIs DEF InLine, Behind, b
    <3> QED BY <1>3, <1>9, <3>1, <3>2 DEF Leads, Fits
  <2>3. /\ Good(x) /\ Same(m, x) /\ x.playing = m.playing
        /\ First(m) /\ Behind(m.playing, b) => First(x)
        /\ x.awaiting = m.awaiting /\ x.pending = b
        /\ x.append = b.dl /\ x.append_to = "pending"
        /\ \A k \in Nat : Until(m, k) /\ b.dl <= k => Until(x, k)
        /\ \A k \in Nat : Before(m, k) /\ b.dl < k => Before(x, k)
    BY <1>10, <2>1, <2>2, DeferIs
  <2>4. First(v) => First(x) /\ v.playing.dl <= x.playing.dl
    <3>1. First(v) => First(m) /\ Behind(m.playing, b)
      BY <1>9, <1>10 DEF First, Stage, b
    <3> QED BY <1>9, <1>12, <2>3, <3>1
  <2>5. Stage(v, x)
    BY <1>11, <2>3, <2>4 DEF Stage
  <2> QED BY <1>9, <2>3, <2>5 DEF Matched, Pointed, Same, x, ds
<1>17. CASE ~AudioWaits(b, q, h) /\ ds # NoGuid /\ b.marker # ds /\ v.prev_ds = b.marker
  <2>1. x = Play(m, b)
    BY <1>5, <1>6, <1>17
  <2>2. b.dl <= ds
    <3>1. q[0] # None /\ ds = q[0].iv
      BY <1>17, SoundIs DEF ds
    <3>2. q[0].iv > v.prev_ds
      BY <3>1, SlotCases DEF Newer
    <3> QED BY <1>2, <1>3, <1>17, <3>1, <3>2
  <2>3. Leads(m, b) /\ Behind(b, m.pending)
    <3>1. \A a \in DOMAIN v.awaiting : Behind(b, v.awaiting[a])
      BY <1>2, <1>3, <1>12, <1>13, <2>2 DEF Past, Behind
    <3>2. Behind(b, v.accumulating) /\ Behind(b, EmptyBuffer)
      BY <1>1, EmptyIs DEF InLine, Behind, b
    <3>3. Behind(b, v.pending)
      BY <1>2, <1>3, <1>12, <1>13, <2>2 DEF Past, Behind
    <3> QED BY <1>3, <1>9, <3>1, <3>2, <3>3 DEF Leads, Fits
  <2>4. /\ Good(x) /\ Same(m, x) /\ First(x) /\ x.playing = b
        /\ x.awaiting = m.awaiting /\ x.pending = m.pending
        /\ x.append = m.append /\ x.append_to = m.append_to
        /\ \A k \in Nat : Until(m, k) /\ b.dl <= k => Until(x, k)
        /\ \A k \in Nat : Before(m, k) /\ b.dl < k => Before(x, k)
    BY <1>10, <2>1, <2>3, PlayIs
  <2>5. First(v) => v.playing.dl <= x.playing.dl
    BY <1>3, <1>12, <2>4 DEF First, Behind, b
  <2>6. Stage(v, x)
    BY <1>11, <2>4, <2>5 DEF Stage
  <2> QED BY <1>9, <2>4, <2>6 DEF Matched, Pointed, Same, x, ds
<1>18. CASE /\ ~AudioWaits(b, q, h) /\ ds # NoGuid /\ b.marker # ds /\ v.prev_ds # b.marker
            /\ Position(q, h, b.marker) > 0
  <2>1. x = Moved(u, Await(v.awaiting, b))
    <3>1. x = [moved EXCEPT !.awaiting = Await(@, b)]
      BY <1>3, <1>6, <1>18
    <3> QED BY <1>1, <3>1 DEF moved, w, u, Moved, Tuned, Stream
  <2>2. Queue(u, Await(v.awaiting, b))
    <3>1. Fits(u, b) /\ b.dl = u.next.dl
      BY <1>3, <1>7 DEF Fits
    <3> QED BY <1>3, <1>7, <1>8, <3>1, LateQueue
  <2>3. /\ Stage(u, x) /\ x.prev_ds = ds /\ x.accumulating = v.accumulating
        /\ x.append = v.append /\ x.append_to = v.append_to /\ x.pending = v.pending
    BY <1>7, <1>8, <2>1, <2>2, MovedIs
  <2> QED BY <1>7, <2>3, StageTrans DEF Matched, Pointed, x, ds
<1>19. CASE /\ ~AudioWaits(b, q, h) /\ ds # NoGuid /\ b.marker # ds /\ v.prev_ds # b.marker
            /\ ~(Position(q, h, b.marker) > 0) /\ v.hold_count + 1 >= HoldCap
  <2>1. x = Tuned(m, 0, ds, FALSE)
    <3>1. x = [moved EXCEPT !.synced = FALSE]
      BY <1>3, <1>6, <1>19
    <3> QED BY <1>1, <1>5, <3>1 DEF moved, w, m, Moved, Tuned, Stream
  <2>2. /\ Stage(m, x) /\ x.prev_ds = ds /\ x.accumulating = m.accumulating
        /\ x.append = m.append /\ x.append_to = m.append_to /\ x.pending = m.pending
    <3> DEFINE t == Tuned(m, 0, ds, FALSE)
    <3>1. Good(m) /\ 0 \in 0 .. HoldCap - 1 /\ ds \in Nat \union {NoGuid}
      BY <1>2, <1>4, <1>10
    <3>2. /\ Stage(m, t) /\ t.prev_ds = ds /\ t.accumulating = m.accumulating
          /\ t.append = m.append /\ t.append_to = m.append_to /\ t.pending = m.pending
      BY <3>1, TunedIs
    <3> HIDE DEF t
    <3> QED BY <2>1, <3>2 DEF t
  <2> QED BY <1>9, <1>10, <2>2, StageTrans DEF Matched, Pointed, x, ds
<1>20. CASE /\ ~AudioWaits(b, q, h) /\ ds # NoGuid /\ b.marker # ds /\ v.prev_ds # b.marker
            /\ ~(Position(q, h, b.marker) > 0) /\ ~(v.hold_count + 1 >= HoldCap)
  <2> DEFINE n == v.hold_count + 1
  <2>1. x = Tuned(v, n, ds, v.synced)
    <3>1. x = [w EXCEPT !.hold_count = @ + 1]
      BY <1>3, <1>6, <1>20
    <3> QED BY <1>1, <3>1 DEF w, Tuned, Stream
  <2>2. n \in 0 .. HoldCap - 1
    BY <1>1, <1>4, <1>20
  <2> HIDE DEF n
  <2>3. /\ Stage(v, x) /\ x.prev_ds = ds /\ x.accumulating = v.accumulating
        /\ x.append = v.append /\ x.append_to = v.append_to /\ x.pending = v.pending
    BY <1>1, <1>2, <2>1, <2>2, TunedIs
  <2> QED BY <2>3 DEF Matched, Pointed, x, ds
<1> QED BY <1>14, <1>15, <1>16, <1>17, <1>18, <1>19, <1>20
-----------------------------------------------------------------------------
(* Nothing in next: what accumulates may play.                             *)
Lent(b) == [b EXCEPT !.frames = {}]
Lends(v, x) == x.accumulating = v.accumulating
               \/ (x.accumulating = Lent(v.accumulating) /\ v.accumulating.frames # {})

(* Where the append flags point is the buffer that is appended to.         *)
Steady(v) == v.append # 0 => v[v.append_to].dl = v.append

(* A whole boundary: as a stage, but that the fallback may overtake.       *)
Crosses(v, x, s) ==
  /\ Good(x) /\ Steady(x) /\ Lends(v, x) /\ x.prev_ds \in {v.prev_ds, s}
  /\ \A k \in Nat : Until(v, k) => Until(x, k) /\ x.append <= k
  /\ \A k \in Nat : Before(v, k) /\ 0 < k => Before(x, k) /\ x.append < k
  /\ First(v) => v.playing.dl <= x.playing.dl /\ (First(x) \/ Overtakes(x))

LEMMA PointedSteady ==
  ASSUME NEW v, NEW x, NEW s, Stage(v, x), Pointed(x),
         x.accumulating = v.accumulating, x.prev_ds \in {v.prev_ds, s}
  PROVE  Crosses(v, x, s)
<1>1. Steady(x)
  BY DEF Pointed, Steady
<1>2. \A k \in Nat : Until(v, k) => Until(x, k) /\ x.append <= k
  BY DEF Stage, Pointed, Until
<1>3. \A k \in Nat : Before(v, k) /\ 0 < k => Before(x, k) /\ x.append < k
  BY DEF Stage, Pointed, Before
<1> QED BY <1>1, <1>2, <1>3 DEF Stage, Crosses, Lends

LEMMA FallbackIs ==
  ASSUME NEW v, Good(v), v.next.dl = 0, Pointed(v), NEW q, NEW h
  PROVE  LET x == Fallback(v, q, h)
         IN Crosses(v, x, v.prev_ds)
<1> DEFINE b == v.accumulating
           x == Fallback(v, q, h)
           plays == b.dl # 0 /\ b.frames # {} /\ Heard(q, h) # None /\ v.synced
<1>1. v \in Stream /\ Content(v) /\ InLine(v) /\ b \in Buffer /\ v.synced \in BOOLEAN
      /\ v.prev_ds \in Nat \union {NoGuid}
  BY StreamType DEF Good
<1>2. 0 \in 0 .. HoldCap - 1
  BY VideoAssumption
<1>3. CASE ~plays
  <2>1. x = Tuned(v, 0, v.prev_ds, v.synced) \/ x = v
    <3>1. Tuned(v, 0, v.prev_ds, v.synced) = [v EXCEPT !.hold_count = 0]
      BY <1>1 DEF Tuned, Stream
    <3> QED BY <1>3, <3>1 DEF Fallback
  <2>2. CASE x = v
    <3>1. Stage(v, v)
      BY PlayNat DEF Stage
    <3> QED BY <2>2, <3>1, PointedSteady
  <2>3. CASE x = Tuned(v, 0, v.prev_ds, v.synced)
    <3> HIDE DEF x
    <3>1. /\ Stage(v, x) /\ x.prev_ds = v.prev_ds
          /\ x.accumulating = v.accumulating /\ x.pending = v.pending
          /\ x.append = v.append /\ x.append_to = v.append_to
      BY <1>1, <1>2, <2>3, TunedIs
    <3>2. Pointed(x)
      BY <3>1 DEF Pointed
    <3> QED BY <3>1, <3>2, PointedSteady DEF x
  <2> QED BY <2>1, <2>2, <2>3
<1>4. CASE plays
  <2>1. x = [v EXCEPT !.hold_count = 0, !.playing = b, !.append = b.dl,
                      !.append_to = "playing", !.accumulating = Lent(b)]
    BY <1>1, <1>4 DEF Fallback, Lent, Stream
  <2>2. Lent(b) \in Buffer /\ Lent(b).dl = b.dl /\ Lent(b).frames = {} /\ Own(Lent(b))
    BY <1>1 DEF Buffer, Lent, Own
  <2> HIDE DEF x
  <2>3. b.dl \in Intervals \union {0} /\ b.dl \in Nat
    BY <1>1, BufferType
  <2>4. x \in Stream
    BY <1>1, <1>2, <2>1, <2>2, <2>3 DEF Stream
  <2>5. /\ x.accumulating = Lent(b) /\ x.next = v.next /\ x.pending = v.pending
        /\ x.playing = b /\ x.awaiting = v.awaiting /\ x.append = b.dl
        /\ x.append_to = "playing" /\ x.prev_ds = v.prev_ds
    BY <1>1, <2>1 DEF Stream
  <2>6. Content(x)
    BY <1>1, <2>2, <2>5 DEF Content
  <2>7. InLine(x)
    BY <1>1, <2>2, <2>5 DEF InLine, Behind
  <2>8. Good(x)
    BY <2>4, <2>5, <2>6, <2>7 DEF Good, Short
  <2>9. \A k \in Nat : Until(v, k) => Until(x, k) /\ x.append <= k
    BY <2>2, <2>5 DEF Until
  <2>10. \A k \in Nat : Before(v, k) => Before(x, k) /\ x.append < k
    BY <1>4, <2>2, <2>5 DEF Before
  <2>11. Steady(x) /\ Lends(v, x)
    BY <1>4, <2>5 DEF Steady, Lends
  <2>12. First(v) => v.playing.dl <= x.playing.dl
    BY <1>4, <2>3, <2>5, PlayNat DEF First, Behind
  <2>13. First(x) \/ Overtakes(x)
    <3>1. SUFFICES ASSUME ~Overtakes(x) PROVE First(x)
      OBVIOUS
    <3>2. FellBack(x)
      BY <1>4, <2>5 DEF FellBack
    <3>3. \A c \in Undecided(x) : c.dl \in {0, b.dl}
      BY <2>5, <3>1, <3>2 DEF Overtakes
    <3>4. v.pending.dl \in {0, b.dl} /\ \A a \in DOMAIN v.awaiting : v.awaiting[a].dl \in {0, b.dl}
      BY <2>5, <3>3 DEF Undecided
    <3> QED BY <2>2, <2>3, <2>5, <3>4 DEF First, Behind
  <2> QED BY <2>5, <2>8, <2>9, <2>10, <2>11, <2>12, <2>13 DEF Crosses, x
<1> QED BY <1>3, <1>4

LEMMA SwapVideoIs ==
  ASSUME NEW v, Good(v), NEW q \in Slots, Sorted(q), NEW h \in 0 .. 1, Newer(q, v.prev_ds)
  PROVE  Crosses(v, SwapVideo(v, q, h), Sound(q, h))
<1> DEFINE p == Promote(v)
           w == Awaited(p, q, h)
           x == SwapVideo(v, q, h)
           ds == Sound(q, h)
<1>1. Stage(v, p) /\ Same(v, p) /\ Clear(p) /\ p.append = 0
  BY PromoteIs
<1>2. x = IF HasFrames(w.next) THEN MatchNext(w, q, h) ELSE Fallback(w, q, h)
  BY DEF SwapVideo
<1> HIDE DEF p, x
<1>3. Good(p)
  BY <1>1 DEF Stage
<1>4. Stage(p, w) /\ Same(p, w) /\ Pointed(w) /\ Past(w, ds)
  BY <1>1, <1>3, AwaitedIs
<1> HIDE DEF w, ds
<1>5. Stage(v, w) /\ Same(v, w) /\ Good(w)
  BY <1>1, <1>4, StageTrans DEF Same, Stage
<1>6. HasFrames(w.next) <=> w.next.dl # 0
  BY <1>5 DEF Good, Content, HasFrames
<1>7. CASE w.next.dl # 0
  <2>1. Matched(w, x, ds)
    <3>1. Newer(q, w.prev_ds) /\ Past(w, Sound(q, h))
      BY <1>4, <1>5 DEF Same, ds
    <3>2. x = MatchNext(w, q, h)
      BY <1>2, <1>6, <1>7
    <3> QED BY <1>4, <1>5, <1>7, <3>1, <3>2, MatchNextIs DEF ds
  <2>2. Stage(v, x) /\ Pointed(x) /\ x.accumulating = v.accumulating
        /\ x.prev_ds \in {v.prev_ds, ds}
    BY <1>5, <2>1, StageTrans DEF Matched, Same
  <2> QED BY <2>2, PointedSteady DEF x, ds
<1>8. CASE w.next.dl = 0
  <2>1. Crosses(w, x, w.prev_ds)
    BY <1>2, <1>4, <1>5, <1>6, <1>8, FallbackIs
  <2>2. v.playing.dl \in Nat /\ w.playing.dl \in Nat /\ x.playing.dl \in Nat
    BY <1>5, <2>1, PlayNat DEF Crosses
  <2>3. /\ Good(x) /\ Steady(x) /\ Lends(v, x) /\ x.prev_ds \in {v.prev_ds, ds}
    BY <1>5, <2>1 DEF Crosses, Same, Lends
  <2>4. \A k \in Nat : Until(v, k) => Until(x, k) /\ x.append <= k
    BY <1>5, <2>1 DEF Crosses, Stage
  <2>5. \A k \in Nat : Before(v, k) /\ 0 < k => Before(x, k) /\ x.append < k
    BY <1>5, <2>1 DEF Crosses, Stage
  <2>6. First(v) => v.playing.dl <= x.playing.dl /\ (First(x) \/ Overtakes(x))
    BY <1>5, <2>1, <2>2 DEF Crosses, Stage
  <2> QED BY <2>3, <2>4, <2>5, <2>6 DEF Crosses, x, ds
<1> QED BY <1>7, <1>8
-----------------------------------------------------------------------------
(* The steps, one by one.                                                  *)
WireTypeOK ==
  /\ downloads \subseteq Intervals
  /\ wire \in [iv : Intervals \union {0}, frame : 0 .. Closed, video : SUBSET Intervals]
  /\ audio \in Intervals \union {0} /\ overtaken \in BOOLEAN

LEMMA TypeParts == VideoTypeOK <=> LineTypeOK /\ WireTypeOK /\ vs \in Stream /\ Short(vs)
  BY DEF VideoTypeOK, WireTypeOK, Stream, Short

(* The two halves of the invariant.                                        *)
LineInv   == LineTypeOK /\ Audio
StreamInv == /\ WireTypeOK /\ Sender /\ Started /\ Good(vs)
             /\ Until(vs, wire.iv) /\ vs.append <= wire.iv
             /\ wire.iv \in downloads => Aims(vs, wire.iv)
             /\ ~overtaken => First(vs)

LEMMA InvParts == VideoInv <=> LineInv /\ StreamInv
  BY TypeParts DEF VideoInv, LineInv, StreamInv, Good

LEMMA InvPartsNext == LineInv' /\ StreamInv' => VideoInv'
  BY DEF VideoInv, LineInv, StreamInv, Good, VideoTypeOK, WireTypeOK, Stream, Short

LEMMA WireFacts ==
  ASSUME StreamInv
  PROVE  /\ wire.iv \in Intervals \union {0} /\ wire.iv \in Nat
         /\ wire.frame \in 0 .. Closed /\ wire.frame \in Nat /\ wire.video \subseteq Intervals
         /\ audio \in Nat /\ audio \in Intervals \union {0}
         /\ Closed = NumFrames + 1 /\ NumFrames \in Nat
         /\ wire.frame # Closed => 1 <= wire.iv /\ wire.iv \in Intervals
         /\ wire.iv \in downloads => 1 <= wire.iv /\ wire.iv \in Intervals
<1>1. wire.iv \in Intervals \union {0} /\ wire.frame \in 0 .. Closed /\ wire.video \subseteq Intervals
      /\ audio \in Intervals \union {0}
  BY DEF StreamInv, WireTypeOK
<1>2. Closed = NumFrames + 1 /\ NumFrames \in Nat
  BY VideoAssumption DEF Closed
<1>3. wire.iv \in Nat /\ audio \in Nat
  BY <1>1, IntervalsAre
<1>4. wire.frame \in Nat
  BY <1>1, <1>2
<1>5. (wire.iv = 0 => wire.frame = Closed) /\ downloads \subseteq 1 .. wire.iv
  BY DEF StreamInv, Sender
<1> QED BY <1>1, <1>2, <1>3, <1>4, <1>5

LEMMA InitInv == VideoInit => VideoInv
<1> SUFFICES ASSUME VideoInit PROVE VideoInv
  OBVIOUS
<1>1. /\ line = NoSlots /\ hold = 0 /\ vs = NewStream /\ downloads = {}
      /\ wire = [iv |-> 0, frame |-> Closed, video |-> {}] /\ audio = 0
  BY DEF VideoInit, LineInit
<1>2. overtaken \in BOOLEAN /\ ~overtaken
  BY Zenon DEF VideoInit
<1>3. Closed \in Nat /\ Closed # 0 /\ Closed \in 0 .. Closed
  BY VideoAssumption DEF Closed
<1>4. line \in Slots /\ \A i \in SlotIdx : line[i] = None
  BY <1>1 DEF NoSlots, Slots
<1>5. LineInv
  BY <1>1, <1>4, SlotCases DEF LineInv, LineTypeOK, Audio, Sorted, NoGap, NewStream
<1>6. vs \in Stream /\ Short(vs) /\ DOMAIN vs.awaiting = {}
  <2>1. EmptyBuffer \in Buffer /\ 0 \in 0 .. HoldCap - 1
    BY EmptyIs, VideoAssumption
  <2>2. <<>> \in Seq(Buffer) /\ Len(<<>>) = 0 /\ DOMAIN <<>> = {}
    OBVIOUS
  <2> HIDE DEF EmptyBuffer
  <2> QED BY <1>1, <2>1, <2>2 DEF NewStream, Stream, Short
<1>7. /\ vs.accumulating = EmptyBuffer /\ vs.next = EmptyBuffer /\ vs.pending = EmptyBuffer
      /\ vs.playing = EmptyBuffer /\ vs.append = 0
  BY <1>1 DEF NewStream
<1>8. Content(vs) /\ InLine(vs) /\ First(vs) /\ Until(vs, 0)
  BY <1>6, <1>7, EmptyIs DEF Content, InLine, First, Until, Behind
<1>9. WireTypeOK
  BY <1>1, <1>2, <1>3 DEF WireTypeOK
<1>10. Sender
  BY <1>1 DEF Sender
<1>11. Started
  BY <1>1, <1>3, <1>7, EmptyIs DEF Started
<1>12. StreamInv
  BY <1>1, <1>6, <1>7, <1>8, <1>9, <1>10, <1>11 DEF StreamInv, Good
<1> QED BY <1>5, <1>12, InvParts

LEMMA BeginInv == ASSUME VideoInv, Begin PROVE VideoInv' /\ vs'.playing.dl = vs.playing.dl
<1> DEFINE k == wire.iv
<1>1. LineInv /\ StreamInv
  BY InvParts
<1>2. /\ wire.frame = 0 /\ k \notin downloads /\ vs' = BeginDownload(vs, k)
      /\ downloads' = downloads \union {k}
      /\ line' = line /\ hold' = hold /\ wire' = wire /\ audio' = audio /\ overtaken' = overtaken
  BY DEF Begin
<1>3. k \in Intervals /\ 1 <= k /\ k \in Nat
  BY <1>1, <1>2, WireFacts
<1>4. Good(vs) /\ Until(vs, k) /\ Before(vs, k) /\ vs.append < k
  BY <1>1, <1>2 DEF StreamInv, Started, Unstarted
<1>5. /\ Good(vs') /\ Until(vs', k) /\ (First(vs) => First(vs')) /\ Before(vs', k)
      /\ vs'.append = 0 /\ vs'.prev_ds = vs.prev_ds /\ vs'.playing.dl = vs.playing.dl
      /\ vs'.accumulating.dl = k /\ ~vs'.accumulating.own_audio
      /\ vs'.accumulating.own_interval = NoGuid
  BY <1>2, <1>3, <1>4, BeginIs
<1> HIDE DEF k
<1>6. LineInv'
  BY <1>1, <1>2, <1>5 DEF LineInv, LineTypeOK, Audio
<1>7. WireTypeOK'
  BY <1>1, <1>2, <1>3 DEF StreamInv, WireTypeOK
<1>8. Sender'
  <2>1. Sender
    BY <1>1 DEF StreamInv
  <2>2. wire'.iv = k /\ wire'.frame = wire.frame /\ wire.iv = k
    BY <1>2 DEF k
  <2>3. downloads' \subseteq 1 .. k
    BY <1>2, <1>3, <2>1, <2>2 DEF Sender
  <2> QED BY <1>2, <2>1, <2>2, <2>3 DEF Sender
<1>9. Started'
  BY <1>2, <1>3, <1>5 DEF Started, Unstarted, Named, k
<1>10. Aims(vs', k)
  BY <1>3, <1>5 DEF Aims
<1>11. StreamInv'
  BY <1>1, <1>2, <1>3, <1>5, <1>7, <1>8, <1>9, <1>10 DEF StreamInv, k
<1>12. VideoInv'
  BY <1>6, <1>11, InvPartsNext
<1> QED BY <1>5, <1>12

LEMMA WriteInv == ASSUME VideoInv, Write PROVE VideoInv' /\ vs'.playing.dl = vs.playing.dl
<1> DEFINE k == wire.iv
           f == wire.frame + 1
<1>1. LineInv /\ StreamInv
  BY InvParts
<1>2. /\ k \in downloads /\ wire.frame < NumFrames
      /\ wire' = [wire EXCEPT !.frame = @ + 1] /\ vs' = WriteFrame(vs, k, f)
      /\ line' = line /\ hold' = hold /\ downloads' = downloads /\ audio' = audio
      /\ overtaken' = overtaken
  BY DEF Write
<1>3. k \in Intervals /\ 1 <= k /\ k \in Nat /\ f \in Frames /\ f \in 0 .. Closed
      /\ (f = 1 <=> wire.frame = 0) /\ f # 0 /\ f # Closed
  BY <1>1, <1>2, WireFacts DEF Frames
<1>4. wire'.iv = k /\ wire'.frame = f /\ wire'.video = wire.video
      /\ wire' \in [iv : Intervals \union {0}, frame : 0 .. Closed, video : SUBSET Intervals]
  BY <1>1, <1>2, <1>3 DEF StreamInv, WireTypeOK
<1>5. Good(vs) /\ Until(vs, k) /\ vs.append <= k /\ Aims(vs, k)
      /\ (f = 1 => Unstarted(vs, k))
      /\ \/ vs.accumulating.dl = 0 \/ Plain(vs.accumulating)
         \/ f = 1 /\ Named(vs.accumulating, k)
  BY <1>1, <1>2, <1>3 DEF StreamInv, Started
<1> HIDE DEF k, f
<1>6. /\ Good(vs') /\ Until(vs', k) /\ (First(vs) => First(vs')) /\ Aims(vs', k)
      /\ vs'.append <= k /\ vs'.prev_ds = vs.prev_ds
      /\ vs'.accumulating.dl = 0 \/ Plain(vs'.accumulating)
      /\ vs'.playing.dl = vs.playing.dl
  BY <1>2, <1>3, <1>5, WriteIs
<1>7. LineInv'
  BY <1>1, <1>2, <1>6 DEF LineInv, LineTypeOK, Audio
<1>8. WireTypeOK'
  BY <1>1, <1>2, <1>4 DEF StreamInv, WireTypeOK
<1>9. Sender'
  BY <1>1, <1>2, <1>3, <1>4 DEF StreamInv, Sender, k
<1>10. Started'
  BY <1>3, <1>4, <1>6 DEF Started
<1>11. StreamInv'
  BY <1>1, <1>2, <1>4, <1>6, <1>8, <1>9, <1>10 DEF StreamInv
<1>12. VideoInv'
  BY <1>7, <1>11, InvPartsNext
<1> QED BY <1>6, <1>12

LEMMA EndInv == ASSUME VideoInv, End PROVE VideoInv' /\ vs'.playing.dl = vs.playing.dl
<1> DEFINE k == wire.iv
<1>1. LineInv /\ StreamInv
  BY InvParts
<1>2. /\ k \in downloads /\ wire.frame >= 1
      /\ wire' = [wire EXCEPT !.frame = Closed] /\ vs' = EndDownload(vs, k)
      /\ downloads' = downloads \ {k}
      /\ line' = line /\ hold' = hold /\ audio' = audio /\ overtaken' = overtaken
  BY DEF End
<1>3. k \in Intervals /\ 1 <= k /\ k \in Nat /\ Closed \in 0 .. Closed /\ Closed # 0
      /\ wire.frame # 0
  BY <1>1, <1>2, WireFacts
<1>4. wire'.iv = k /\ wire'.frame = Closed /\ wire'.video = wire.video
      /\ wire' \in [iv : Intervals \union {0}, frame : 0 .. Closed, video : SUBSET Intervals]
  BY <1>1, <1>2, <1>3 DEF StreamInv, WireTypeOK
<1>5. Good(vs) /\ Until(vs, k) /\ vs.append <= k
      /\ (vs.accumulating.dl = 0 \/ Plain(vs.accumulating))
  BY <1>1, <1>2, <1>3 DEF StreamInv, Started
<1> HIDE DEF k
<1>6. /\ Good(vs') /\ Until(vs', k) /\ (First(vs) => First(vs'))
      /\ vs'.append <= k /\ vs'.prev_ds = vs.prev_ds
      /\ vs'.accumulating.dl = 0 \/ Plain(vs'.accumulating)
      /\ vs'.playing.dl = vs.playing.dl
  BY <1>2, <1>3, <1>5, EndIs
<1>7. LineInv'
  BY <1>1, <1>2, <1>6 DEF LineInv, LineTypeOK, Audio
<1>8. WireTypeOK'
  BY <1>1, <1>2, <1>4 DEF StreamInv, WireTypeOK
<1>9. Sender'
  BY <1>1, <1>2, <1>3, <1>4 DEF StreamInv, Sender, k
<1>10. Started'
  BY <1>3, <1>4, <1>6 DEF Started
<1>11. StreamInv'
  BY <1>1, <1>2, <1>4, <1>6, <1>8, <1>9, <1>10 DEF StreamInv
<1>12. VideoInv'
  BY <1>7, <1>11, InvPartsNext
<1> QED BY <1>6, <1>12
-----------------------------------------------------------------------------
(* The sender and the audio go on; the user leaves; the app comes back.    *)
LEMMA LaterUntil ==
  ASSUME NEW v \in Stream, NEW k \in Nat, Until(v, k)
  PROVE  Until(v, k + 1) /\ Before(v, k + 1)
<1>1. /\ v.accumulating.dl \in Nat /\ v.next.dl \in Nat /\ v.pending.dl \in Nat
      /\ v.playing.dl \in Nat /\ \A a \in DOMAIN v.awaiting : v.awaiting[a].dl \in Nat
  BY StreamType, BufferType
<1>2. /\ v.accumulating.dl <= k /\ v.next.dl <= k /\ v.pending.dl <= k /\ v.playing.dl <= k
      /\ \A a \in DOMAIN v.awaiting : v.awaiting[a].dl <= k
  BY DEF Until
<1>3. /\ v.accumulating.dl < k + 1 /\ v.next.dl < k + 1 /\ v.pending.dl < k + 1
      /\ v.playing.dl < k + 1
  BY <1>1, <1>2
<1>4. ASSUME NEW a \in DOMAIN v.awaiting
      PROVE  v.awaiting[a].dl < k + 1 /\ v.awaiting[a].dl <= k + 1
  BY <1>1, <1>2
<1>5. /\ v.accumulating.dl <= k + 1 /\ v.next.dl <= k + 1 /\ v.pending.dl <= k + 1
      /\ v.playing.dl <= k + 1
  BY <1>1, <1>2
<1> QED BY <1>3, <1>4, <1>5 DEF Until, Before

LEMMA SenderInv ==
  ASSUME VideoInv, NEW camera \in BOOLEAN, SenderInterval(camera)
  PROVE  VideoInv' /\ vs'.playing.dl = vs.playing.dl
<1> DEFINE k == wire.iv + 1
<1>1. LineInv /\ StreamInv
  BY InvParts
<1>2. /\ wire.frame # 0 /\ wire.iv \notin downloads /\ k \in Intervals
      /\ wire' = [iv |-> k, frame |-> IF camera THEN 0 ELSE Closed,
                  video |-> wire.video \union (IF camera THEN {k} ELSE {})]
      /\ line' = line /\ hold' = hold /\ vs' = vs /\ downloads' = downloads
      /\ audio' = audio /\ overtaken' = overtaken
  BY DEF SenderInterval
<1>3. wire.iv \in Nat /\ wire.video \subseteq Intervals /\ 0 \in 0 .. Closed
      /\ Closed \in 0 .. Closed /\ audio \in Nat
  BY <1>1, WireFacts
<1>4. k \in Nat /\ 1 <= k /\ wire.iv < k
  BY <1>3
<1>5. /\ wire'.iv = k /\ (wire'.frame = 0 \/ wire'.frame = Closed)
      /\ wire' \in [iv : Intervals \union {0}, frame : 0 .. Closed, video : SUBSET Intervals]
  BY <1>2, <1>3
<1>6. vs \in Stream /\ Good(vs) /\ Until(vs, wire.iv) /\ vs.append <= wire.iv /\ vs.append \in Nat
  BY <1>1, StreamType DEF StreamInv, Good
<1>7. Until(vs, k) /\ Before(vs, k)
  BY <1>3, <1>6, LaterUntil
<1>8. vs.append < k /\ vs.append <= k
  BY <1>3, <1>4, <1>6
<1>9. downloads \subseteq 1 .. wire.iv /\ (\A j \in 1 .. wire.iv : j \in Intervals) /\ audio <= wire.iv
  BY <1>1 DEF StreamInv, Sender
<1>10. /\ downloads \subseteq 1 .. k /\ (\A j \in 1 .. k : j \in Intervals) /\ audio <= k
       /\ k \notin downloads /\ k # 0
  BY <1>2, <1>3, <1>9
<1> HIDE DEF k
<1>11. LineInv'
  BY <1>1, <1>2 DEF LineInv, LineTypeOK, Audio
<1>12. WireTypeOK'
  BY <1>1, <1>2, <1>5 DEF StreamInv, WireTypeOK
<1>13. Sender'
  BY <1>2, <1>5, <1>10 DEF Sender
<1>14. Started'
  BY <1>1, <1>2, <1>5, <1>7, <1>8 DEF StreamInv, Started, Unstarted
<1>15. StreamInv'
  BY <1>1, <1>2, <1>5, <1>6, <1>7, <1>8, <1>10, <1>12, <1>13, <1>14 DEF StreamInv
<1> QED BY <1>2, <1>11, <1>15, InvPartsNext

LEMMA ArrivesInv ==
  ASSUME VideoInv, AudioArrives PROVE VideoInv' /\ vs'.playing.dl = vs.playing.dl
<1> DEFINE a == audio + 1
<1>1. LineInv /\ StreamInv
  BY InvParts
<1>2. /\ audio < wire.iv /\ audio' = a /\ vs' = vs /\ downloads' = downloads /\ wire' = wire
      /\ overtaken' = overtaken
  BY DEF AudioArrives
<1>3. audio \in Nat /\ wire.iv \in Nat /\ a \in 1 .. wire.iv /\ a <= wire.iv
  BY <1>1, <1>2, WireFacts
<1>4. a \in Intervals
  BY <1>1, <1>3 DEF StreamInv, Sender
<1>5. PICK s \in Sessions : Receive([sess |-> s, iv |-> a, tagged |-> MarkersTagged, fresh |-> FALSE])
  BY DEF AudioArrives
<1> DEFINE e == [sess |-> s, iv |-> a, tagged |-> MarkersTagged, fresh |-> FALSE]
<1>6. e \in Entry /\ e.iv = a
  BY <1>4, VideoAssumption DEF Entry
<1>7. line' = Deliver(line, e) /\ hold' = hold
  BY <1>5 DEF Receive
<1> HIDE DEF e
<1>8. /\ line \in Slots /\ hold \in 0 .. 1 /\ Sorted(line)
      /\ \A i \in SlotIdx : line[i] # None => line[i].iv <= audio
      /\ vs.prev_ds <= audio
      /\ \A i \in SlotIdx : line[i] # None /\ (i > 0 \/ hold > 0) => line[i].iv > vs.prev_ds
  BY <1>1 DEF LineInv, LineTypeOK, Audio
<1>9. /\ line' \in Slots /\ Sorted(line') /\ line'[0] = line[0]
      /\ \A i \in SlotIdx : line'[i] # None =>
           line'[i].iv <= a /\ (line'[i] = line[i] \/ line'[i] = e)
  BY <1>3, <1>6, <1>7, <1>8, DeliverSorted
<1>10. vs.prev_ds \in Int /\ vs.prev_ds < a /\ vs.prev_ds <= a
  BY <1>1, <1>3, <1>8, StreamType DEF StreamInv, Good
<1>11. \A i \in SlotIdx : line'[i] # None /\ (i > 0 \/ hold > 0) => line'[i].iv > vs.prev_ds
  <2>1. SUFFICES ASSUME NEW i \in SlotIdx, line'[i] # None, i > 0 \/ hold > 0
                 PROVE  line'[i].iv > vs.prev_ds
    OBVIOUS
  <2>2. CASE line'[i] = line[i]
    BY <1>8, <2>1, <2>2
  <2>3. CASE line'[i] = e
    BY <1>3, <1>6, <1>10, <2>3
  <2> QED BY <1>9, <2>1, <2>2, <2>3
<1> HIDE DEF a
<1>12. LineInv'
  BY <1>2, <1>7, <1>8, <1>9, <1>10, <1>11 DEF LineInv, LineTypeOK, Audio
<1>13. WireTypeOK'
  BY <1>1, <1>2, <1>4 DEF StreamInv, WireTypeOK
<1>14. Sender'
  BY <1>1, <1>2, <1>3 DEF StreamInv, Sender
<1>15. Started'
  BY <1>1, <1>2 DEF StreamInv, Started
<1>16. StreamInv'
  BY <1>1, <1>2, <1>13, <1>14, <1>15 DEF StreamInv
<1> QED BY <1>2, <1>12, <1>16, InvPartsNext

LEMMA NoSlotsAre == NoSlots \in Slots /\ \A i \in SlotIdx : NoSlots[i] = None
  BY DEF NoSlots, Slots

LEMMA LeaveInv ==
  ASSUME VideoInv, Leave PROVE VideoInv' /\ vs'.playing.dl = vs.playing.dl
<1>1. LineInv /\ StreamInv
  BY InvParts
<1>2. /\ line' = NoSlots /\ hold' = 0 /\ wire' = wire /\ audio' = audio /\ downloads' = {}
  BY DEF Leave, Flush
<1>3. overtaken' \in BOOLEAN /\ ~overtaken'
  BY Zenon DEF Leave
<1>4. vs \in Stream /\ Content(vs) /\ Until(vs, wire.iv) /\ vs.append <= wire.iv
  BY <1>1 DEF StreamInv, Good
<1>5. wire.iv \in Nat /\ audio \in Nat
  BY <1>1, WireFacts
<1>6. /\ vs'.accumulating = EmptyBuffer /\ vs'.next = EmptyBuffer /\ vs'.pending = EmptyBuffer
      /\ vs'.playing = vs.playing /\ vs'.awaiting = <<>> /\ vs'.append = vs.append
      /\ vs'.prev_ds = NoGuid
  BY <1>4 DEF Leave, Stream
<1>7. vs' \in Stream
  <2>1. 0 \in 0 .. HoldCap - 1 /\ EmptyBuffer \in Buffer /\ <<>> \in Seq(Buffer)
    BY VideoAssumption, EmptyIs
  <2> HIDE DEF EmptyBuffer
  <2> QED BY <1>4, <2>1 DEF Leave, Stream
<1>8. Len(vs'.awaiting) = 0 /\ DOMAIN vs'.awaiting = {}
  BY <1>6
<1>9. Short(vs')
  BY <1>8 DEF Short
<1>10. Own(vs.playing) /\ vs.playing.dl <= wire.iv
  BY <1>4 DEF Content, Until
<1>11. Content(vs') /\ InLine(vs') /\ First(vs')
  BY <1>6, <1>8, <1>10, EmptyIs DEF Content, InLine, First, Behind
<1>12. Until(vs', wire.iv)
  BY <1>5, <1>6, <1>8, <1>10, EmptyIs DEF Until
<1>13. LineInv'
  BY <1>2, <1>5, <1>6, NoSlotsAre, SlotCases DEF LineInv, LineTypeOK, Audio, Sorted, NoGap
<1>14. WireTypeOK'
  BY <1>1, <1>2, <1>3 DEF StreamInv, WireTypeOK
<1>15. Sender'
  BY <1>1, <1>2 DEF StreamInv, Sender
<1>16. Started'
  <2>1. ASSUME wire.frame = 0 PROVE Unstarted(vs', wire.iv)
    <3>1. Before(vs, wire.iv) /\ vs.append < wire.iv
      BY <1>1, <2>1 DEF StreamInv, Started, Unstarted
    <3>2. wire.iv > 0
      <4>1. wire.frame # Closed
        BY <1>1, <2>1, WireFacts
      <4> QED BY <1>1, <1>5, <4>1, WireFacts
    <3> QED BY <1>6, <1>8, <3>1, <3>2, EmptyIs DEF Unstarted, Before
  <2> QED BY <1>2, <1>6, <2>1, EmptyIs DEF Started
<1>17. StreamInv'
  BY <1>2, <1>4, <1>6, <1>7, <1>9, <1>11, <1>12, <1>14, <1>15, <1>16 DEF StreamInv, Good
<1> QED BY <1>6, <1>13, <1>17, InvPartsNext

LEMMA ForegroundInv ==
  ASSUME VideoInv, Foreground PROVE VideoInv' /\ vs'.playing.dl = 0
<1>1. LineInv /\ StreamInv
  BY InvParts
<1>2. /\ line' = line /\ hold' = hold /\ wire' = wire /\ audio' = audio
      /\ downloads' = downloads /\ vs' = NewStream
  BY DEF Foreground
<1>3. overtaken' \in BOOLEAN /\ ~overtaken'
  BY Zenon DEF Foreground
<1>4. wire.iv \in Nat /\ audio \in Nat
  BY <1>1, WireFacts
<1>5. vs' \in Stream /\ Short(vs') /\ DOMAIN vs'.awaiting = {}
  <2>1. EmptyBuffer \in Buffer /\ 0 \in 0 .. HoldCap - 1
    BY EmptyIs, VideoAssumption
  <2>2. <<>> \in Seq(Buffer) /\ Len(<<>>) = 0 /\ DOMAIN <<>> = {}
    OBVIOUS
  <2> HIDE DEF EmptyBuffer
  <2> QED BY <1>2, <2>1, <2>2 DEF NewStream, Stream, Short
<1>6. /\ vs'.accumulating = EmptyBuffer /\ vs'.next = EmptyBuffer /\ vs'.pending = EmptyBuffer
      /\ vs'.playing = EmptyBuffer /\ vs'.append = 0 /\ vs'.prev_ds = NoGuid
  BY <1>2 DEF NewStream
<1>7. Content(vs') /\ InLine(vs') /\ First(vs') /\ Until(vs', wire.iv)
  BY <1>4, <1>5, <1>6, EmptyIs DEF Content, InLine, First, Until, Behind
<1>8. LineInv'
  <2>1. /\ line \in Slots /\ hold \in 0 .. 1 /\ Sorted(line)
        /\ \A i \in SlotIdx : line[i] # None => line[i].iv <= audio
    BY <1>1 DEF LineInv, LineTypeOK, Audio
  <2>2. \A i \in SlotIdx : line[i] # None => line[i].iv \in Nat
    BY <2>1, SlotsAre, EntryInterval
  <2>3. \A i \in SlotIdx : line[i] # None => line[i].iv > -1
    BY <2>2
  <2>4. -1 <= audio
    BY <1>4
  <2> QED BY <1>2, <1>6, <2>1, <2>3, <2>4 DEF LineInv, LineTypeOK, Audio
<1>9. WireTypeOK'
  BY <1>1, <1>2, <1>3 DEF StreamInv, WireTypeOK
<1>10. Sender'
  BY <1>1, <1>2 DEF StreamInv, Sender
<1>11. wire.frame = 0 => wire.iv > 0
  <2>1. SUFFICES ASSUME wire.frame = 0 PROVE wire.iv > 0
    OBVIOUS
  <2>2. wire.frame # Closed
    BY <1>1, <2>1, WireFacts
  <2> QED BY <1>1, <1>4, <2>2, WireFacts
<1>12. Started'
  BY <1>2, <1>5, <1>6, <1>11, EmptyIs DEF Started, Unstarted, Before
<1>13. wire.iv \in downloads => wire.iv # 0
  BY <1>1, WireFacts
<1>14. StreamInv'
  BY <1>2, <1>4, <1>5, <1>6, <1>7, <1>9, <1>10, <1>12, <1>13 DEF StreamInv, Good, Aims
<1> QED BY <1>6, <1>8, <1>14, InvPartsNext, EmptyIs
-----------------------------------------------------------------------------
(* The interval boundary, and every step.                                  *)
LEMMA LentIs ==
  ASSUME NEW b \in Buffer
  PROVE  LET c == Lent(b)
         IN /\ c.dl = b.dl /\ c.own_interval = b.own_interval
            /\ (Plain(b) => Plain(c)) /\ \A k : Named(b, k) => Named(c, k)
<1> DEFINE c == Lent(b)
<1>1. c.dl = b.dl /\ c.marker = b.marker /\ c.own_audio = b.own_audio
      /\ c.own_interval = b.own_interval
  BY DEF Lent, Buffer
<1> HIDE DEF c
<1> QED BY <1>1 DEF Plain, Named, c

LEMMA SwapInv ==
  ASSUME VideoInv, NEW listening \in BOOLEAN, Swap(listening)
  PROVE  /\ VideoInv'
         /\ ~overtaken => vs.playing.dl <= vs'.playing.dl
<1> DEFINE ds == Sound(line', hold')
<1>1. LineInv /\ StreamInv
  BY InvParts
<1>2. /\ Boundary(listening) /\ vs' = SwapVideo(vs, line', hold')
      /\ downloads' = downloads /\ wire' = wire /\ audio' = audio
  BY DEF Swap
<1>3. overtaken' \in BOOLEAN /\ (~overtaken' => ~overtaken /\ ~Overtakes(vs'))
  BY Zenon DEF Swap
<1>4. wire.iv \in Nat /\ audio \in Nat
  BY <1>1, WireFacts
<1>5. /\ line \in Slots /\ hold \in 0 .. 1 /\ Sorted(line) /\ vs.prev_ds <= audio
      /\ \A i \in SlotIdx : line[i] # None => line[i].iv <= audio
      /\ \A i \in SlotIdx : line[i] # None /\ (i > 0 \/ hold > 0) => line[i].iv > vs.prev_ds
  BY <1>1 DEF LineInv, LineTypeOK, Audio
<1>6. Good(vs) /\ Until(vs, wire.iv) /\ vs.append <= wire.iv /\ (~overtaken => First(vs))
  BY <1>1 DEF StreamInv
<1>7. vs.prev_ds \in Int /\ vs.accumulating \in Buffer
  BY <1>6, StreamType DEF Good
<1>8. line' \in Slots /\ hold' \in 0 .. 1 /\ Sorted(line') /\ Within(line', vs.prev_ds, audio)
  BY <1>2, <1>5, BoundaryLine
<1>9. \A i \in SlotIdx : line'[i] # None => line'[i].iv \in Nat
  BY <1>8, SlotsAre, EntryInterval
<1>10. Newer(line', vs.prev_ds)
  BY <1>7, <1>8, <1>9 DEF Newer, Within
<1>11. Crosses(vs, vs', ds)
  BY <1>2, <1>6, <1>8, <1>10, SwapVideoIs
<1>12. /\ ds \in Nat \union {NoGuid} /\ (ds = NoGuid <=> Heard(line', hold') = None)
       /\ (Heard(line', hold') # None => hold' = 0 /\ line'[0] # None /\ ds = line'[0].iv)
  BY <1>8, SoundIs
<1>13. ds <= audio
  BY <1>4, <1>8, <1>12, SlotCases DEF Within
<1>14. \A i \in SlotIdx : line'[i] # None /\ (i > 0 \/ hold' > 0) => line'[i].iv > ds
  <2>1. SUFFICES ASSUME NEW i \in SlotIdx, line'[i] # None, i > 0 \/ hold' > 0
                 PROVE  line'[i].iv > ds
    OBVIOUS
  <2>2. CASE ds = NoGuid
    BY <1>9, <2>1, <2>2
  <2>3. CASE ds # NoGuid
    <3>1. hold' = 0 /\ line'[0] # None /\ ds = line'[0].iv
      BY <1>12, <2>3
    <3>2. 0 < i
      BY <1>8, <2>1, <3>1
    <3>3. line'[0].iv < line'[i].iv
      BY <1>8, <2>1, <3>1, <3>2, SlotCases DEF Sorted
    <3> QED BY <1>9, <2>1, <3>1, <3>3, SlotCases
  <2> QED BY <2>2, <2>3
<1>15. \A i \in SlotIdx : line'[i] # None => line'[i].iv > vs.prev_ds
  BY <1>10 DEF Newer
<1> HIDE DEF ds
<1>16. /\ Good(vs') /\ Steady(vs') /\ Lends(vs, vs') /\ vs'.prev_ds \in {vs.prev_ds, ds}
       /\ \A k \in Nat : Until(vs, k) => Until(vs', k) /\ vs'.append <= k
       /\ \A k \in Nat : Before(vs, k) /\ 0 < k => Before(vs', k) /\ vs'.append < k
       /\ First(vs) => vs.playing.dl <= vs'.playing.dl /\ (First(vs') \/ Overtakes(vs'))
  BY <1>11 DEF Crosses
<1>17. LineInv'
  <2>1. CASE vs'.prev_ds = vs.prev_ds
    BY <1>2, <1>5, <1>8, <1>15, <2>1 DEF LineInv, LineTypeOK, Audio, Within
  <2>2. CASE vs'.prev_ds = ds
    BY <1>2, <1>8, <1>13, <1>14, <2>2 DEF LineInv, LineTypeOK, Audio, Within
  <2> QED BY <1>16, <2>1, <2>2
<1>18. WireTypeOK'
  BY <1>1, <1>2, <1>3 DEF StreamInv, WireTypeOK
<1>19. Sender'
  BY <1>1, <1>2 DEF StreamInv, Sender
<1>20. Started'
  <2>1. Started
    BY <1>1 DEF StreamInv
  <2>2. wire.frame = 0 => 0 < wire.iv
    <3>1. SUFFICES ASSUME wire.frame = 0 PROVE 0 < wire.iv
      OBVIOUS
    <3>2. wire.frame # Closed
      BY <1>1, <3>1, WireFacts
    <3> QED BY <1>1, <1>4, <3>2, WireFacts
  <2>3. wire.frame = 0 => Unstarted(vs', wire.iv)
    BY <1>4, <1>16, <2>1, <2>2 DEF Started, Unstarted
  <2>4. \/ vs'.accumulating.dl = 0 \/ Plain(vs'.accumulating)
        \/ wire.frame = 0 /\ Named(vs'.accumulating, wire.iv)
    <3>1. CASE vs'.accumulating = vs.accumulating
      BY <2>1, <3>1 DEF Started
    <3>2. CASE vs'.accumulating = Lent(vs.accumulating)
      <4>1. /\ vs'.accumulating.dl = vs.accumulating.dl
            /\ (Plain(vs.accumulating) => Plain(vs'.accumulating))
            /\ (Named(vs.accumulating, wire.iv) => Named(vs'.accumulating, wire.iv))
        BY <1>7, <3>2, LentIs
      <4> QED BY <2>1, <4>1 DEF Started
    <3> QED BY <1>16, <3>1, <3>2 DEF Lends
  <2> QED BY <1>2, <2>3, <2>4 DEF Started
<1>21. wire.iv \in downloads => Aims(vs', wire.iv)
  <2>1. SUFFICES ASSUME wire.iv \in downloads, vs'.append = wire.iv
                 PROVE  vs'[vs'.append_to].dl = wire.iv
    BY DEF Aims
  <2>2. wire.iv # 0
    BY <1>1, <1>4, <2>1, WireFacts
  <2> QED BY <1>16, <2>1, <2>2 DEF Steady
<1>22. (~overtaken' => First(vs')) /\ (~overtaken => vs.playing.dl <= vs'.playing.dl)
  BY <1>3, <1>6, <1>16
<1>23. Until(vs', wire.iv) /\ vs'.append <= wire.iv
  BY <1>4, <1>6, <1>16
<1>24. StreamInv'
  BY <1>2, <1>16, <1>18, <1>19, <1>20, <1>21, <1>22, <1>23 DEF StreamInv
<1> QED BY <1>17, <1>22, <1>24, InvPartsNext

LEMMA StutterInv == ASSUME VideoInv, UNCHANGED videoVars PROVE VideoInv'
  BY DEF VideoInv, videoVars, VideoTypeOK, LineTypeOK, Sender, Audio, Started

(* Every step keeps the invariant and, while the fallback has overtaken    *)
(* nothing, the order of the screen.                                       *)
LEMMA StepInv ==
  ASSUME VideoInv, [VideoNext]_videoVars
  PROVE  /\ VideoInv'
         /\ vs'.playing.dl # 0 /\ ~overtaken => vs'.playing.dl >= vs.playing.dl
<1>1. vs.playing.dl \in Nat
  <2>1. vs \in Stream
    BY InvParts DEF StreamInv, Good
  <2> QED BY <2>1, StreamType, BufferType
<1>2. CASE Begin
  BY <1>1, <1>2, BeginInv
<1>3. CASE Write
  BY <1>1, <1>3, WriteInv
<1>4. CASE End
  BY <1>1, <1>4, EndInv
<1>5. CASE AudioArrives
  BY <1>1, <1>5, ArrivesInv
<1>6. CASE Leave
  BY <1>1, <1>6, LeaveInv
<1>7. CASE Foreground
  BY <1>7, ForegroundInv
<1>8. ASSUME NEW camera \in BOOLEAN, SenderInterval(camera)
      PROVE  VideoInv' /\ vs'.playing.dl >= vs.playing.dl
  BY <1>1, <1>8, SenderInv
<1>9. ASSUME NEW listening \in BOOLEAN, Swap(listening)
      PROVE  VideoInv' /\ (~overtaken => vs'.playing.dl >= vs.playing.dl)
  <2>1. VideoInv' /\ (~overtaken => vs.playing.dl <= vs'.playing.dl)
    BY <1>9, SwapInv
  <2>2. vs' \in Stream
    BY <2>1 DEF VideoInv, VideoTypeOK, Stream
  <2>3. vs'.playing.dl \in Nat
    BY <2>2, StreamType, BufferType
  <2> QED BY <1>1, <2>1, <2>3
<1>10. CASE UNCHANGED videoVars
  <2>1. vs' = vs
    BY <1>10 DEF videoVars
  <2> QED BY <1>1, <1>10, <2>1, StutterInv
<1> QED BY <1>2, <1>3, <1>4, <1>5, <1>6, <1>7, <1>8, <1>9, <1>10 DEF VideoNext

LEMMA VideoInvariant == VideoSpec => []VideoInv
<1>1. VideoInv /\ [VideoNext]_videoVars => VideoInv'
  BY StepInv
<1> QED BY InitInv, <1>1, PTL DEF VideoSpec
-----------------------------------------------------------------------------
(* The types of the stream, of the line and of the wire: at most two       *)
(* intervals wait, the hold count stays below its cap, and no buffer keeps *)
(* a frame that no download carries.                                       *)
THEOREM VideoTyped == VideoSpec => []VideoTypeOK
<1>1. VideoInv => VideoTypeOK
  BY DEF VideoInv
<1> QED BY <1>1, VideoInvariant, PTL

(* No buffer ever mixes two downloads, although frames are routed by what  *)
(* five buffers and two append flags say at the moment they come, and a    *)
(* boundary, a leave or a return to the foreground may have moved or       *)
(* emptied any of them in between (njclient.cpp, the video branch of       *)
(* DOWNLOAD_INTERVAL_WRITE).                                               *)
THEOREM BuffersAreWhole == VideoSpec => []OneDownload
<1>1. VideoInv => OneDownload
  <2>1. SUFFICES ASSUME VideoInv PROVE OneDownload
    OBVIOUS
  <2>2. Content(vs)
    BY <2>1, InvParts DEF StreamInv, Good
  <2> QED BY <2>2 DEF Content, Own, OneDownload, Buffers
<1> QED BY <1>1, VideoInvariant, PTL

(* The screen never goes back to an earlier interval: whatever the audio   *)
(* line waits, skips or loses, whatever of the video is deferred, awaited, *)
(* replaced or dropped, as long as the fallback has not played an interval *)
(* before one that waited for its audio (on_new_interval).                 *)
THEOREM ScreenGoesForward == VideoSpec => VideoForward
<1>1. VideoInv /\ [VideoNext]_videoVars =>
        [vs'.playing.dl # 0 /\ ~overtaken => vs'.playing.dl >= vs.playing.dl]_videoVars
  BY StepInv
<1> QED BY <1>1, VideoInvariant, PTL DEF VideoSpec, VideoForward
=============================================================================
