---------------------------- MODULE Upload_proofs ----------------------------
(***************************************************************************)
(* Theorems of the upload of the local channels (module LocalUpload), and  *)
(* of the video that is sent with it (module VideoSend).                   *)
(***************************************************************************)
EXTENDS VideoSend, SequenceTheorems, FiniteSetTheorems, TLAPS, WellFoundedInduction
-----------------------------------------------------------------------------
(***************************************************************************)
(* What reaches the server of one channel (UploadsWhole,                   *)
(* TagNamesInterval): c, q, u and s are its Local_Channel, its queue, the  *)
(* part of it only Run uses, and what the server has received.             *)
(***************************************************************************)
Flags     == SUBSET {"live", "session"}
Pieces    == [at : Nat, as : Flags]
Blocks    == [kind : {"audio"}, at : Nat, as : Flags] \union {END, SILENCE}
Guids     == [n : Nat, tag : Nat \union {Untagged}]
Channels  == [flags : Flags, broadcasting : BOOLEAN, bcast_active : BOOLEAN, curbuflen : Nat]
Encoders  == [m_enc : BOOLEAN, pending : Seq(Pieces), need_header : BOOLEAN,
              guid : Guids, header : Guids, n : Nat]
Servers   == [guid : Guids, open : BOOLEAN, holds : SUBSET Pieces, got : Nat, stray : Nat,
              unfinished : Nat, recorded : Nat, dropped : Nat, steady : BOOLEAN]

ChannelTypeOK(c, q, u, s) == c \in Channels /\ q \in Seq(Blocks) /\ u \in Encoders /\ s \in Servers

(* The audio that is encoded goes to an upload: the BEGIN of it waits for  *)
(* its first audio, or the server has it open.                             *)
Going(u, s) ==
  /\ ~u.need_header /\ u.m_enc
  /\ IF u.header = ZeroGuid THEN s.open /\ s.guid = u.guid ELSE u.header = u.guid /\ ~s.open

(* An upload is under way behind the k-th block of a queue; in front of it,*)
(* if w says so.                                                           *)
Live(q, w, k)     == IF k = 0 THEN w ELSE q[k].kind = "audio"
EndsIn(q, k, i)   == \E j \in k + 1 .. i - 1 : q[j].kind = "end"
Over(q, w, i)     == \A k \in 0 .. i - 1 : Live(q, w, k) => EndsIn(q, k, i)
Quiet(q, w)       == \A i \in 1 .. Len(q) : q[i].kind = "silence" => Over(q, w, i)

(* On the grid a channel that has stopped says so behind its last audio;   *)
(* what a connection before this one left open ends before the audio.      *)
FallsSilent(q, w) ==
  \A k \in 0 .. Len(q) : Live(q, w, k) => \E j \in k + 1 .. Len(q) : q[j].kind = "silence"
EndsFirst(q, p) ==
  /\ \A i \in 1 .. Len(q) : q[i].kind = "audio" => EndsIn(q, 0, i)
  /\ p # 0 => EndsIn(q, 0, Len(q) + 1)

(* The audio between two ends is of one interval, the last of this one.    *)
At(q, tag, k) == IF k = 0 THEN tag ELSE q[k].at
OneInterval(q, w, tag, loop) ==
  \A k \in 0 .. Len(q) : Live(q, w, k) =>
    /\ \A i \in k + 1 .. Len(q) :
         q[i].kind = "audio" /\ ~EndsIn(q, k, i) => q[i].at = At(q, tag, k)
    /\ ~EndsIn(q, k, Len(q) + 1) => At(q, tag, k) = loop

Encoding(u, s) ==
  /\ s.open \/ u.header # ZeroGuid => Going(u, s)
  /\ u.need_header \/ ~u.m_enc => u.pending = <<>>
  /\ s.unfinished = 0

Counted(q, u, s) ==
  s.recorded = s.dropped + s.got + s.stray + Cardinality(AudioIn(q)) + Len(u.pending)

TagOf(a) == IF a.as = {} THEN a.at ELSE Untagged
Steady(c, q, u, s) ==
  /\ \A i \in 1 .. Len(q) : q[i].kind = "audio" => q[i].as = c.flags
  /\ \A a \in s.holds : s.guid.tag = TagOf(a)
  /\ Going(u, s) => /\ \A i \in 1 .. Len(u.pending) : u.guid.tag = TagOf(u.pending[i])
                    /\ c.flags # {} => u.guid.tag = Untagged

OnTheGrid(c, q, u, s, p, loop, ok) ==
  /\ s.stray = 0
  /\ Quiet(q, ~u.need_header)
  /\ ok /\ ~c.bcast_active => FallsSilent(q, ~u.need_header)
  /\ ~u.need_header /\ ~Going(u, s) => EndsFirst(q, p) /\ u.pending = <<>>
  /\ OneInterval(q, Going(u, s), u.guid.tag, loop)

ChannelInv(c, q, u, s, p, loop, ok) ==
  /\ ChannelTypeOK(c, q, u, s)
  /\ p = 0 => q = <<>>
  /\ Quiet(q, Going(u, s))
  /\ ~c.bcast_active => Over(q, Going(u, s), Len(q) + 1)
  /\ Encoding(u, s) /\ Counted(q, u, s)
  /\ s.steady => Steady(c, q, u, s)
  /\ s.steady /\ c.flags = {} => OnTheGrid(c, q, u, s, p, loop, ok)

UploadInv ==
  /\ loopcnt \in Nat /\ pos \in Nat /\ run \in 0 .. NumLocal
  /\ DOMAIN lc = Local /\ DOMAIN bq = Local /\ DOMAIN up = Local /\ DOMAIN server = Local
  /\ \A ch \in Local :
       ChannelInv(lc[ch], bq[ch], up[ch], server[ch], pos, loopcnt, conn # "crashed")

-----------------------------------------------------------------------------
(* Queues: one block more, or the first one taken.                         *)
Pushed(q, b, r) ==
  /\ q \in Seq(Blocks) /\ r \in Seq(Blocks) /\ b \in Blocks
  /\ Len(r) = Len(q) + 1 /\ r[Len(r)] = b
  /\ \A i \in 1 .. Len(q) : r[i] = q[i]
Popped(q, r) ==
  /\ q \in Seq(Blocks) /\ r \in Seq(Blocks)
  /\ Len(q) = Len(r) + 1
  /\ \A i \in 1 .. Len(r) : r[i] = q[i + 1]

Joined(q, m, r) == q \in Seq(Blocks) /\ m \in Seq(Blocks) /\ r = q \o m

LEMMA KindsOfBlocks ==
  /\ END \in Blocks /\ SILENCE \in Blocks
  /\ END.kind = "end" /\ SILENCE.kind = "silence"
  /\ \A b \in Blocks : b.kind \in {"audio", "end", "silence"}
  /\ \A b \in Blocks : b.kind = "silence" => b = SILENCE
  /\ \A b \in Blocks : b.kind = "audio" => b.at \in Nat /\ b.as \in Flags
  BY DEF Blocks, END, SILENCE

LEMMA PushIs ==
  ASSUME NEW q \in Seq(Blocks), NEW b \in Blocks
  PROVE  Pushed(q, b, Append(q, b))
<1>1. /\ Append(q, b) \in Seq(Blocks) /\ Len(Append(q, b)) = Len(q) + 1
      /\ \A i \in 1 .. Len(q) : Append(q, b)[i] = q[i]
      /\ Append(q, b)[Len(q) + 1] = b
  BY AppendProperties
<1>2. QED BY <1>1 DEF Pushed

LEMMA PopIs ==
  ASSUME NEW q \in Seq(Blocks), q # <<>>
  PROVE  Popped(q, Tail(q)) /\ Head(q) = q[1] /\ Head(q) \in Blocks /\ 1 \in 1 .. Len(q)
<1>1. /\ Head(q) \in Blocks /\ Tail(q) \in Seq(Blocks) /\ Len(Tail(q)) = Len(q) - 1
      /\ \A i \in 1 .. Len(Tail(q)) : Tail(q)[i] = q[i + 1]
  BY HeadTailProperties
<1>2. Len(q) \in Nat \ {0}
  BY EmptySeq
<1>3. Head(q) = q[1]
  OBVIOUS
<1>4. QED BY <1>1, <1>2, <1>3 DEF Popped

LEMMA MarkOne ==
  ASSUME NEW q \in Seq(Blocks), NEW m \in Seq(Blocks), Len(m) = 1
  PROVE  Pushed(q, m[1], q \o m)
<1>1. /\ q \o m \in Seq(Blocks) /\ Len(q \o m) = Len(q) + Len(m)
      /\ \A i \in 1 .. Len(q) + Len(m) : (q \o m)[i] = IF i <= Len(q) THEN q[i] ELSE m[i - Len(q)]
  BY ConcatProperties
<1>2. Len(q) \in Nat /\ 1 \in 1 .. Len(m) /\ m[1] \in Blocks
  OBVIOUS
<1>3. (q \o m)[Len(q) + 1] = m[1]
  BY <1>1, <1>2
<1>4. \A i \in 1 .. Len(q) : (q \o m)[i] = q[i]
  BY <1>1, <1>2
<1>5. QED BY <1>1, <1>2, <1>3, <1>4 DEF Pushed

LEMMA MarkTwo ==
  ASSUME NEW q \in Seq(Blocks), NEW m \in Seq(Blocks), Len(m) = 2
  PROVE  \E t : Pushed(q, m[1], t) /\ Pushed(t, m[2], q \o m)
<1> DEFINE t == Append(q, m[1])
<1>1. /\ q \o m \in Seq(Blocks) /\ Len(q \o m) = Len(q) + Len(m)
      /\ \A i \in 1 .. Len(q) + Len(m) : (q \o m)[i] = IF i <= Len(q) THEN q[i] ELSE m[i - Len(q)]
  BY ConcatProperties
<1>2. Len(q) \in Nat /\ m[1] \in Blocks /\ m[2] \in Blocks
  <2>1. 1 \in 1 .. Len(m) /\ 2 \in 1 .. Len(m)
    OBVIOUS
  <2>2. \A i \in 1 .. Len(m) : m[i] \in Blocks
    BY ElementOfSeq
  <2>3. m[1] \in Blocks /\ m[2] \in Blocks
    BY <2>1, <2>2
  <2>4. Len(q) \in Nat
    OBVIOUS
  <2>5. QED BY <2>3, <2>4
<1>3. Pushed(q, m[1], t)
  BY <1>2, PushIs
<1> HIDE DEF t
<1>4. /\ t \in Seq(Blocks) /\ Len(t) = Len(q) + 1 /\ t[Len(q) + 1] = m[1]
      /\ \A i \in 1 .. Len(q) : t[i] = q[i]
  BY <1>3 DEF Pushed
<1>5. (q \o m)[Len(q) + 2] = m[2] /\ (q \o m)[Len(q) + 1] = m[1]
  BY <1>1, <1>2
<1>6. \A i \in 1 .. Len(t) : (q \o m)[i] = t[i]
  <2>1. ASSUME NEW i \in 1 .. Len(t) PROVE (q \o m)[i] = t[i]
    <3>1. CASE i = Len(q) + 1
      BY <1>4, <1>5, <3>1
    <3>2. CASE i \in 1 .. Len(q)
      BY <1>1, <1>2, <1>4, <3>2
    <3>3. i = Len(q) + 1 \/ i \in 1 .. Len(q)
      BY <1>2, <1>4
    <3>4. QED BY <3>1, <3>2, <3>3
  <2>2. QED BY <2>1
<1>7. Pushed(t, m[2], q \o m)
  BY <1>1, <1>2, <1>4, <1>5, <1>6 DEF Pushed
<1>8. QED BY <1>3, <1>7

LEMMA AudioInIs ==
  ASSUME NEW q \in Seq(Blocks)
  PROVE  IsFiniteSet(AudioIn(q)) /\ Cardinality(AudioIn(q)) \in Nat /\ Cardinality(AudioIn(q)) <= Len(q)
<1>1. Len(q) \in Nat /\ 1 \in Int /\ Len(q) \in Int
  OBVIOUS
<1>2. IsFiniteSet(1 .. Len(q)) /\ Cardinality(1 .. Len(q)) = IF 1 > Len(q) THEN 0 ELSE Len(q) - 1 + 1
  BY <1>1, FS_Interval
<1>3. AudioIn(q) \in SUBSET (1 .. Len(q))
  BY DEF AudioIn
<1>4. IsFiniteSet(AudioIn(q)) /\ Cardinality(AudioIn(q)) <= Cardinality(1 .. Len(q))
  BY <1>2, <1>3, FS_Subset
<1>5. Cardinality(AudioIn(q)) \in Nat
  BY <1>4, FS_CardinalityType
<1>6. QED BY <1>1, <1>2, <1>4, <1>5

LEMMA CountEmpty == Cardinality(AudioIn(<<>>)) = 0
<1>1. AudioIn(<<>>) = {}
  BY DEF AudioIn
<1>2. QED BY <1>1, FS_EmptySet

LEMMA CountPush ==
  ASSUME NEW q, NEW b, NEW r, Pushed(q, b, r)
  PROVE  Cardinality(AudioIn(r)) = Cardinality(AudioIn(q)) + (IF b.kind = "audio" THEN 1 ELSE 0)
<1>1. /\ q \in Seq(Blocks) /\ r \in Seq(Blocks) /\ Len(q) \in Nat /\ Len(r) = Len(q) + 1
      /\ r[Len(q) + 1] = b /\ \A i \in 1 .. Len(q) : r[i] = q[i]
  BY DEF Pushed
<1>2. AudioIn(r) = AudioIn(q) \union (IF b.kind = "audio" THEN {Len(q) + 1} ELSE {})
  BY <1>1 DEF AudioIn
<1>3. IsFiniteSet(AudioIn(q)) /\ Cardinality(AudioIn(q)) \in Nat /\ Len(q) + 1 \notin AudioIn(q)
  BY <1>1, AudioInIs DEF AudioIn
<1>4. Cardinality(AudioIn(q) \union {Len(q) + 1}) = Cardinality(AudioIn(q)) + 1
  BY <1>3, FS_AddElement
<1>5. CASE b.kind = "audio"
  BY <1>2, <1>4, <1>5
<1>6. CASE b.kind # "audio"
  <2>1. AudioIn(r) = AudioIn(q)
    BY <1>2, <1>6
  <2>2. QED BY <1>3, <1>6, <2>1
<1>7. QED BY <1>5, <1>6

LEMMA CountPop ==
  ASSUME NEW q, NEW r, Popped(q, r)
  PROVE  Cardinality(AudioIn(q)) = Cardinality(AudioIn(r)) + (IF q[1].kind = "audio" THEN 1 ELSE 0)
<1>1. /\ q \in Seq(Blocks) /\ r \in Seq(Blocks) /\ Len(r) \in Nat /\ Len(q) = Len(r) + 1
      /\ \A i \in 1 .. Len(r) : r[i] = q[i + 1]
  BY DEF Popped
<1>2. IsFiniteSet(AudioIn(q)) /\ Cardinality(AudioIn(q)) \in Nat
      /\ IsFiniteSet(AudioIn(r)) /\ Cardinality(AudioIn(r)) \in Nat
  BY <1>1, AudioInIs
<1> DEFINE rest == AudioIn(q) \ {1}
<1>3. IsFiniteSet(rest) /\ Cardinality(rest) = IF 1 \in AudioIn(q) THEN Cardinality(AudioIn(q)) - 1
                                               ELSE Cardinality(AudioIn(q))
  BY <1>2, FS_RemoveElement
<1>4. ExistsBijection(AudioIn(r), rest)
  <2> DEFINE f == [i \in AudioIn(r) |-> i + 1]
  <2>1. \A i \in AudioIn(r) : i \in 1 .. Len(r) /\ i + 1 \in rest
    BY <1>1 DEF AudioIn
  <2>2. \A j \in rest : j - 1 \in AudioIn(r) /\ j - 1 + 1 = j
    BY <1>1 DEF AudioIn
  <2>3. f \in [AudioIn(r) -> rest]
    BY <2>1
  <2>4. \A x, y \in AudioIn(r) : x # y => f[x] # f[y]
    BY <2>1
  <2>5. \A j \in rest : \E i \in AudioIn(r) : f[i] = j
    BY <2>2
  <2> HIDE DEF f, rest
  <2>6. f \in Bijection(AudioIn(r), rest)
    BY <2>3, <2>4, <2>5 DEF Bijection, Injection, Surjection, IsInjective
  <2>7. QED BY <2>6 DEF ExistsBijection
<1>5. Cardinality(rest) = Cardinality(AudioIn(r))
  BY <1>2, <1>4, FS_Bijection
<1>6. 1 \in AudioIn(q) <=> q[1].kind = "audio"
  BY <1>1 DEF AudioIn
<1>7. QED BY <1>2, <1>3, <1>5, <1>6

(* What lies in front of a place is not changed by what is put behind it.  *)
LEMMA FrontStays ==
  ASSUME NEW q, NEW b, NEW r, Pushed(q, b, r), NEW w \in BOOLEAN
  PROVE  /\ \A k \in Nat, i \in 1 .. Len(q) + 1 : EndsIn(r, k, i) <=> EndsIn(q, k, i)
         /\ \A i \in 1 .. Len(q) + 1 : Over(r, w, i) <=> Over(q, w, i)
         /\ \A k \in 0 .. Len(q) : Live(r, w, k) <=> Live(q, w, k)
<1>1. /\ Len(q) \in Nat /\ Len(r) = Len(q) + 1 /\ \A i \in 1 .. Len(q) : r[i] = q[i]
  BY DEF Pushed
<1>2. \A k \in Nat, i \in 1 .. Len(q) + 1 : EndsIn(r, k, i) <=> EndsIn(q, k, i)
  <2>1. ASSUME NEW k \in Nat, NEW i \in 1 .. Len(q) + 1, NEW j \in k + 1 .. i - 1
        PROVE  r[j] = q[j]
    BY <1>1
  <2>2. QED BY <2>1 DEF EndsIn
<1>3. \A k \in 0 .. Len(q) : Live(r, w, k) <=> Live(q, w, k)
  BY <1>1 DEF Live
<1>4. \A i \in 1 .. Len(q) + 1 : Over(r, w, i) <=> Over(q, w, i)
  <2>1. ASSUME NEW i \in 1 .. Len(q) + 1, NEW k \in 0 .. i - 1
        PROVE  (Live(r, w, k) <=> Live(q, w, k)) /\ (EndsIn(r, k, i) <=> EndsIn(q, k, i))
    <3>1. k \in Nat /\ k \in 0 .. Len(q)
      BY <1>1
    <3>2. QED BY <1>2, <1>3, <3>1
  <2>2. QED BY <2>1 DEF Over
<1>5. QED BY <1>2, <1>3, <1>4

(* A block more: silence comes where all is over, an end ends all.         *)
LEMMA QuietPush ==
  ASSUME NEW q, NEW b, NEW r, Pushed(q, b, r), NEW w \in BOOLEAN, Quiet(q, w),
         b.kind = "silence" => Over(q, w, Len(q) + 1)
  PROVE  /\ Quiet(r, w)
         /\ b.kind = "end" => Over(r, w, Len(r) + 1)
         /\ b.kind = "silence" => Over(r, w, Len(r) + 1)
<1>1. /\ Len(q) \in Nat /\ Len(r) = Len(q) + 1 /\ \A i \in 1 .. Len(q) : r[i] = q[i]
      /\ r[Len(q) + 1] = b
  BY DEF Pushed
<1>2. \A i \in 1 .. Len(q) + 1 : Over(r, w, i) <=> Over(q, w, i)
  BY FrontStays
<1>3. ASSUME NEW i \in 1 .. Len(r), r[i].kind = "silence" PROVE Over(r, w, i)
  <2>1. CASE i \in 1 .. Len(q)
    BY <1>1, <1>2, <1>3, <2>1 DEF Quiet
  <2>2. CASE i = Len(q) + 1
    BY <1>1, <1>2, <1>3, <2>2
  <2>3. QED BY <1>1, <2>1, <2>2
<1>4. ASSUME b.kind = "end" PROVE Over(r, w, Len(r) + 1)
  <2>1. ASSUME NEW k \in 0 .. Len(r), Live(r, w, k) PROVE EndsIn(r, k, Len(r) + 1)
    <3>1. k # Len(r)
      BY <1>1, <1>4, <2>1 DEF Live
    <3>2. Len(r) \in k + 1 .. Len(r) + 1 - 1 /\ r[Len(r)].kind = "end"
      BY <1>1, <1>4, <3>1
    <3>3. QED BY <3>2 DEF EndsIn
  <2>2. QED BY <1>1, <2>1 DEF Over
<1>5. ASSUME b.kind = "silence" PROVE Over(r, w, Len(r) + 1)
  <2>1. Over(r, w, Len(r))
    BY <1>1, <1>2, <1>5
  <2>2. ASSUME NEW k \in 0 .. Len(r), Live(r, w, k) PROVE EndsIn(r, k, Len(r) + 1)
    <3>1. CASE k = Len(r)
      BY <1>1, <1>5, <2>2, <3>1 DEF Live
    <3>2. CASE k \in 0 .. Len(r) - 1
      <4>1. PICK j \in k + 1 .. Len(r) - 1 : r[j].kind = "end"
        BY <2>1, <2>2, <3>2 DEF Over, EndsIn
      <4>2. j \in k + 1 .. Len(r) + 1 - 1
        BY <1>1, <3>2
      <4>3. QED BY <4>1, <4>2 DEF EndsIn
    <3>3. QED BY <1>1, <3>1, <3>2
  <2>3. QED BY <1>1, <2>2 DEF Over
<1>6. QED BY <1>3, <1>4, <1>5 DEF Quiet

(* The first block taken.                                                  *)
LEMMA EndsInPop ==
  ASSUME NEW q, NEW r, Popped(q, r), NEW k \in Nat, NEW i \in Nat, i <= Len(r) + 1
  PROVE  EndsIn(r, k, i) <=> EndsIn(q, k + 1, i + 1)
<1>1. /\ Len(r) \in Nat /\ Len(q) = Len(r) + 1 /\ \A j \in 1 .. Len(r) : r[j] = q[j + 1]
  BY DEF Popped
<1>2. ASSUME NEW j \in k + 1 .. i - 1, r[j].kind = "end" PROVE EndsIn(q, k + 1, i + 1)
  <2>1. j + 1 \in k + 1 + 1 .. i + 1 - 1 /\ q[j + 1].kind = "end"
    BY <1>1, <1>2
  <2>2. QED BY <2>1 DEF EndsIn
<1>3. ASSUME NEW j \in k + 1 + 1 .. i + 1 - 1, q[j].kind = "end" PROVE EndsIn(r, k, i)
  <2>1. j - 1 \in k + 1 .. i - 1 /\ j - 1 \in 1 .. Len(r) /\ j - 1 + 1 = j
    BY <1>1
  <2>2. r[j - 1].kind = "end"
    BY <1>1, <1>3, <2>1
  <2>3. QED BY <2>1, <2>2 DEF EndsIn
<1>4. QED BY <1>2, <1>3 DEF EndsIn

LEMMA QuietPop ==
  ASSUME NEW q, NEW r, Popped(q, r), NEW w \in BOOLEAN, NEW v \in BOOLEAN, Quiet(q, w),
         v => q[1].kind = "audio" \/ (q[1].kind = "silence" /\ w)
  PROVE  /\ Quiet(r, v)
         /\ Over(q, w, Len(q) + 1) => Over(r, v, Len(r) + 1)
         /\ q[1].kind = "silence" => ~w
<1>1. /\ Len(r) \in Nat /\ Len(q) = Len(r) + 1 /\ \A j \in 1 .. Len(r) : r[j] = q[j + 1]
  BY DEF Popped
<1>2. ASSUME NEW i \in 1 .. Len(r) + 1, Over(q, w, i + 1) PROVE Over(r, v, i)
  <2>1. SUFFICES ASSUME NEW k \in 0 .. i - 1, Live(r, v, k) PROVE EndsIn(r, k, i)
    BY DEF Over
  <2>2. CASE Live(q, w, k + 1)
    <3>1. k \in Nat /\ i \in Nat /\ i <= Len(r) + 1 /\ k + 1 \in 0 .. i + 1 - 1
      BY <1>1
    <3>2. EndsIn(q, k + 1, i + 1)
      BY <1>2, <2>2, <3>1 DEF Over
    <3>3. QED BY <3>1, <3>2, EndsInPop
  <2>3. CASE k = 0 /\ q[1].kind = "silence" /\ w
    <3>1. PICK j \in 0 + 1 .. i + 1 - 1 : q[j].kind = "end"
      BY <1>1, <1>2, <2>3 DEF Over, Live, EndsIn
    <3>2. j # 1
      BY <2>3, <3>1
    <3>3. j - 1 \in 0 + 1 .. i - 1 /\ j - 1 \in 1 .. Len(r) /\ j - 1 + 1 = j
      BY <1>1, <3>2
    <3>4. r[j - 1].kind = "end"
      BY <1>1, <3>1, <3>3
    <3>5. QED BY <2>3, <3>3, <3>4 DEF EndsIn
  <2>4. CASE k # 0
    <3>1. k \in 1 .. Len(r) /\ k + 1 # 0
      BY <1>1, <2>4
    <3>2. Live(q, w, k + 1)
      BY <1>1, <2>1, <2>4, <3>1 DEF Live
    <3>3. QED BY <2>2, <3>2
  <2>5. CASE k = 0 /\ ~(q[1].kind = "silence" /\ w)
    <3>1. Live(q, w, k + 1)
      BY <2>1, <2>5 DEF Live
    <3>2. QED BY <2>2, <3>1
  <2>6. QED BY <2>3, <2>4, <2>5
<1>3. Quiet(r, v)
  <2>1. ASSUME NEW i \in 1 .. Len(r), r[i].kind = "silence" PROVE Over(r, v, i)
    <3>1. i + 1 \in 1 .. Len(q) /\ q[i + 1].kind = "silence" /\ i \in 1 .. Len(r) + 1
      BY <1>1, <2>1
    <3>2. Over(q, w, i + 1)
      BY <3>1 DEF Quiet
    <3>3. QED BY <1>2, <3>1, <3>2
  <2>2. QED BY <2>1 DEF Quiet
<1>4. ASSUME Over(q, w, Len(q) + 1) PROVE Over(r, v, Len(r) + 1)
  <2>1. Len(r) + 1 \in 1 .. Len(r) + 1
    BY <1>1
  <2>2. QED BY <1>1, <1>2, <1>4, <2>1
<1>5. ASSUME q[1].kind = "silence" PROVE ~w
  <2>1. Over(q, w, 1)
    BY <1>1, <1>5 DEF Quiet
  <2>2. QED BY <2>1 DEF Over, Live, EndsIn
<1>6. QED BY <1>3, <1>4, <1>5

(* A channel that falls silent, and one that goes on after a connection.   *)
LEMMA SilencePush ==
  ASSUME NEW q, NEW b, NEW r, Pushed(q, b, r), NEW w \in BOOLEAN, b.kind = "silence"
  PROVE  FallsSilent(r, w)
<1>1. Len(q) \in Nat /\ Len(r) = Len(q) + 1 /\ r[Len(r)].kind = "silence"
  BY DEF Pushed
<1>2. ASSUME NEW k \in 0 .. Len(r), Live(r, w, k)
      PROVE  \E j \in k + 1 .. Len(r) : r[j].kind = "silence"
  <2>1. k # Len(r)
    BY <1>1, <1>2 DEF Live
  <2>2. Len(r) \in k + 1 .. Len(r)
    BY <1>1, <2>1
  <2>3. QED BY <1>1, <2>2
<1>3. QED BY <1>2 DEF FallsSilent

LEMMA SilencePop ==
  ASSUME NEW q, NEW r, Popped(q, r), NEW w \in BOOLEAN, NEW v \in BOOLEAN, FallsSilent(q, w), Quiet(q, w),
         v => q[1].kind = "audio" \/ (q[1].kind = "silence" /\ w)
  PROVE  FallsSilent(r, v)
<1>1. /\ Len(r) \in Nat /\ Len(q) = Len(r) + 1 /\ \A j \in 1 .. Len(r) : r[j] = q[j + 1]
  BY DEF Popped
<1>2. q[1].kind = "silence" => ~w
  BY QuietPop
<1>3. ASSUME NEW k \in 0 .. Len(r), Live(r, v, k)
      PROVE  \E j \in k + 1 .. Len(r) : r[j].kind = "silence"
  <2>1. Live(q, w, k + 1)
    <3>1. CASE k = 0
      BY <1>2, <1>3, <3>1 DEF Live
    <3>2. CASE k # 0
      <4>1. k \in 1 .. Len(r) /\ k + 1 # 0
        BY <1>1, <3>2
      <4>2. QED BY <1>1, <1>3, <3>2, <4>1 DEF Live
    <3>3. QED BY <3>1, <3>2
  <2>2. PICK j \in k + 1 + 1 .. Len(q) : q[j].kind = "silence"
    BY <1>1, <2>1 DEF FallsSilent
  <2>3. j - 1 \in k + 1 .. Len(r) /\ j - 1 \in 1 .. Len(r) /\ j - 1 + 1 = j
    BY <1>1
  <2>4. r[j - 1].kind = "silence"
    BY <1>1, <2>2, <2>3
  <2>5. QED BY <2>3, <2>4
<1>4. QED BY <1>3 DEF FallsSilent

LEMMA SilentIsOver ==
  ASSUME NEW q \in Seq(Blocks), NEW w \in BOOLEAN, FallsSilent(q, w), Quiet(q, w)
  PROVE  Over(q, w, Len(q) + 1)
<1>1. Len(q) \in Nat
  OBVIOUS
<1>2. ASSUME NEW k \in 0 .. Len(q), Live(q, w, k) PROVE EndsIn(q, k, Len(q) + 1)
  <2>1. PICK j \in k + 1 .. Len(q) : q[j].kind = "silence"
    BY <1>2 DEF FallsSilent
  <2>2. j \in 1 .. Len(q) /\ k \in 0 .. j - 1
    BY <1>1
  <2>3. PICK e \in k + 1 .. j - 1 : q[e].kind = "end"
    BY <1>2, <2>1, <2>2 DEF Quiet, Over, EndsIn
  <2>4. e \in k + 1 .. Len(q) + 1 - 1
    BY <1>1
  <2>5. QED BY <2>3, <2>4 DEF EndsIn
<1>3. QED BY <1>1, <1>2 DEF Over

LEMMA EndsFirstPush ==
  ASSUME NEW q, NEW b, NEW r, Pushed(q, b, r), NEW p \in Nat, NEW p2 \in Nat, EndsFirst(q, p),
         b.kind = "end" \/ (b.kind = "silence" /\ EndsIn(q, 0, Len(q) + 1)) \/ p # 0
  PROVE  EndsFirst(r, p2)
<1>1. /\ Len(q) \in Nat /\ Len(r) = Len(q) + 1 /\ \A i \in 1 .. Len(q) : r[i] = q[i]
      /\ r[Len(q) + 1] = b /\ 0 \in Nat
  BY DEF Pushed
<1>2. \A i \in 1 .. Len(q) + 1 : EndsIn(r, 0, i) <=> EndsIn(q, 0, i)
  <2>1. \A k \in Nat, i \in 1 .. Len(q) + 1 : EndsIn(r, k, i) <=> EndsIn(q, k, i)
    BY FrontStays
  <2>2. QED BY <1>1, <2>1
<1>3. p # 0 \/ b.kind = "silence" => EndsIn(r, 0, Len(q) + 1) \/ b.kind = "end"
  <2>1. Len(q) + 1 \in 1 .. Len(q) + 1
    BY <1>1
  <2>2. QED BY <1>2, <2>1 DEF EndsFirst
<1>4. ASSUME NEW i \in 1 .. Len(r), r[i].kind = "audio" PROVE EndsIn(r, 0, i)
  <2>1. CASE i \in 1 .. Len(q)
    BY <1>1, <1>2, <1>4, <2>1 DEF EndsFirst
  <2>2. CASE i = Len(q) + 1
    BY <1>1, <1>3, <1>4, <2>2
  <2>3. QED BY <1>1, <2>1, <2>2
<1>5. EndsIn(r, 0, Len(r) + 1)
  <2>1. CASE b.kind = "end"
    <3>1. Len(r) \in 0 + 1 .. Len(r) + 1 - 1
      BY <1>1
    <3>2. QED BY <1>1, <2>1, <3>1 DEF EndsIn
  <2>2. CASE b.kind # "end"
    <3>1. PICK j \in 0 + 1 .. Len(q) + 1 - 1 : r[j].kind = "end"
      BY <1>3, <2>2 DEF EndsIn
    <3>2. j \in 0 + 1 .. Len(r) + 1 - 1
      BY <1>1
    <3>3. QED BY <3>1, <3>2 DEF EndsIn
  <2>3. QED BY <2>1, <2>2
<1>6. QED BY <1>4, <1>5 DEF EndsFirst

(* The intervals of the audio between two ends.                            *)
LEMMA OneIntervalPush ==
  ASSUME NEW q, NEW b, NEW r, Pushed(q, b, r), NEW w \in BOOLEAN, NEW tag, NEW loop, NEW loop2,
         OneInterval(q, w, tag, loop),
         b.kind \in {"audio", "end", "silence"},
         b.kind = "end" \/ loop2 = loop,
         b.kind = "audio" => b.at = loop
  PROVE  OneInterval(r, w, tag, loop2)
<1>1. /\ Len(q) \in Nat /\ Len(r) = Len(q) + 1 /\ \A i \in 1 .. Len(q) : r[i] = q[i]
      /\ r[Len(q) + 1] = b
  BY DEF Pushed
<1>2. /\ \A k \in Nat, i \in 1 .. Len(q) + 1 : EndsIn(r, k, i) <=> EndsIn(q, k, i)
      /\ \A k \in 0 .. Len(q) : Live(r, w, k) <=> Live(q, w, k)
  BY FrontStays
<1>3. ASSUME NEW k \in 0 .. Len(q), Live(r, w, k)
      PROVE  /\ At(r, tag, k) = At(q, tag, k)
             /\ \A i \in k + 1 .. Len(q) :
                  r[i].kind = "audio" /\ ~EndsIn(r, k, i) => r[i].at = At(r, tag, k)
             /\ ~EndsIn(r, k, Len(q) + 1) => At(r, tag, k) = loop
  <2>1. At(r, tag, k) = At(q, tag, k)
    BY <1>1 DEF At
  <2>2. Live(q, w, k)
    BY <1>2, <1>3
  <2>3. ASSUME NEW i \in k + 1 .. Len(q), r[i].kind = "audio", ~EndsIn(r, k, i)
        PROVE  r[i].at = At(r, tag, k)
    <3>1. i \in 1 .. Len(q) /\ i \in 1 .. Len(q) + 1 /\ k \in Nat
      BY <1>1
    <3>2. q[i].kind = "audio" /\ ~EndsIn(q, k, i) /\ r[i] = q[i]
      BY <1>1, <1>2, <2>3, <3>1
    <3>3. QED BY <2>1, <2>2, <3>2 DEF OneInterval
  <2>4. ~EndsIn(r, k, Len(q) + 1) => At(r, tag, k) = loop
    <3>1. k \in Nat /\ Len(q) + 1 \in 1 .. Len(q) + 1
      BY <1>1
    <3>2. QED BY <1>2, <2>1, <2>2, <3>1 DEF OneInterval
  <2>5. QED BY <2>1, <2>3, <2>4
<1>4. ASSUME NEW k \in 0 .. Len(q), Live(r, w, k), ~EndsIn(r, k, Len(r) + 1)
      PROVE  At(r, tag, k) = loop2
  <2>1. ~EndsIn(r, k, Len(q) + 1) /\ b.kind # "end"
    <3>1. k + 1 .. Len(q) + 1 - 1 \subseteq k + 1 .. Len(r) + 1 - 1 /\ Len(q) + 1 \in k + 1 .. Len(r) + 1 - 1
      BY <1>1
    <3>2. QED BY <1>1, <1>4, <3>1 DEF EndsIn
  <2>2. QED BY <1>3, <1>4, <2>1
<1>5. ASSUME NEW k \in 0 .. Len(r), Live(r, w, k)
      PROVE  /\ \A i \in k + 1 .. Len(r) :
                  r[i].kind = "audio" /\ ~EndsIn(r, k, i) => r[i].at = At(r, tag, k)
             /\ ~EndsIn(r, k, Len(r) + 1) => At(r, tag, k) = loop2
  <2>1. CASE k \in 0 .. Len(q)
    <3>1. ASSUME NEW i \in k + 1 .. Len(r), r[i].kind = "audio", ~EndsIn(r, k, i)
          PROVE  r[i].at = At(r, tag, k)
      <4>1. CASE i \in k + 1 .. Len(q)
        BY <1>3, <1>5, <2>1, <3>1, <4>1
      <4>2. CASE i = Len(q) + 1
        BY <1>1, <1>3, <1>5, <2>1, <3>1, <4>2
      <4>3. QED BY <1>1, <2>1, <4>1, <4>2
    <3>2. QED BY <1>4, <1>5, <2>1, <3>1
  <2>2. CASE k = Len(q) + 1
    <3>1. k # 0 /\ k \notin 0 .. Len(q) /\ k + 1 .. Len(r) = {}
      BY <1>1, <2>2
    <3>2. b.kind = "audio" /\ b.at = loop /\ loop2 = loop
      BY <1>1, <1>5, <2>2, <3>1 DEF Live
    <3>3. At(r, tag, k) = loop2
      BY <1>1, <2>2, <3>1, <3>2 DEF At
    <3>4. QED BY <3>1, <3>3
  <2>3. QED BY <1>1, <2>1, <2>2
<1>6. QED BY <1>5 DEF OneInterval

LEMMA OneIntervalOver ==
  ASSUME NEW q \in Seq(Blocks), NEW w \in BOOLEAN, NEW tag, NEW loop, NEW loop2,
         OneInterval(q, w, tag, loop), Over(q, w, Len(q) + 1)
  PROVE  OneInterval(q, w, tag, loop2)
<1>1. Len(q) \in Nat
  OBVIOUS
<1>2. \A k \in 0 .. Len(q) : Live(q, w, k) => EndsIn(q, k, Len(q) + 1)
  BY <1>1 DEF Over
<1>3. QED BY <1>2 DEF OneInterval

LEMMA OneIntervalPop ==
  ASSUME NEW q, NEW r, Popped(q, r), NEW w \in BOOLEAN, NEW v \in BOOLEAN, NEW tag, NEW tag2, NEW loop,
         OneInterval(q, w, tag, loop), v => q[1].kind = "audio" /\ tag2 = q[1].at
  PROVE  /\ OneInterval(r, v, tag2, loop)
         /\ w /\ q[1].kind = "audio" => q[1].at = tag
<1>1. /\ Len(r) \in Nat /\ Len(q) = Len(r) + 1 /\ \A j \in 1 .. Len(r) : r[j] = q[j + 1]
  BY DEF Popped
<1>2. ASSUME NEW k \in 0 .. Len(r), Live(r, v, k)
      PROVE  k + 1 \in 0 .. Len(q) /\ Live(q, w, k + 1) /\ At(r, tag2, k) = At(q, tag, k + 1) /\ k \in Nat
  <2>1. CASE k = 0
    BY <1>1, <1>2, <2>1 DEF Live, At
  <2>2. CASE k # 0
    <3>1. k \in 1 .. Len(r) /\ k + 1 # 0 /\ k + 1 \in 0 .. Len(q)
      BY <1>1, <2>2
    <3>2. r[k] = q[k + 1]
      BY <1>1, <3>1
    <3>3. QED BY <1>2, <2>2, <3>1, <3>2 DEF Live, At
  <2>3. QED BY <2>1, <2>2
<1>3. ASSUME NEW k \in 0 .. Len(r), Live(r, v, k), NEW i \in k + 1 .. Len(r),
             r[i].kind = "audio", ~EndsIn(r, k, i)
      PROVE  r[i].at = At(r, tag2, k)
  <2>1. /\ k + 1 \in 0 .. Len(q) /\ Live(q, w, k + 1) /\ At(r, tag2, k) = At(q, tag, k + 1) /\ k \in Nat
    BY <1>2, <1>3
  <2>2. i \in 1 .. Len(r) /\ i \in Nat /\ i <= Len(r) + 1 /\ i + 1 \in k + 1 + 1 .. Len(q)
    BY <1>1
  <2>3. ~EndsIn(q, k + 1, i + 1) /\ r[i] = q[i + 1]
    BY <1>1, <1>3, <2>1, <2>2, EndsInPop
  <2>4. QED BY <1>3, <2>1, <2>2, <2>3 DEF OneInterval
<1>4. ASSUME NEW k \in 0 .. Len(r), Live(r, v, k), ~EndsIn(r, k, Len(r) + 1)
      PROVE  At(r, tag2, k) = loop
  <2>1. /\ k + 1 \in 0 .. Len(q) /\ Live(q, w, k + 1) /\ At(r, tag2, k) = At(q, tag, k + 1) /\ k \in Nat
    BY <1>2, <1>4
  <2>2. Len(r) + 1 \in Nat /\ Len(r) + 1 <= Len(r) + 1 /\ Len(r) + 1 + 1 = Len(q) + 1
    BY <1>1
  <2>3. ~EndsIn(q, k + 1, Len(r) + 1 + 1)
    BY <1>4, <2>1, <2>2, EndsInPop
  <2>4. QED BY <2>1, <2>2, <2>3 DEF OneInterval
<1>5. ASSUME w, q[1].kind = "audio" PROVE q[1].at = tag
  <2>1. 0 \in 0 .. Len(q) /\ 1 \in 0 + 1 .. Len(q)
    BY <1>1
  <2>2. Live(q, w, 0) /\ ~EndsIn(q, 0, 1) /\ At(q, tag, 0) = tag
    BY <1>5 DEF Live, EndsIn, At
  <2>3. QED BY <1>5, <2>1, <2>2 DEF OneInterval
<1>6. QED BY <1>3, <1>4, <1>5 DEF OneInterval

-----------------------------------------------------------------------------
(* The marks of the audio thread.                                          *)
LEMMA Marking ==
  ASSUME NEW q, NEW m, NEW r, Joined(q, m, r), NEW w \in BOOLEAN, Quiet(q, w),
         \/ Len(m) = 0
         \/ Len(m) = 1 /\ m[1] = END
         \/ Len(m) = 1 /\ m[1] = SILENCE /\ Over(q, w, Len(q) + 1)
         \/ Len(m) = 2 /\ m[1] = END /\ m[2] = SILENCE
  PROVE  /\ r \in Seq(Blocks) /\ Quiet(r, w)
         /\ Len(m) # 0 \/ Over(q, w, Len(q) + 1) => Over(r, w, Len(r) + 1)
         /\ Cardinality(AudioIn(r)) = Cardinality(AudioIn(q))
         /\ \A i \in 1 .. Len(r) : r[i].kind = "audio" => i \in 1 .. Len(q) /\ r[i] = q[i]
<1>9. q \in Seq(Blocks) /\ m \in Seq(Blocks) /\ r = q \o m
  BY DEF Joined
<1>0. END.kind = "end" /\ SILENCE.kind = "silence" /\ END \in Blocks /\ SILENCE \in Blocks
  BY KindsOfBlocks
<1>1. ASSUME NEW a, NEW t, NEW b, Pushed(a, b, t), b \in {END, SILENCE}
      PROVE  /\ Cardinality(AudioIn(t)) = Cardinality(AudioIn(a))
             /\ \A i \in 1 .. Len(t) : t[i].kind = "audio" => i \in 1 .. Len(a) /\ t[i] = a[i]
  <2>1. b.kind # "audio"
    BY <1>0, <1>1
  <2>2. Cardinality(AudioIn(a)) \in Nat
    BY <1>1, AudioInIs DEF Pushed
  <2>3. Cardinality(AudioIn(t)) = Cardinality(AudioIn(a))
    BY <1>1, <2>1, <2>2, CountPush
  <2>4. /\ Len(a) \in Nat /\ Len(t) = Len(a) + 1 /\ t[Len(a) + 1] = b
        /\ \A i \in 1 .. Len(a) : t[i] = a[i]
    BY <1>1 DEF Pushed
  <2>5. QED BY <2>1, <2>3, <2>4
<1>2. CASE Len(m) = 0
  <2>1. m = <<>>
    BY <1>2, <1>9
  <2>2. r = q
    BY <1>9, <2>1, ConcatEmptySeq
  <2>3. q \in Seq(Blocks)
    BY <1>9
  <2>4. QED BY <1>2, <2>2, <2>3
<1>3. CASE Len(m) = 1 /\ m[1] \in {END, SILENCE} /\ (m[1] = SILENCE => Over(q, w, Len(q) + 1))
  <2>1. Pushed(q, m[1], r)
    BY <1>3, <1>9, MarkOne
  <2>2. /\ Quiet(r, w)
        /\ m[1].kind = "end" => Over(r, w, Len(r) + 1)
        /\ m[1].kind = "silence" => Over(r, w, Len(r) + 1)
    <3>1. m[1].kind = "silence" => Over(q, w, Len(q) + 1)
      BY <1>0, <1>3
    <3> DEFINE b == m[1]
    <3>2. Pushed(q, b, r) /\ (b.kind = "silence" => Over(q, w, Len(q) + 1))
      BY <2>1, <3>1
    <3> HIDE DEF b
    <3>3. /\ Quiet(r, w)
          /\ b.kind = "end" => Over(r, w, Len(r) + 1)
          /\ b.kind = "silence" => Over(r, w, Len(r) + 1)
      BY <3>2, QuietPush
    <3>4. QED BY <3>3 DEF b
  <2>3. r \in Seq(Blocks)
    BY <2>1 DEF Pushed
  <2>4. m[1].kind \in {"end", "silence"}
    BY <1>0, <1>3
  <2>5. Over(r, w, Len(r) + 1)
    BY <2>2, <2>4
  <2>6. /\ Cardinality(AudioIn(r)) = Cardinality(AudioIn(q))
        /\ \A i \in 1 .. Len(r) : r[i].kind = "audio" => i \in 1 .. Len(q) /\ r[i] = q[i]
    BY <1>1, <1>3, <2>1
  <2>7. QED BY <2>2, <2>3, <2>5, <2>6
<1>4. CASE Len(m) = 2 /\ m[1] = END /\ m[2] = SILENCE
  <2>1. PICK t : Pushed(q, m[1], t) /\ Pushed(t, m[2], r)
    BY <1>4, <1>9, MarkTwo
  <2>2. Pushed(q, END, t) /\ Pushed(t, SILENCE, r)
    BY <1>4, <2>1
  <2>3. Quiet(t, w) /\ Over(t, w, Len(t) + 1)
    BY <1>0, <2>2, QuietPush
  <2>4. Quiet(r, w) /\ Over(r, w, Len(r) + 1)
    <3>1. SILENCE.kind = "silence"
      BY <1>0
    <3>2. Pushed(t, SILENCE, r)
      BY <2>2
    <3>3. Quiet(t, w)
      BY <2>3
    <3>4. Over(t, w, Len(t) + 1)
      BY <2>3
    <3>5. QED BY <3>1, <3>2, <3>3, <3>4, QuietPush
  <2>5. r \in Seq(Blocks)
    BY <2>2 DEF Pushed
  <2>6. /\ Cardinality(AudioIn(t)) = Cardinality(AudioIn(q))
        /\ \A i \in 1 .. Len(t) : t[i].kind = "audio" => i \in 1 .. Len(q) /\ t[i] = q[i]
    BY <1>1, <2>2
  <2>7. /\ Cardinality(AudioIn(r)) = Cardinality(AudioIn(t))
        /\ \A i \in 1 .. Len(r) : r[i].kind = "audio" => i \in 1 .. Len(t) /\ r[i] = t[i]
    BY <1>1, <2>2
  <2>8. QED BY <2>4, <2>5, <2>6, <2>7
<1>5. END # SILENCE
  BY <1>0
<1>6. QED BY <1>2, <1>3, <1>4, <1>5, Zenon

LEMMA ChannelParts ==
  ASSUME NEW c, NEW q, NEW u, NEW s, NEW p, NEW loop, NEW ok, ChannelInv(c, q, u, s, p, loop, ok)
  PROVE  /\ ChannelTypeOK(c, q, u, s) /\ Encoding(u, s) /\ Counted(q, u, s)
         /\ Quiet(q, Going(u, s)) /\ (~c.bcast_active => Over(q, Going(u, s), Len(q) + 1))
         /\ s.steady => Steady(c, q, u, s)
         /\ s.steady /\ c.flags = {} => OnTheGrid(c, q, u, s, p, loop, ok)
         /\ c \in Channels /\ q \in Seq(Blocks) /\ u \in Encoders /\ s \in Servers
         /\ Len(q) \in Nat /\ Going(u, s) \in BOOLEAN /\ (~u.need_header) \in BOOLEAN
         /\ (p = 0 => q = <<>>)
<1>1. /\ ChannelTypeOK(c, q, u, s) /\ Encoding(u, s) /\ Counted(q, u, s)
      /\ Quiet(q, Going(u, s)) /\ (~c.bcast_active => Over(q, Going(u, s), Len(q) + 1))
      /\ s.steady => Steady(c, q, u, s)
      /\ s.steady /\ c.flags = {} => OnTheGrid(c, q, u, s, p, loop, ok)
      /\ (p = 0 => q = <<>>)
  BY Zenon DEF ChannelInv
<1>2. c \in Channels /\ q \in Seq(Blocks) /\ u \in Encoders /\ s \in Servers
  BY <1>1, Zenon DEF ChannelTypeOK
<1>3. Len(q) \in Nat
  BY <1>2
<1>4. Going(u, s) \in BOOLEAN /\ (~u.need_header) \in BOOLEAN
  <2>1. Going(u, s) \in BOOLEAN
    BY Zenon DEF Going
  <2>2. (~u.need_header) \in BOOLEAN
    BY <1>2 DEF Encoders
  <2>3. QED BY <2>1, <2>2
<1>5. QED BY <1>1, <1>2, <1>3, <1>4, Zenon

(* An interval boundary.                                                   *)
LEMMA CutIs ==
  ASSUME NEW c \in Channels
  PROVE  /\ Cut(c) \in Seq(Blocks)
         /\ ~c.bcast_active => Len(Cut(c)) = 0
         /\ c.bcast_active /\ c.broadcasting => Len(Cut(c)) = 1 /\ Cut(c)[1] = END
         /\ c.bcast_active /\ ~c.broadcasting =>
              Len(Cut(c)) = 2 /\ Cut(c)[1] = END /\ Cut(c)[2] = SILENCE
<1>1. END \in Blocks /\ SILENCE \in Blocks
  BY KindsOfBlocks
<1> HIDE DEF END, SILENCE
<1>2. QED BY <1>1 DEF Cut

LEMMA CutMarks ==
  ASSUME NEW c \in Channels, NEW q, NEW w \in BOOLEAN, Quiet(q, w), NEW r, Joined(q, Cut(c), r)
  PROVE  /\ r \in Seq(Blocks) /\ Quiet(r, w)
         /\ c.bcast_active \/ Over(q, w, Len(q) + 1) => Over(r, w, Len(r) + 1)
         /\ Cardinality(AudioIn(r)) = Cardinality(AudioIn(q))
         /\ \A i \in 1 .. Len(r) : r[i].kind = "audio" => i \in 1 .. Len(q) /\ r[i] = q[i]
<1> DEFINE m == Cut(c)
<1>1. /\ m \in Seq(Blocks)
      /\ ~c.bcast_active => Len(m) = 0
      /\ c.bcast_active /\ c.broadcasting => Len(m) = 1 /\ m[1] = END
      /\ c.bcast_active /\ ~c.broadcasting => Len(m) = 2 /\ m[1] = END /\ m[2] = SILENCE
  BY CutIs
<1>2. c.bcast_active \in BOOLEAN /\ c.broadcasting \in BOOLEAN
  BY DEF Channels
<1> HIDE DEF m
<1>3. Joined(q, m, r)
  BY DEF m
<1>4. /\ r \in Seq(Blocks) /\ Quiet(r, w)
      /\ Len(m) # 0 \/ Over(q, w, Len(q) + 1) => Over(r, w, Len(r) + 1)
      /\ Cardinality(AudioIn(r)) = Cardinality(AudioIn(q))
      /\ \A i \in 1 .. Len(r) : r[i].kind = "audio" => i \in 1 .. Len(q) /\ r[i] = q[i]
  <2>1. \/ Len(m) = 0
        \/ Len(m) = 1 /\ m[1] = END
        \/ Len(m) = 1 /\ m[1] = SILENCE /\ Over(q, w, Len(q) + 1)
        \/ Len(m) = 2 /\ m[1] = END /\ m[2] = SILENCE
    BY <1>1, <1>2
  <2>2. QED BY <1>3, <2>1, Marking
<1>5. c.bcast_active => Len(m) # 0
  BY <1>1, <1>2
<1>6. QED BY <1>4, <1>5

LEMMA BoundaryHolds ==
  ASSUME NEW c, NEW q, NEW u, NEW s, NEW p \in Nat, NEW loop \in Nat,
         ChannelInv(c, q, u, s, p, loop, TRUE),
         NEW d, d = (IF Interval(c) THEN [c EXCEPT !.bcast_active = c.broadcasting] ELSE c),
         NEW r, r = (IF Interval(c) THEN AddMark(q, Cut(c)) ELSE q)
  PROVE  ChannelInv(d, r, u, s, 1, loop + 1, TRUE)
<1>1. /\ ChannelTypeOK(c, q, u, s) /\ Encoding(u, s) /\ Counted(q, u, s)
      /\ Quiet(q, Going(u, s)) /\ (~c.bcast_active => Over(q, Going(u, s), Len(q) + 1))
      /\ s.steady => Steady(c, q, u, s)
      /\ s.steady /\ c.flags = {} => OnTheGrid(c, q, u, s, p, loop, TRUE)
      /\ c \in Channels /\ q \in Seq(Blocks) /\ Len(q) \in Nat
      /\ Going(u, s) \in BOOLEAN /\ (~u.need_header) \in BOOLEAN
  BY ChannelParts, Zenon
<1>2. CASE ~Interval(c)
  <2>1. d = c /\ r = q /\ c.flags # {} /\ 1 # 0
    BY <1>2 DEF Interval
  <2>2. QED BY <1>1, <2>1, Zenon DEF ChannelInv
<1>3. CASE Interval(c)
  <2>1. /\ d \in Channels /\ d.flags = {} /\ c.flags = {}
        /\ d.bcast_active = c.broadcasting /\ r = q \o Cut(c)
    BY <1>1, <1>3 DEF Interval, Channels, AddMark
  <2>2. /\ Cut(c) \in Seq(Blocks)
        /\ ~c.bcast_active => Len(Cut(c)) = 0
        /\ c.bcast_active /\ c.broadcasting => Len(Cut(c)) = 1 /\ Cut(c)[1] = END
        /\ c.bcast_active /\ ~c.broadcasting =>
             Len(Cut(c)) = 2 /\ Cut(c)[1] = END /\ Cut(c)[2] = SILENCE
    BY <1>1, CutIs
  <2>10. Joined(q, Cut(c), r)
    BY <1>1, <2>1, <2>2 DEF Joined
  <2>3. ASSUME NEW w \in BOOLEAN, Quiet(q, w)
        PROVE  /\ r \in Seq(Blocks) /\ Quiet(r, w)
               /\ c.bcast_active \/ Over(q, w, Len(q) + 1) => Over(r, w, Len(r) + 1)
               /\ Cardinality(AudioIn(r)) = Cardinality(AudioIn(q))
               /\ \A i \in 1 .. Len(r) : r[i].kind = "audio" => i \in 1 .. Len(q) /\ r[i] = q[i]
    BY <1>1, <2>3, <2>10, CutMarks
  <2>4. Going(u, s) \in BOOLEAN /\ (~u.need_header) \in BOOLEAN
    BY <1>1, Zenon
  <2>5. /\ ChannelTypeOK(d, r, u, s) /\ Counted(r, u, s)
        /\ Quiet(r, Going(u, s)) /\ Over(r, Going(u, s), Len(r) + 1)
        /\ \A i \in 1 .. Len(r) : r[i].kind = "audio" => i \in 1 .. Len(q) /\ r[i] = q[i]
    BY <1>1, <2>1, <2>3, <2>4 DEF ChannelTypeOK, Counted
  <2>6. ASSUME s.steady PROVE Steady(d, r, u, s)
    BY <1>1, <2>1, <2>5, <2>6 DEF Steady
  <2>7. ASSUME s.steady PROVE OnTheGrid(d, r, u, s, 1, loop + 1, TRUE)
    <3> DEFINE nh == u.need_header
    <3>1. /\ s.stray = 0 /\ Quiet(q, ~nh)
          /\ ~c.bcast_active => FallsSilent(q, ~nh)
          /\ ~nh /\ ~Going(u, s) => EndsFirst(q, p) /\ u.pending = <<>>
          /\ OneInterval(q, Going(u, s), u.guid.tag, loop)
      BY <1>1, <2>1, <2>7 DEF OnTheGrid
    <3>2. Quiet(r, ~nh)
      BY <2>3, <2>4, <3>1
    <3>3. CASE ~c.bcast_active
      <4>1. r = q
        <5>1. Cut(c) = <<>>
          BY <3>3 DEF Cut
        <5>2. QED BY <1>1, <2>1, <5>1, ConcatEmptySeq
      <4>2. OneInterval(q, Going(u, s), u.guid.tag, loop + 1)
        BY <1>1, <2>4, <3>1, <3>3, OneIntervalOver
      <4>3. ~nh /\ ~Going(u, s) => EndsFirst(q, 1)
        <5>1. ASSUME ~nh, ~Going(u, s) PROVE EndsFirst(q, 1)
          <6>1. Over(q, ~nh, Len(q) + 1)
            BY <1>1, <2>4, <3>1, <3>3, SilentIsOver
          <6>2. EndsIn(q, 0, Len(q) + 1)
            BY <1>1, <5>1, <6>1 DEF Over, Live
          <6>3. QED BY <3>1, <5>1, <6>2 DEF EndsFirst
        <5>2. QED BY <5>1
      <4>4. QED BY <3>1, <3>2, <3>3, <4>1, <4>2, <4>3 DEF OnTheGrid
    <3>4. CASE c.bcast_active /\ c.broadcasting
      <4>1. Pushed(q, END, r)
        BY <1>1, <2>1, <2>2, <3>4, MarkOne
      <4>2. OneInterval(r, Going(u, s), u.guid.tag, loop + 1)
        BY <2>4, <3>1, <4>1, OneIntervalPush, KindsOfBlocks
      <4>3. ~nh /\ ~Going(u, s) => EndsFirst(r, 1)
        BY <3>1, <4>1, EndsFirstPush, KindsOfBlocks
      <4>4. QED BY <2>1, <3>1, <3>2, <3>4, <4>2, <4>3 DEF OnTheGrid
    <3>5. CASE c.bcast_active /\ ~c.broadcasting
      <4>1. PICK t : Pushed(q, END, t) /\ Pushed(t, SILENCE, r)
        BY <1>1, <2>1, <2>2, <3>5, MarkTwo
      <4>2. OneInterval(t, Going(u, s), u.guid.tag, loop + 1)
        BY <2>4, <3>1, <4>1, OneIntervalPush, KindsOfBlocks
      <4>3. OneInterval(r, Going(u, s), u.guid.tag, loop + 1)
        BY <2>4, <4>1, <4>2, OneIntervalPush, KindsOfBlocks
      <4>4. ~nh /\ ~Going(u, s) => EndsFirst(t, 1)
        BY <3>1, <4>1, EndsFirstPush, KindsOfBlocks
      <4>5. ~nh /\ ~Going(u, s) => EndsFirst(r, 1)
        BY <4>1, <4>4, EndsFirstPush, KindsOfBlocks
      <4>6. FallsSilent(r, ~nh)
        BY <2>4, <4>1, SilencePush, KindsOfBlocks
      <4>7. QED BY <3>1, <3>2, <4>3, <4>5, <4>6 DEF OnTheGrid
    <3>6. QED BY <1>1, <3>3, <3>4, <3>5
  <2>8. 1 # 0
    OBVIOUS
  <2>9. QED BY <1>1, <2>1, <2>5, <2>6, <2>7, <2>8, Zenon DEF ChannelInv
<1>4. QED BY <1>2, <1>3

(* A block of every channel: a cut leaves the upload over, or is none.     *)
LEMMA PairIs ==
  ASSUME NEW S, NEW a \in Seq(S), NEW b \in Seq(S), Len(a) = 1, Len(b) = 1
  PROVE  a \o b \in Seq(S) /\ Len(a \o b) = 2 /\ (a \o b)[1] = a[1] /\ (a \o b)[2] = b[1]
<1>1. a \o b \in Seq(S) /\ Len(a \o b) = Len(a) + Len(b)
  BY ConcatProperties, Zenon
<1>2. \A i \in 1..(Len(a) + Len(b)) :
        (a \o b)[i] = IF i <= Len(a) THEN a[i] ELSE b[i - Len(a)]
  BY ConcatProperties, Zenon
<1>3. Len(a) + Len(b) = 2 /\ 1 \in 1..2 /\ 2 \in 1..2 /\ ~(2 <= 1) /\ 1 <= 1 /\ 2 - 1 = 1
  BY SMT
<1>4. (a \o b)[1] = IF 1 <= 1 THEN a[1] ELSE b[1 - 1]
  BY <1>2, <1>3, Zenon
<1>5. (a \o b)[2] = IF 2 <= 1 THEN a[2] ELSE b[2 - 1]
  BY <1>2, <1>3, Zenon
<1>6. QED BY <1>1, <1>3, <1>4, <1>5, Zenon

CutsOff(c, m, on) ==
  /\ m \in Seq(Blocks) /\ on \in BOOLEAN
  /\ \/ Len(m) = 0 /\ (on = c.bcast_active \/ ~c.bcast_active)
     \/ Len(m) = 1 /\ m[1] = END
     \/ Len(m) = 1 /\ m[1] = SILENCE /\ ~c.bcast_active
     \/ Len(m) = 2 /\ m[1] = END /\ m[2] = SILENCE
  /\ c.flags = {} => m = <<>> /\ Len(m) = 0 /\ on = c.bcast_active

LEMMA SampleMarks ==
  ASSUME NEW c \in Channels, NEW long \in BOOLEAN, NEW playing \in BOOLEAN, NEW seek \in BOOLEAN,
         NEW m, m = Marks(c, long, playing, seek), NEW on, on = Broadcasts(c, long, playing, seek)
  PROVE  CutsOff(c, m, on)
<1> USE DEF CutsOff
<1>1. END \in Blocks /\ SILENCE \in Blocks
  BY KindsOfBlocks
<1>2. c.bcast_active \in BOOLEAN /\ c.broadcasting \in BOOLEAN
  BY DEF Channels
<1>3. on \in BOOLEAN
  <2>1. LiveCut(c, long) \in BOOLEAN /\ SessionCut(c, long, playing, seek) \in BOOLEAN
    BY <1>2 DEF LiveCut, SessionCut
  <2>2. QED BY <1>2, <2>1 DEF Broadcasts
<1> DEFINE end == IF c.bcast_active THEN <<END>> ELSE <<>>
<1> HIDE DEF END, SILENCE
<1>4. /\ end \in Seq(Blocks)
      /\ c.bcast_active => Len(end) = 1 /\ end[1] = END
      /\ ~c.bcast_active => Len(end) = 0 /\ end = <<>>
  BY <1>1
<1>5. CASE "live" \in c.flags
  <2>1. c.flags # {} /\ m = IF LiveCut(c, long) THEN end ELSE <<>>
    BY <1>5 DEF Marks
  <2>2. CASE LiveCut(c, long)
    BY <1>2, <1>3, <1>4, <2>1, <2>2
  <2>3. CASE ~LiveCut(c, long)
    <3>1. on = c.bcast_active
      BY <1>5, <2>3 DEF Broadcasts
    <3>2. QED BY <1>3, <2>1, <2>3, <3>1
  <2>4. QED BY <2>2, <2>3
<1>6. CASE "live" \notin c.flags /\ "session" \in c.flags /\ SessionCut(c, long, playing, seek)
  <2>1. c.flags # {} /\ m = end \o (IF c.broadcasting /\ playing THEN <<SILENCE>> ELSE <<>>)
    BY <1>6 DEF Marks
  <2>2. CASE c.bcast_active
    <3>1. end = <<END>>
      BY <2>2
    <3> HIDE DEF end
    <3>2. <<SILENCE>> \in Seq(Blocks) /\ Len(<<SILENCE>>) = 1 /\ <<SILENCE>>[1] = SILENCE
      BY <1>1
    <3>3. CASE c.broadcasting /\ playing
      <4>1. m = end \o <<SILENCE>>
        BY <2>1, <3>3
      <4>2. /\ end \o <<SILENCE>> \in Seq(Blocks) /\ Len(end \o <<SILENCE>>) = 2
            /\ (end \o <<SILENCE>>)[1] = end[1] /\ (end \o <<SILENCE>>)[2] = <<SILENCE>>[1]
        <5> DEFINE z == <<SILENCE>>
        <5>1. end \in Seq(Blocks) /\ Len(end) = 1 /\ z \in Seq(Blocks) /\ Len(z) = 1
          BY <1>4, <2>2, <3>2
        <5> HIDE DEF z
        <5>2. end \o z \in Seq(Blocks) /\ Len(end \o z) = 2 /\ (end \o z)[1] = end[1] /\ (end \o z)[2] = z[1]
          BY <5>1, PairIs
        <5>3. QED BY <5>2 DEF z
      <4>3. (end \o <<SILENCE>>)[1] = END /\ (end \o <<SILENCE>>)[2] = SILENCE
        BY <1>4, <2>2, <3>2, <4>2
      <4>4. QED BY <1>3, <2>1, <4>1, <4>2, <4>3
    <3>4. CASE ~(c.broadcasting /\ playing)
      <4>1. m = end \o <<>>
        BY <2>1, <3>4
      <4>2. end \o <<>> = end
        BY <1>4, ConcatEmptySeq
      <4>3. QED BY <1>3, <1>4, <2>1, <2>2, <4>1, <4>2
    <3>5. QED BY <3>3, <3>4
  <2>3. CASE ~c.bcast_active
    <3>1. end = <<>>
      BY <2>3
    <3>2. m = IF c.broadcasting /\ playing THEN <<SILENCE>> ELSE <<>>
      BY <2>1, <3>1
    <3>3. m \in Seq(Blocks)
      BY <1>1, <3>2
    <3>4. (Len(m) = 1 /\ m[1] = SILENCE) \/ Len(m) = 0
      BY <3>2
    <3>5. QED BY <1>3, <2>1, <2>3, <3>3, <3>4
  <2>4. QED BY <2>2, <2>3
<1>7. CASE "live" \notin c.flags /\ ~("session" \in c.flags /\ SessionCut(c, long, playing, seek))
  <2>1. m = <<>>
    BY <1>7, Zenon DEF Marks
  <2>2. on = c.bcast_active
    BY <1>7 DEF Broadcasts
  <2>3. QED BY <1>3, <2>1, <2>2
<1>8. QED BY <1>5, <1>6, <1>7

Recorded(s, on, keep, t) ==
  t = IF ~on THEN s
      ELSE [s EXCEPT !.recorded = @ + 1, !.dropped = IF keep THEN @ ELSE @ + 1]
Kept(a, keep, b, r) == r = IF keep THEN Append(a, b) ELSE a

LEMMA RecordedIs ==
  ASSUME NEW s \in Servers, NEW on \in BOOLEAN, NEW keep \in BOOLEAN, NEW t, Recorded(s, on, keep, t)
  PROVE  /\ t \in Servers /\ t.steady = s.steady /\ t.stray = s.stray /\ t.holds = s.holds
         /\ t.guid = s.guid /\ t.open = s.open /\ t.unfinished = s.unfinished /\ t.got = s.got
         /\ t.recorded = s.recorded + (IF on THEN 1 ELSE 0)
         /\ t.dropped = s.dropped + (IF on /\ ~keep THEN 1 ELSE 0)
<1>1. s.recorded \in Nat /\ s.dropped \in Nat /\ s.recorded + 1 \in Nat /\ s.dropped + 1 \in Nat
  BY DEF Servers
<1>2. CASE ~on
  BY <1>1, <1>2 DEF Recorded
<1>3. CASE on
  <2> DEFINE x == s.recorded + 1
  <2> DEFINE y == IF keep THEN s.dropped ELSE s.dropped + 1
  <2>1. x \in Nat /\ y \in Nat /\ t = [s EXCEPT !.recorded = x, !.dropped = y]
    BY <1>1, <1>3 DEF Recorded
  <2> HIDE DEF x, y
  <2>2. /\ t \in Servers /\ t.steady = s.steady /\ t.stray = s.stray /\ t.holds = s.holds
        /\ t.guid = s.guid /\ t.open = s.open /\ t.unfinished = s.unfinished /\ t.got = s.got
        /\ t.recorded = x /\ t.dropped = y
    BY <2>1 DEF Servers
  <2>3. x = s.recorded + (IF on THEN 1 ELSE 0) /\ y = s.dropped + (IF on /\ ~keep THEN 1 ELSE 0)
    BY <1>1, <1>3 DEF x, y
  <2>4. QED BY <2>2, <2>3
<1>4. QED BY <1>2, <1>3

Sampled(c, q, u, s, p, loop, m, on, a, keep, b, r, d, t) ==
  /\ p \in Nat /\ loop \in Nat /\ p # 0
  /\ ChannelInv(c, q, u, s, p, loop, TRUE)
  /\ CutsOff(c, m, on) /\ Joined(q, m, a)
  /\ keep \in BOOLEAN
  /\ keep => on
  /\ b \in Blocks /\ b.kind = "audio" /\ b.at = loop /\ b.as = c.flags
  /\ Kept(a, keep, b, r) /\ Recorded(s, on, keep, t)
  /\ d \in Channels /\ d.flags = c.flags /\ d.bcast_active = on

LEMMA SamplesHold ==
  ASSUME NEW c, NEW q, NEW u, NEW s, NEW p, NEW loop, NEW m, NEW on, NEW a, NEW keep, NEW b,
         NEW r, NEW d, NEW t, Sampled(c, q, u, s, p, loop, m, on, a, keep, b, r, d, t)
  PROVE  ChannelInv(d, r, u, t, 2, loop, TRUE)
<1> SUFFICES ASSUME p \in Nat, loop \in Nat, ChannelInv(c, q, u, s, p, loop, TRUE), p # 0,
                    CutsOff(c, m, on), Joined(q, m, a),
                    keep \in BOOLEAN, keep => on, b \in Blocks,
                    b.kind = "audio", b.at = loop, b.as = c.flags,
                    Kept(a, keep, b, r), d \in Channels, d.flags = c.flags, d.bcast_active = on,
                    Recorded(s, on, keep, t)
             PROVE  ChannelInv(d, r, u, t, 2, loop, TRUE)
  BY DEF Sampled
<1>1. /\ ChannelTypeOK(c, q, u, s) /\ Encoding(u, s) /\ Counted(q, u, s)
      /\ Quiet(q, Going(u, s)) /\ (~c.bcast_active => Over(q, Going(u, s), Len(q) + 1))
      /\ s.steady => Steady(c, q, u, s)
      /\ s.steady /\ c.flags = {} => OnTheGrid(c, q, u, s, p, loop, TRUE)
      /\ c \in Channels /\ q \in Seq(Blocks) /\ u \in Encoders /\ s \in Servers /\ Len(q) \in Nat
      /\ Going(u, s) \in BOOLEAN /\ (~u.need_header) \in BOOLEAN
  BY ChannelParts, Zenon
<1>2. /\ m \in Seq(Blocks) /\ on \in BOOLEAN
      /\ \/ Len(m) = 0 /\ (on = c.bcast_active \/ ~c.bcast_active)
         \/ Len(m) = 1 /\ m[1] = END
         \/ Len(m) = 1 /\ m[1] = SILENCE /\ ~c.bcast_active
         \/ Len(m) = 2 /\ m[1] = END /\ m[2] = SILENCE
      /\ c.flags = {} => m = <<>> /\ Len(m) = 0 /\ on = c.bcast_active
  BY Zenon DEF CutsOff
<1>4. /\ a \in Seq(Blocks) /\ Quiet(a, Going(u, s))
      /\ ~on => Over(a, Going(u, s), Len(a) + 1)
      /\ Cardinality(AudioIn(a)) = Cardinality(AudioIn(q))
      /\ \A i \in 1 .. Len(a) : a[i].kind = "audio" => i \in 1 .. Len(q) /\ a[i] = q[i]
  <2>1. \/ Len(m) = 0
        \/ Len(m) = 1 /\ m[1] = END
        \/ Len(m) = 1 /\ m[1] = SILENCE /\ Over(q, Going(u, s), Len(q) + 1)
        \/ Len(m) = 2 /\ m[1] = END /\ m[2] = SILENCE
    BY <1>1, <1>2
  <2>2. /\ a \in Seq(Blocks) /\ Quiet(a, Going(u, s))
        /\ Len(m) # 0 \/ Over(q, Going(u, s), Len(q) + 1) => Over(a, Going(u, s), Len(a) + 1)
        /\ Cardinality(AudioIn(a)) = Cardinality(AudioIn(q))
        /\ \A i \in 1 .. Len(a) : a[i].kind = "audio" => i \in 1 .. Len(q) /\ a[i] = q[i]
    <3>1. Going(u, s) \in BOOLEAN /\ Quiet(q, Going(u, s))
      BY <1>1, Zenon
    <3>2. QED BY <2>1, <3>1, Marking
  <2>3. ~on => Len(m) # 0 \/ Over(q, Going(u, s), Len(q) + 1)
    BY <1>1, <1>2
  <2>4. QED BY <2>2, <2>3
<1>6. (keep => Pushed(a, b, r)) /\ (~keep => r = a)
  BY <1>4, PushIs DEF Kept
<1>7. /\ r \in Seq(Blocks) /\ Quiet(r, Going(u, s))
      /\ ~on => Over(r, Going(u, s), Len(r) + 1)
      /\ Cardinality(AudioIn(r)) = Cardinality(AudioIn(a)) + (IF keep THEN 1 ELSE 0)
      /\ \A i \in 1 .. Len(r) : r[i].kind = "audio" => r[i].as = c.flags \/ (i \in 1 .. Len(q) /\ r[i] = q[i])
  <2>1. CASE keep
    <3>1. Pushed(a, b, r) /\ b.kind = "audio" /\ on
      BY <1>6, <2>1
    <3>2. Quiet(r, Going(u, s))
      BY <1>1, <1>4, <3>1, QuietPush
    <3>3. Cardinality(AudioIn(r)) = Cardinality(AudioIn(a)) + 1
      BY <3>1, CountPush
    <3>4. /\ r \in Seq(Blocks) /\ Len(r) = Len(a) + 1 /\ r[Len(a) + 1] = b /\ Len(a) \in Nat
          /\ \A i \in 1 .. Len(a) : r[i] = a[i]
      BY <3>1 DEF Pushed
    <3>5. ASSUME NEW i \in 1 .. Len(r), r[i].kind = "audio"
          PROVE  r[i].as = c.flags \/ (i \in 1 .. Len(q) /\ r[i] = q[i])
      <4>1. CASE i \in 1 .. Len(a)
        BY <1>4, <3>4, <3>5, <4>1
      <4>2. CASE i = Len(a) + 1
        BY <3>4, <4>2
      <4>3. QED BY <3>4, <4>1, <4>2
    <3>6. QED BY <2>1, <3>1, <3>2, <3>3, <3>4, <3>5
  <2>2. CASE ~keep
    <3>1. r = a /\ Cardinality(AudioIn(a)) \in Nat
      BY <1>4, <1>6, <2>2, AudioInIs
    <3>2. QED BY <1>4, <2>2, <3>1
  <2>3. QED BY <2>1, <2>2
<1>8. /\ t \in Servers /\ t.steady = s.steady /\ t.stray = s.stray /\ t.holds = s.holds
      /\ t.guid = s.guid /\ t.open = s.open /\ t.unfinished = s.unfinished /\ t.got = s.got
      /\ t.recorded = s.recorded + (IF on THEN 1 ELSE 0)
      /\ t.dropped = s.dropped + (IF on /\ ~keep THEN 1 ELSE 0)
  BY <1>1, <1>2, RecordedIs
<1>9. Going(u, t) <=> Going(u, s)
  BY <1>8 DEF Going
<1>10. /\ ChannelTypeOK(d, r, u, t) /\ Quiet(r, Going(u, t))
       /\ ~d.bcast_active => Over(r, Going(u, t), Len(r) + 1)
  <2>1. Going(u, t) = Going(u, s)
    BY <1>9, Zenon DEF Going
  <2>2. QED BY <1>1, <1>7, <1>8, <2>1 DEF ChannelTypeOK
<1>11. Encoding(u, t)
  BY <1>1, <1>8, <1>9 DEF Encoding
<1>12. Counted(r, u, t)
  <2>1. /\ s.recorded = s.dropped + s.got + s.stray + Cardinality(AudioIn(q)) + Len(u.pending)
        /\ Cardinality(AudioIn(q)) \in Nat /\ Len(u.pending) \in Nat
        /\ s.dropped \in Nat /\ s.got \in Nat /\ s.stray \in Nat
    BY <1>1, AudioInIs DEF Counted, Servers, Encoders
  <2>2. Cardinality(AudioIn(r)) = Cardinality(AudioIn(q)) + (IF keep THEN 1 ELSE 0)
    BY <1>4, <1>7
  <2>5. t.recorded = s.dropped + (IF on /\ ~keep THEN 1 ELSE 0) + s.got + s.stray
                     + (Cardinality(AudioIn(q)) + (IF keep THEN 1 ELSE 0)) + Len(u.pending)
    <3> DEFINE more == IF on THEN 1 ELSE 0
    <3> DEFINE lost == IF on /\ ~keep THEN 1 ELSE 0
    <3> DEFINE put == IF keep THEN 1 ELSE 0
    <3> DEFINE n == Cardinality(AudioIn(q))
    <3> DEFINE l == Len(u.pending)
    <3>1. /\ more \in Nat /\ lost \in Nat /\ put \in Nat /\ more = lost + put
          /\ n \in Nat /\ l \in Nat /\ s.recorded = s.dropped + s.got + s.stray + n + l
      BY <1>2, <2>1
    <3>2. t.recorded = s.recorded + more
      BY <1>8
    <3> DEFINE dr == s.dropped
    <3> DEFINE x == s.got
    <3> DEFINE y == s.stray
    <3> DEFINE rec == s.recorded
    <3>3. rec = dr + x + y + n + l /\ dr \in Nat /\ x \in Nat /\ y \in Nat
      BY <2>1, <3>1
    <3> HIDE DEF more, lost, put, n, l, dr, x, y, rec
    <3>4. rec + more = (dr + lost) + x + y + (n + put) + l
      BY <3>1, <3>3
    <3>5. t.recorded = rec + more
      BY <3>2 DEF rec
    <3>6. t.recorded = (dr + lost) + x + y + (n + put) + l
      BY <3>4, <3>5
    <3>7. QED BY <3>6 DEF more, lost, put, n, l, dr, x, y
  <2>6. QED BY <1>8, <2>2, <2>5 DEF Counted
<1>13. ASSUME t.steady PROVE Steady(d, r, u, t)
  <2>1. /\ \A i \in 1 .. Len(q) : q[i].kind = "audio" => q[i].as = c.flags
        /\ \A x \in s.holds : s.guid.tag = TagOf(x)
        /\ Going(u, s) => /\ \A i \in 1 .. Len(u.pending) : u.guid.tag = TagOf(u.pending[i])
                          /\ c.flags # {} => u.guid.tag = Untagged
    BY <1>1, <1>8, <1>13 DEF Steady
  <2>2. \A i \in 1 .. Len(r) : r[i].kind = "audio" => r[i].as = d.flags
    BY <1>7, <2>1
  <2>3. QED BY <1>8, <1>9, <2>1, <2>2 DEF Steady
<1>14. ASSUME t.steady, d.flags = {} PROVE OnTheGrid(d, r, u, t, 2, loop, TRUE)
  <2>1. /\ s.stray = 0 /\ Quiet(q, ~u.need_header)
        /\ ~c.bcast_active => FallsSilent(q, ~u.need_header)
        /\ ~u.need_header /\ ~Going(u, s) => EndsFirst(q, p) /\ u.pending = <<>>
        /\ OneInterval(q, Going(u, s), u.guid.tag, loop)
    BY <1>1, <1>8, <1>14 DEF OnTheGrid
  <2>2. a = q /\ on = c.bcast_active
    BY <1>1, <1>2, <1>14, ConcatEmptySeq DEF Joined
  <2>3. EndsFirst(q, p) => EndsFirst(q, 2)
    BY DEF EndsFirst
  <2>4. Going(u, t) = Going(u, s)
    BY <1>9, Zenon DEF Going
  <2>5. CASE ~keep
    <3>1. r = q
      BY <1>6, <2>2, <2>5
    <3>2. QED BY <1>8, <2>1, <2>2, <2>3, <2>4, <3>1, Zenon DEF OnTheGrid
  <2>6. CASE keep
    <3>1. Pushed(q, b, r) /\ on
      BY <1>6, <2>2, <2>6
    <3>2. Quiet(r, ~u.need_header)
      <4>1. b.kind # "silence"
        OBVIOUS
      <4>2. (~u.need_header) \in BOOLEAN /\ Quiet(q, ~u.need_header)
        BY <1>1, <2>1, Zenon
      <4> DEFINE w == ~u.need_header
      <4> HIDE DEF w
      <4>3. w \in BOOLEAN /\ Quiet(q, w)
        BY <4>2 DEF w
      <4>4. Quiet(r, w)
        BY <3>1, <4>1, <4>3, QuietPush
      <4>5. QED BY <4>4 DEF w
    <3>3. OneInterval(r, Going(u, s), u.guid.tag, loop)
      BY <1>1, <2>1, <3>1, OneIntervalPush
    <3>4. EndsFirst(q, p) => EndsFirst(r, 2)
      BY <3>1, EndsFirstPush
    <3>5. QED BY <1>8, <2>1, <2>4, <3>1, <3>2, <3>3, <3>4, Zenon DEF OnTheGrid
  <2>7. QED BY <2>5, <2>6
<1>15. 2 # 0
  OBVIOUS
<1>16. QED BY <1>8, <1>10, <1>11, <1>12, <1>13, <1>14, <1>15, Zenon DEF ChannelInv

-----------------------------------------------------------------------------
(* What a WRITE does to the server: the audio goes to the upload that is   *)
(* open, or the one it opens; what has none is stray.                      *)
Wrote(s, g, m, t) == t = OnWrite(s, g, m)
Sent(s, u, m, t)  == t = SendWrite(s, u, m)
WellSent(s, u)   == u.header # ZeroGuid \/ (s.open /\ s.guid = u.guid)

LEMMA ServerIs ==
  ASSUME NEW s \in Servers
  PROVE  /\ s.guid \in Guids /\ s.open \in BOOLEAN /\ s.holds \subseteq Pieces
         /\ s.got \in Nat /\ s.stray \in Nat /\ s.unfinished \in Nat /\ s.recorded \in Nat
         /\ s.dropped \in Nat /\ s.steady \in BOOLEAN
  BY DEF Servers

LEMMA Writing ==
  ASSUME NEW s \in Servers, NEW g \in Guids, NEW m \in Seq(Pieces), NEW t, Wrote(s, g, m, t)
  PROVE  /\ t \in Servers /\ t.unfinished = s.unfinished /\ t.recorded = s.recorded
         /\ t.dropped = s.dropped /\ t.steady = s.steady
         /\ t.guid = s.guid /\ t.open = s.open
         /\ t.got + t.stray = s.got + s.stray + Len(m)
         /\ (s.open /\ s.guid = g) \/ Len(m) = 0 => t.stray = s.stray
         /\ \A x \in t.holds : x \in s.holds \/ (s.open /\ s.guid = g /\ \E i \in 1 .. Len(m) : x = m[i])
<1>1. /\ s.guid \in Guids /\ s.open \in BOOLEAN /\ s.holds \subseteq Pieces
      /\ s.got \in Nat /\ s.stray \in Nat /\ s.unfinished \in Nat /\ s.recorded \in Nat
      /\ s.dropped \in Nat /\ s.steady \in BOOLEAN
  BY ServerIs
<1>2. Len(m) \in Nat /\ DOMAIN m = 1 .. Len(m) /\ \A i \in 1 .. Len(m) : m[i] \in Pieces
  BY ElementOfSeq
<1>3. CASE m = <<>>
  <2>1. t = s /\ Len(m) = 0
    BY <1>3 DEF Wrote, OnWrite
  <2>2. QED BY <1>1, <2>1
<1>4. CASE m # <<>> /\ s.open /\ g = s.guid
  <2>1. Len(m) # 0
    BY <1>4, <1>2, EmptySeq
  <2> DEFINE h == s.holds \union {m[i] : i \in DOMAIN m}
  <2> DEFINE n == s.got + Len(m)
  <2>2. t = [s EXCEPT !.holds = h, !.got = n]
    BY <1>4 DEF Wrote, OnWrite
  <2>3. h \subseteq Pieces /\ n \in Nat
    BY <1>1, <1>2
  <2>4. \A x \in h : x \in s.holds \/ \E i \in 1 .. Len(m) : x = m[i]
    BY <1>2
  <2> HIDE DEF h, n
  <2>5. /\ t \in Servers /\ t.unfinished = s.unfinished /\ t.recorded = s.recorded
        /\ t.dropped = s.dropped /\ t.steady = s.steady
        /\ t.guid = s.guid /\ t.open = s.open /\ t.stray = s.stray /\ t.got = n /\ t.holds = h
    BY <2>2, <2>3 DEF Servers
  <2>6. t.got + t.stray = s.got + s.stray + Len(m)
    BY <1>1, <1>2, <2>5 DEF n
  <2>7. QED BY <1>4, <2>4, <2>5, <2>6
<1>5. CASE m # <<>> /\ ~(s.open /\ g = s.guid)
  <2>1. Len(m) # 0
    BY <1>5, <1>2, EmptySeq
  <2> DEFINE n == s.stray + Len(m)
  <2>2. t = [s EXCEPT !.stray = n]
    BY <1>5 DEF Wrote, OnWrite
  <2>3. n \in Nat
    BY <1>1, <1>2
  <2> HIDE DEF n
  <2>5. /\ t \in Servers /\ t.unfinished = s.unfinished /\ t.recorded = s.recorded
        /\ t.dropped = s.dropped /\ t.steady = s.steady
        /\ t.guid = s.guid /\ t.open = s.open /\ t.got = s.got /\ t.stray = n /\ t.holds = s.holds
    BY <2>2, <2>3 DEF Servers
  <2>6. t.got + t.stray = s.got + s.stray + Len(m)
    BY <1>1, <1>2, <2>5 DEF n
  <2>7. QED BY <1>5, <2>1, <2>5, <2>6
<1>6. QED BY <1>3, <1>4, <1>5

LEMMA Sending ==
  ASSUME NEW s \in Servers, NEW u \in Encoders, NEW m \in Seq(Pieces), NEW t, Sent(s, u, m, t),
         u.header # ZeroGuid => ~s.open /\ u.header = u.guid
  PROVE  /\ t \in Servers /\ t.unfinished = s.unfinished /\ t.recorded = s.recorded
         /\ t.dropped = s.dropped /\ t.steady = s.steady
         /\ t.got + t.stray = s.got + s.stray + Len(m)
         /\ WellSent(s, u) => t.open /\ t.guid = u.guid
         /\ ~WellSent(s, u) => t.open = s.open /\ t.guid = s.guid
         /\ WellSent(s, u) \/ Len(m) = 0 => t.stray = s.stray
         /\ \A x \in t.holds : (u.header = ZeroGuid /\ x \in s.holds)
                               \/ (WellSent(s, u) /\ \E i \in 1 .. Len(m) : x = m[i])
<1>1. u.guid \in Guids /\ u.header \in Guids
  BY DEF Encoders
<1>2. CASE u.header = ZeroGuid
  <2>1. Wrote(s, u.guid, m, t)
    BY <1>2 DEF Sent, SendWrite, Wrote
  <2>2. /\ t \in Servers /\ t.unfinished = s.unfinished /\ t.recorded = s.recorded
        /\ t.dropped = s.dropped /\ t.steady = s.steady
        /\ t.guid = s.guid /\ t.open = s.open
        /\ t.got + t.stray = s.got + s.stray + Len(m)
        /\ (s.open /\ s.guid = u.guid) \/ Len(m) = 0 => t.stray = s.stray
        /\ \A x \in t.holds :
             x \in s.holds \/ (s.open /\ s.guid = u.guid /\ \E i \in 1 .. Len(m) : x = m[i])
    BY <1>1, <2>1, Writing
  <2>3. QED BY <1>2, <2>2 DEF WellSent
<1>3. CASE u.header # ZeroGuid
  <2>1. PICK o \in Servers : /\ o.unfinished = s.unfinished /\ o.recorded = s.recorded
        /\ o.dropped = s.dropped /\ o.steady = s.steady /\ o.got = s.got /\ o.stray = s.stray
        /\ o.guid = u.guid /\ o.open /\ o.holds = {} /\ Wrote(o, u.guid, m, t)
    <3> DEFINE o == OnBegin(s, u.header)
    <3>1. o = [s EXCEPT !.guid = u.guid, !.open = TRUE, !.holds = {}, !.unfinished = s.unfinished]
      BY <1>3 DEF OnBegin
    <3>2. /\ o \in Servers /\ o.unfinished = s.unfinished /\ o.recorded = s.recorded
          /\ o.dropped = s.dropped /\ o.steady = s.steady /\ o.got = s.got /\ o.stray = s.stray
          /\ o.guid = u.guid /\ o.open /\ o.holds = {}
      BY <1>1, <3>1 DEF Servers
    <3>3. Wrote(o, u.guid, m, t)
      BY <1>3 DEF Sent, SendWrite, Wrote
    <3>4. QED BY <3>2, <3>3
  <2>3. /\ t \in Servers /\ t.unfinished = o.unfinished /\ t.recorded = o.recorded
        /\ t.dropped = o.dropped /\ t.steady = o.steady
        /\ t.guid = o.guid /\ t.open = o.open
        /\ t.got + t.stray = o.got + o.stray + Len(m)
        /\ (o.open /\ o.guid = u.guid) \/ Len(m) = 0 => t.stray = o.stray
        /\ \A x \in t.holds :
             x \in o.holds \/ (o.open /\ o.guid = u.guid /\ \E i \in 1 .. Len(m) : x = m[i])
    <3>1. o \in Servers /\ u.guid \in Guids /\ m \in Seq(Pieces) /\ Wrote(o, u.guid, m, t)
      BY <1>1, <2>1
    <3>2. \A g \in Guids : Wrote(o, g, m, t) => t \in Servers
      BY <3>1, Writing
    <3>3. \A g \in Guids : Wrote(o, g, m, t) => t.unfinished = o.unfinished
      BY <3>1, Writing
    <3>4. \A g \in Guids : Wrote(o, g, m, t) => t.guid = o.guid /\ t.open = o.open
      BY <3>1, Writing
    <3>5. \A g \in Guids : Wrote(o, g, m, t) => t.got + t.stray = o.got + o.stray + Len(m)
      BY <3>1, Writing
    <3>6. QED BY <3>1, <3>2, <3>3, <3>4, <3>5, Writing
  <2>4. \A x \in t.holds : \E i \in 1 .. Len(m) : x = m[i]
    BY <2>1, <2>3
  <2>5. QED BY <1>3, <2>1, <2>3, <2>4 DEF WellSent
<1>4. QED BY <1>2, <1>3

(* What the encoder takes in and gives out.                                *)
PieceOf(b)        == [at |-> b.at, as |-> b.as]
Carried(x, b, u)  == x = PieceOf(b) \/ \E i \in 1 .. Len(u.pending) : x = u.pending[i]
Headed(u, f, b, v) == v = NewHeader(u, f, b)
Coded(v, b, ready, w) ==
  LET e == Append(v.pending, PieceOf(b)) IN
  w = [v EXCEPT !.m_enc = TRUE, !.pending = SubSeq(e, ready + 1, Len(e)),
                !.header = IF ready > 0 THEN ZeroGuid ELSE @]
Given(v, b, ready) == SubSeq(Append(v.pending, PieceOf(b)), 1, ready)

LEMMA EncoderIs ==
  ASSUME NEW u \in Encoders
  PROVE  /\ u.m_enc \in BOOLEAN /\ u.pending \in Seq(Pieces) /\ u.need_header \in BOOLEAN
         /\ u.guid \in Guids /\ u.header \in Guids /\ u.n \in Nat /\ Len(u.pending) \in Nat
  BY DEF Encoders

LEMMA HeaderIs ==
  ASSUME NEW u \in Encoders, NEW f \in Flags, NEW b \in Blocks, b.kind = "audio", NEW v, Headed(u, f, b, v)
  PROVE  /\ v \in Encoders /\ ~v.need_header /\ v.pending = u.pending /\ v.m_enc = u.m_enc
         /\ u.need_header => v.header = v.guid /\ v.header # ZeroGuid /\ v.guid.tag = Tag(f, b)
         /\ ~u.need_header => v = u
<1>1. u.n \in Nat /\ u.n + 1 \in Nat /\ u.need_header \in BOOLEAN
  BY DEF Encoders
<1>2. CASE ~u.need_header
  BY <1>2 DEF Headed, NewHeader
<1>3. CASE u.need_header
  <2> DEFINE g == [n |-> u.n + 1, tag |-> Tag(f, b)]
  <2>1. v = [u EXCEPT !.need_header = FALSE, !.guid = g, !.n = @ + 1, !.header = g]
    BY <1>3 DEF Headed, NewHeader
  <2>2. b.at \in Nat
    BY KindsOfBlocks
  <2>3. g \in Guids /\ g.tag = Tag(f, b)
    BY <1>1, <2>2 DEF Guids, Tag
  <2>4. g # ZeroGuid
    <3>1. g.n = u.n + 1 /\ ZeroGuid.n = 0
      BY DEF ZeroGuid
    <3>2. u.n + 1 # 0
      BY <1>1
    <3>3. QED BY <3>1, <3>2
  <2> HIDE DEF g
  <2>5. v \in Encoders /\ ~v.need_header /\ v.pending = u.pending /\ v.m_enc = u.m_enc
        /\ v.header = g /\ v.guid = g
    BY <1>1, <2>1, <2>3 DEF Encoders
  <2>6. QED BY <1>3, <2>3, <2>4, <2>5
<1>4. QED BY <1>2, <1>3

LEMMA CodedIs ==
  ASSUME NEW v \in Encoders, NEW b \in Blocks, b.kind = "audio", NEW ready \in Nat,
         ready <= Len(v.pending) + 1, NEW w, Coded(v, b, ready, w), NEW m, m = Given(v, b, ready)
  PROVE  /\ w \in Encoders /\ w.m_enc /\ w.need_header = v.need_header /\ w.guid = v.guid
         /\ w.header = (IF ready > 0 THEN ZeroGuid ELSE v.header)
         /\ m \in Seq(Pieces) /\ Len(m) = ready
         /\ Len(w.pending) + ready = Len(v.pending) + 1
         /\ \A i \in 1 .. Len(m) : Carried(m[i], b, v)
         /\ \A i \in 1 .. Len(w.pending) : Carried(w.pending[i], b, v)
<1> DEFINE piece == PieceOf(b)
<1> DEFINE e == Append(v.pending, piece)
<1>1. piece \in Pieces
  BY KindsOfBlocks DEF PieceOf, Pieces
<1>2. v.pending \in Seq(Pieces) /\ Len(v.pending) \in Nat /\ v.header \in Guids
  BY EncoderIs
<1> HIDE DEF piece
<1>3. /\ e \in Seq(Pieces) /\ Len(e) = Len(v.pending) + 1 /\ e[Len(v.pending) + 1] = piece
      /\ \A i \in 1 .. Len(v.pending) : e[i] = v.pending[i]
  BY <1>1, <1>2, AppendProperties
<1> HIDE DEF e
<1>4. \A i \in 1 .. Len(e) : Carried(e[i], b, v)
  <2>1. ASSUME NEW i \in 1 .. Len(e) PROVE Carried(e[i], b, v)
    <3>1. i = Len(v.pending) + 1 \/ i \in 1 .. Len(v.pending)
      BY <1>2, <1>3
    <3>2. QED BY <1>3, <3>1 DEF Carried, piece
  <2>2. QED BY <2>1
<1> DEFINE rest == SubSeq(e, ready + 1, Len(e))
<1>5. /\ SubSeq(e, 1, ready) \in Seq(Pieces) /\ Len(SubSeq(e, 1, ready)) = ready
      /\ \A i \in 1 .. ready : SubSeq(e, 1, ready)[i] = e[i] /\ i \in 1 .. Len(e)
  BY <1>2, <1>3, SubSeqProperties
<1>6. /\ rest \in Seq(Pieces) /\ Len(rest) = Len(e) - ready
      /\ \A i \in 1 .. Len(rest) : rest[i] = e[ready + i] /\ ready + i \in 1 .. Len(e)
  BY <1>2, <1>3, SubSeqProperties
<1>7. m = SubSeq(e, 1, ready)
  BY DEF Given, e, piece
<1>8. w = [v EXCEPT !.m_enc = TRUE, !.pending = rest, !.header = IF ready > 0 THEN ZeroGuid ELSE v.header]
  BY DEF Coded, e, piece
<1> HIDE DEF rest
<1>9. ZeroGuid \in Guids
  BY DEF ZeroGuid, Guids
<1>10. (IF ready > 0 THEN ZeroGuid ELSE v.header) \in Guids
  BY <1>2, <1>9
<1>11. /\ w \in Encoders /\ w.m_enc /\ w.need_header = v.need_header /\ w.guid = v.guid
       /\ w.header = (IF ready > 0 THEN ZeroGuid ELSE v.header) /\ w.pending = rest
  BY <1>6, <1>8, <1>10 DEF Encoders
<1>12. m \in Seq(Pieces) /\ Len(m) = ready /\ \A i \in 1 .. Len(m) : Carried(m[i], b, v)
  BY <1>4, <1>5, <1>7
<1>13. /\ Len(w.pending) + ready = Len(v.pending) + 1
       /\ \A i \in 1 .. Len(w.pending) : Carried(w.pending[i], b, v)
  BY <1>2, <1>3, <1>4, <1>6, <1>11
<1>14. QED BY <1>11, <1>12, <1>13

Arrived(s, v, b, ready, t) == t = IF ready = 0 THEN s ELSE SendWrite(s, v, Given(v, b, ready))

LEMMA Sums ==
  ASSUME NEW g2 \in Nat, NEW y2 \in Nat, NEW l2 \in Nat, NEW g \in Nat, NEW y \in Nat,
         NEW l \in Nat, NEW x \in Nat, NEW z \in Nat, g2 + y2 = g + y + x, l2 + x = l + z
  PROVE  g2 + y2 + l2 = g + y + l + z
  OBVIOUS

(* The blocks of a channel are all accounted for, wherever they move.      *)
LEMMA Moved ==
  ASSUME NEW rec \in Nat, NEW dr \in Nat, NEW g2 \in Nat, NEW y2 \in Nat, NEW l2 \in Nat, NEW g \in Nat,
         NEW y \in Nat, NEW l \in Nat, NEW n \in Nat, NEW n2 \in Nat, NEW z \in Nat,
         rec = dr + g + y + n + l, n = n2 + z, g2 + y2 + l2 = g + y + l + z
  PROVE  rec = dr + g2 + y2 + n2 + l2
  OBVIOUS

LEMMA CountedOn ==
  ASSUME NEW q \in Seq(Blocks), NEW u \in Encoders, NEW s \in Servers, Counted(q, u, s),
         NEW r \in Seq(Blocks), NEW w \in Encoders, NEW t \in Servers, NEW z \in Nat,
         t.recorded = s.recorded, t.dropped = s.dropped,
         Cardinality(AudioIn(q)) = Cardinality(AudioIn(r)) + z,
         t.got + t.stray + Len(w.pending) = s.got + s.stray + Len(u.pending) + z
  PROVE  Counted(r, w, t)
<1> DEFINE rec == s.recorded
<1> DEFINE dr == s.dropped
<1> DEFINE g == s.got
<1> DEFINE y == s.stray
<1> DEFINE l == Len(u.pending)
<1> DEFINE n == Cardinality(AudioIn(q))
<1> DEFINE g2 == t.got
<1> DEFINE y2 == t.stray
<1> DEFINE l2 == Len(w.pending)
<1> DEFINE n2 == Cardinality(AudioIn(r))
<1>1. /\ rec \in Nat /\ dr \in Nat /\ g \in Nat /\ y \in Nat /\ l \in Nat /\ n \in Nat
      /\ g2 \in Nat /\ y2 \in Nat /\ l2 \in Nat /\ n2 \in Nat
  BY ServerIs, EncoderIs, AudioInIs
<1>2. rec = dr + g + y + n + l /\ n = n2 + z /\ g2 + y2 + l2 = g + y + l + z
  BY DEF Counted
<1>3. t.recorded = rec /\ t.dropped = dr
  OBVIOUS
<1> HIDE DEF rec, dr, g, y, l, n, g2, y2, l2, n2
<1>4. rec = dr + g2 + y2 + n2 + l2
  BY <1>1, <1>2, Moved
<1>5. t.recorded = t.dropped + g2 + y2 + n2 + l2
  BY <1>3, <1>4
<1>6. QED BY <1>5 DEF Counted, g2, y2, n2, l2

LEMMA OneIntervalHead ==
  ASSUME NEW q, NEW r, Popped(q, r), NEW w \in BOOLEAN, NEW tag, NEW loop, OneInterval(q, w, tag, loop),
         NEW v \in BOOLEAN
  PROVE  /\ w /\ q[1].kind = "audio" => q[1].at = tag
         /\ q[1].kind = "audio" => OneInterval(r, v, q[1].at, loop)
         /\ ~v => OneInterval(r, v, tag, loop)
<1>1. ASSUME NEW f \in BOOLEAN, ~f
      PROVE  OneInterval(r, f, tag, loop) /\ (w /\ q[1].kind = "audio" => q[1].at = tag)
  BY <1>1, OneIntervalPop
<1>2. ASSUME q[1].kind = "audio", NEW tag2, tag2 = q[1].at
      PROVE  OneInterval(r, v, tag2, loop)
  <2>1. v => q[1].kind = "audio" /\ tag2 = q[1].at
    BY <1>2
  <2>2. QED BY <2>1, OneIntervalPop
<1>3. FALSE \in BOOLEAN
  OBVIOUS
<1>4. w /\ q[1].kind = "audio" => q[1].at = tag
  BY <1>1, <1>3
<1>5. q[1].kind = "audio" => OneInterval(r, v, q[1].at, loop)
  BY <1>2
<1>6. ~v => OneInterval(r, v, tag, loop)
  BY <1>1
<1>7. QED BY <1>4, <1>5, <1>6

LEMMA AudioArrives ==
  ASSUME NEW s \in Servers, NEW v \in Encoders, NEW b \in Blocks, b.kind = "audio", NEW ready \in Nat,
         ready <= Len(v.pending) + 1, NEW w, Coded(v, b, ready, w), NEW t, Arrived(s, v, b, ready, t),
         ~v.need_header, v.header # ZeroGuid => ~s.open /\ v.header = v.guid, s.open => WellSent(s, v)
  PROVE  /\ t \in Servers /\ t.unfinished = s.unfinished /\ t.recorded = s.recorded
         /\ t.dropped = s.dropped /\ t.steady = s.steady
         /\ Going(w, t) <=> WellSent(s, v)
         /\ t.open \/ w.header # ZeroGuid => Going(w, t)
         /\ WellSent(s, v) => t.stray = s.stray
         /\ t.got + t.stray + Len(w.pending) = s.got + s.stray + Len(v.pending) + 1
         /\ \A x \in t.holds : (x \in s.holds /\ t.guid = s.guid)
                               \/ (WellSent(s, v) /\ t.guid = v.guid /\ Carried(x, b, v))
<1> DEFINE m == Given(v, b, ready)
<1>1. /\ w \in Encoders /\ w.m_enc /\ ~w.need_header /\ w.guid = v.guid
      /\ w.header = (IF ready > 0 THEN ZeroGuid ELSE v.header)
      /\ m \in Seq(Pieces) /\ Len(m) = ready
      /\ Len(w.pending) + ready = Len(v.pending) + 1
      /\ \A i \in 1 .. Len(m) : Carried(m[i], b, v)
  BY CodedIs
<1>2. /\ Len(w.pending) \in Nat /\ Len(v.pending) \in Nat /\ s.got \in Nat /\ s.stray \in Nat
      /\ s.open \in BOOLEAN
  BY <1>1, EncoderIs, ServerIs
<1> HIDE DEF m
<1>3. CASE ready = 0
  <2>1. t = s /\ w.header = v.header
    BY <1>1, <1>3 DEF Arrived
  <2>2. Going(w, t) <=> WellSent(s, v)
    BY <1>1, <2>1 DEF Going, WellSent
  <2>3. t.open \/ w.header # ZeroGuid => WellSent(s, v)
    BY <2>1 DEF WellSent
  <2>4. t.got + t.stray + Len(w.pending) = s.got + s.stray + Len(v.pending) + 1
    BY <1>1, <1>2, <1>3, <2>1
  <2>5. QED BY <2>1, <2>2, <2>3, <2>4
<1>4. CASE ready # 0
  <2>1. Sent(s, v, m, t) /\ w.header = ZeroGuid
    BY <1>1, <1>4 DEF Arrived, Sent, m
  <2>2. /\ t \in Servers /\ t.unfinished = s.unfinished /\ t.recorded = s.recorded
        /\ t.dropped = s.dropped /\ t.steady = s.steady
        /\ t.got + t.stray = s.got + s.stray + Len(m)
        /\ WellSent(s, v) => t.open /\ t.guid = v.guid
        /\ ~WellSent(s, v) => t.open = s.open /\ t.guid = s.guid
        /\ WellSent(s, v) \/ Len(m) = 0 => t.stray = s.stray
        /\ \A x \in t.holds : (v.header = ZeroGuid /\ x \in s.holds)
                              \/ (WellSent(s, v) /\ \E i \in 1 .. Len(m) : x = m[i])
    BY <1>1, <2>1, Sending
  <2>3. Going(w, t) <=> WellSent(s, v)
    <3>1. CASE WellSent(s, v)
      BY <1>1, <2>1, <2>2, <3>1 DEF Going
    <3>2. CASE ~WellSent(s, v)
      <4>1. ~t.open
        BY <2>2, <3>2
      <4>2. QED BY <2>1, <3>2, <4>1 DEF Going
    <3>3. QED BY <3>1, <3>2
  <2>4. t.open \/ w.header # ZeroGuid => WellSent(s, v)
    BY <2>1, <2>2
  <2>5. t.got + t.stray + Len(w.pending) = s.got + s.stray + Len(v.pending) + 1
    <3>1. t.got \in Nat /\ t.stray \in Nat
      BY <2>2, ServerIs
    <3>2. t.got + t.stray = s.got + s.stray + ready /\ Len(w.pending) + ready = Len(v.pending) + 1
      BY <1>1, <2>2
    <3> DEFINE l2 == Len(w.pending)
    <3> DEFINE l == Len(v.pending)
    <3> DEFINE g2 == t.got
    <3> DEFINE y2 == t.stray
    <3> DEFINE g == s.got
    <3> DEFINE y == s.stray
    <3>3. /\ l2 \in Nat /\ l \in Nat /\ g2 \in Nat /\ y2 \in Nat /\ g \in Nat /\ y \in Nat
          /\ g2 + y2 = g + y + ready /\ l2 + ready = l + 1
      BY <1>2, <3>1, <3>2
    <3> HIDE DEF l2, l, g2, y2, g, y
    <3>4. g2 + y2 + l2 = g + y + l + 1
      BY <3>3, Sums
    <3>5. QED BY <3>4 DEF l2, l, g2, y2, g, y
  <2>6. ASSUME NEW x \in t.holds
        PROVE  (x \in s.holds /\ t.guid = s.guid) \/ (WellSent(s, v) /\ t.guid = v.guid /\ Carried(x, b, v))
    <3>1. CASE v.header = ZeroGuid /\ x \in s.holds
      BY <2>2, <3>1 DEF WellSent
    <3>2. CASE WellSent(s, v) /\ \E i \in 1 .. Len(m) : x = m[i]
      BY <1>1, <2>2, <3>2
    <3>3. QED BY <2>2, <3>1, <3>2
  <2>7. QED BY <2>2, <2>3, <2>4, <2>5, <2>6
<1>5. QED BY <1>3, <1>4

LEMMA PopCounts ==
  ASSUME NEW q, NEW r, Popped(q, r)
  PROVE  /\ Cardinality(AudioIn(r)) \in Nat /\ r \in Seq(Blocks) /\ Len(r) \in Nat /\ q # <<>>
         /\ Cardinality(AudioIn(q)) = Cardinality(AudioIn(r)) + (IF q[1].kind = "audio" THEN 1 ELSE 0)
         /\ \A i \in 1 .. Len(r) : i + 1 \in 1 .. Len(q) /\ r[i] = q[i + 1]
<1>1. /\ q \in Seq(Blocks) /\ r \in Seq(Blocks) /\ Len(q) = Len(r) + 1 /\ Len(r) \in Nat
      /\ \A i \in 1 .. Len(r) : r[i] = q[i + 1]
  BY DEF Popped
<1>2. Cardinality(AudioIn(r)) \in Nat
  BY <1>1, AudioInIs
<1>3. q # <<>>
  BY <1>1
<1>4. QED BY <1>1, <1>2, <1>3, CountPop

LEMMA AudioHolds ==
  ASSUME NEW c, NEW q, NEW u, NEW s, NEW p, NEW loop \in Nat, NEW ok \in BOOLEAN,
         ChannelInv(c, q, u, s, p, loop, ok),
         NEW r, Popped(q, r), q[1] \in Blocks, q[1].kind = "audio",
         NEW v, Headed(u, c.flags, q[1], v), NEW ready \in Nat, ready <= Len(v.pending) + 1,
         NEW w, Coded(v, q[1], ready, w), NEW t, Arrived(s, v, q[1], ready, t)
  PROVE  ChannelInv(c, r, w, t, p, loop, ok)
<1>1. /\ ChannelTypeOK(c, q, u, s) /\ Encoding(u, s) /\ Counted(q, u, s)
      /\ Quiet(q, Going(u, s)) /\ (~c.bcast_active => Over(q, Going(u, s), Len(q) + 1))
      /\ s.steady => Steady(c, q, u, s)
      /\ s.steady /\ c.flags = {} => OnTheGrid(c, q, u, s, p, loop, ok)
      /\ c \in Channels /\ q \in Seq(Blocks) /\ u \in Encoders /\ s \in Servers /\ Len(q) \in Nat
      /\ Going(u, s) \in BOOLEAN /\ (~u.need_header) \in BOOLEAN
  BY ChannelParts, Zenon
<1>2. /\ Cardinality(AudioIn(r)) \in Nat /\ r \in Seq(Blocks) /\ Len(r) \in Nat /\ q # <<>>
      /\ Cardinality(AudioIn(q)) = Cardinality(AudioIn(r)) + 1
      /\ \A i \in 1 .. Len(r) : i + 1 \in 1 .. Len(q) /\ r[i] = q[i + 1]
  BY PopCounts
<1>3. /\ v \in Encoders /\ ~v.need_header /\ v.pending = u.pending /\ v.m_enc = u.m_enc
      /\ u.need_header => v.header = v.guid /\ v.header # ZeroGuid /\ v.guid.tag = Tag(c.flags, q[1])
      /\ ~u.need_header => v = u
  <2>1. c.flags \in Flags
    BY <1>1 DEF Channels
  <2>2. QED BY <1>1, <2>1, HeaderIs
<1>4. /\ s.open \/ u.header # ZeroGuid => Going(u, s)
      /\ u.need_header \/ ~u.m_enc => u.pending = <<>>
      /\ s.unfinished = 0
  BY <1>1, Zenon DEF Encoding
<1>5. /\ v.header # ZeroGuid => ~s.open /\ v.header = v.guid
      /\ s.open => WellSent(s, v)
      /\ WellSent(s, v) <=> u.need_header \/ Going(u, s)
  BY <1>3, <1>4 DEF Going, WellSent
<1>6. /\ w \in Encoders /\ w.m_enc /\ ~w.need_header /\ w.guid = v.guid
      /\ \A i \in 1 .. Len(w.pending) : Carried(w.pending[i], q[1], v)
  BY <1>3, CodedIs
<1>7. /\ t \in Servers /\ t.unfinished = s.unfinished /\ t.recorded = s.recorded
      /\ t.dropped = s.dropped /\ t.steady = s.steady
      /\ Going(w, t) <=> WellSent(s, v)
      /\ t.open \/ w.header # ZeroGuid => Going(w, t)
      /\ WellSent(s, v) => t.stray = s.stray
      /\ t.got + t.stray + Len(w.pending) = s.got + s.stray + Len(v.pending) + 1
      /\ \A x \in t.holds : (x \in s.holds /\ t.guid = s.guid)
                            \/ (WellSent(s, v) /\ t.guid = v.guid /\ Carried(x, q[1], v))
  BY <1>1, <1>3, <1>5, AudioArrives
<1>8. Going(w, t) \in BOOLEAN
  BY Zenon DEF Going
<1>9. /\ Quiet(r, Going(w, t))
      /\ Over(q, Going(u, s), Len(q) + 1) => Over(r, Going(w, t), Len(r) + 1)
  BY <1>1, <1>8, QuietPop
<1>10. Encoding(w, t)
  BY <1>4, <1>6, <1>7 DEF Encoding
<1>11. Counted(r, w, t)
  <2>1. t.got + t.stray + Len(w.pending) = s.got + s.stray + Len(u.pending) + 1
    BY <1>3, <1>7
  <2>2. QED BY <1>1, <1>2, <1>6, <1>7, <2>1, CountedOn
<1>12. ASSUME t.steady PROVE q[1].as = c.flags /\ (Going(w, t) => w.guid.tag = TagOf(PieceOf(q[1])))
  <2>1. /\ \A i \in 1 .. Len(q) : q[i].kind = "audio" => q[i].as = c.flags
        /\ Going(u, s) /\ c.flags # {} => u.guid.tag = Untagged
    BY <1>1, <1>7, <1>12 DEF Steady
  <2>2. q[1].as = c.flags
    <3>1. 1 \in 1 .. Len(q)
      BY <1>1, <1>2, EmptySeq
    <3>2. QED BY <2>1, <3>1
  <2>3. TagOf(PieceOf(q[1])) = IF c.flags = {} THEN q[1].at ELSE Untagged
    BY <2>2 DEF TagOf, PieceOf
  <2>4. CASE u.need_header
    BY <1>3, <1>6, <2>2, <2>3, <2>4 DEF Tag
  <2>5. CASE ~u.need_header /\ c.flags # {}
    BY <1>3, <1>5, <1>6, <1>7, <2>1, <2>2, <2>3, <2>5
  <2>6. CASE ~u.need_header /\ c.flags = {}
    <3>1. OneInterval(q, Going(u, s), u.guid.tag, loop)
      BY <1>1, <1>7, <1>12, <2>6 DEF OnTheGrid
    <3>2. Going(u, s) /\ q[1].kind = "audio" => q[1].at = u.guid.tag
      BY <1>1, <3>1, OneIntervalHead
    <3>3. QED BY <1>3, <1>5, <1>6, <1>7, <2>2, <2>3, <2>6, <3>2
  <2>7. QED BY <2>4, <2>5, <2>6
<1>13. ASSUME t.steady PROVE Steady(c, r, w, t)
  <2>1. /\ \A i \in 1 .. Len(q) : q[i].kind = "audio" => q[i].as = c.flags
        /\ \A x \in s.holds : s.guid.tag = TagOf(x)
        /\ Going(u, s) => /\ \A i \in 1 .. Len(u.pending) : u.guid.tag = TagOf(u.pending[i])
                          /\ c.flags # {} => u.guid.tag = Untagged
    BY <1>1, <1>7, <1>13 DEF Steady
  <2>2. ASSUME NEW x, Carried(x, q[1], v), Going(w, t) PROVE w.guid.tag = TagOf(x)
    <3>1. CASE x = PieceOf(q[1])
      BY <1>12, <1>13, <2>2, <3>1
    <3>2. CASE \E i \in 1 .. Len(v.pending) : x = v.pending[i]
      <4>1. u.pending # <<>>
        BY <1>3, <3>2
      <4>2. ~u.need_header /\ Going(u, s)
        BY <1>4, <1>5, <1>7, <2>2, <4>1
      <4>3. QED BY <1>3, <1>6, <2>1, <3>2, <4>2
    <3>3. QED BY <2>2, <3>1, <3>2 DEF Carried
  <2>3. ASSUME NEW x \in t.holds PROVE t.guid.tag = TagOf(x)
    BY <1>6, <1>7, <2>1, <2>2
  <2>4. Going(w, t) => \A i \in 1 .. Len(w.pending) : w.guid.tag = TagOf(w.pending[i])
    BY <1>6, <2>2
  <2>5. Going(w, t) /\ c.flags # {} => w.guid.tag = Untagged
    BY <1>12, <1>13 DEF TagOf, PieceOf
  <2>6. \A i \in 1 .. Len(r) : r[i].kind = "audio" => r[i].as = c.flags
    BY <1>2, <2>1
  <2>7. QED BY <2>3, <2>4, <2>5, <2>6 DEF Steady
<1>14. ASSUME t.steady, c.flags = {} PROVE OnTheGrid(c, r, w, t, p, loop, ok)
  <2>1. /\ s.stray = 0 /\ Quiet(q, ~u.need_header)
        /\ ok /\ ~c.bcast_active => FallsSilent(q, ~u.need_header)
        /\ ~u.need_header /\ ~Going(u, s) => EndsFirst(q, p)
        /\ OneInterval(q, Going(u, s), u.guid.tag, loop)
    BY <1>1, <1>7, <1>14, Zenon DEF OnTheGrid
  <2>2. WellSent(s, v)
    <3>1. 1 \in 1 .. Len(q) /\ ~EndsIn(q, 0, 1)
      BY <1>1, <1>2, EmptySeq DEF EndsIn
    <3>2. ~EndsFirst(q, p)
      BY <3>1 DEF EndsFirst
    <3>3. QED BY <1>5, <2>1, <3>2
  <2>3. Going(w, t) /\ t.stray = 0
    BY <1>7, <2>1, <2>2
  <2>4. Quiet(r, TRUE) /\ (ok /\ ~c.bcast_active => FallsSilent(r, TRUE))
    <3>1. Quiet(r, TRUE)
      BY <1>1, <2>1, QuietPop
    <3>2. ASSUME FallsSilent(q, ~u.need_header) PROVE FallsSilent(r, TRUE)
      BY <1>1, <2>1, <3>2, SilencePop
    <3>3. QED BY <2>1, <3>1, <3>2
  <2>5. OneInterval(r, Going(w, t), w.guid.tag, loop)
    <3>1. w.guid.tag = q[1].at
      BY <1>12, <1>14, <2>3 DEF TagOf, PieceOf
    <3>2. OneInterval(r, Going(w, t), q[1].at, loop)
      BY <1>1, <1>8, <2>1, OneIntervalHead
    <3>3. QED BY <3>1, <3>2
  <2>6. (~w.need_header) = TRUE /\ Going(w, t) = TRUE
    BY <1>6, <1>8, <2>3
  <2>7. /\ Quiet(r, ~w.need_header) /\ (ok /\ ~c.bcast_active => FallsSilent(r, ~w.need_header))
        /\ OneInterval(r, Going(w, t), w.guid.tag, loop)
    BY <2>4, <2>5, <2>6
  <2>8. t.stray = 0 /\ (~w.need_header /\ ~Going(w, t) => EndsFirst(r, p) /\ w.pending = <<>>)
    BY <2>3, Zenon
  <2>9. QED BY <2>7, <2>8, Zenon DEF OnTheGrid
<1>15. ChannelTypeOK(c, r, w, t) /\ (p = 0 => r = <<>>)
  <2>1. p = 0 => q = <<>>
    BY Zenon DEF ChannelInv
  <2>2. QED BY <1>1, <1>2, <1>6, <1>7, <2>1 DEF ChannelTypeOK
<1>16. QED BY <1>1, <1>9, <1>10, <1>11, <1>13, <1>14, <1>15, Zenon DEF ChannelInv

Finished(u, fresh, w) == w = Finish(u, fresh)
Ended(s, u, t) == t = IF ~SendsEnd(u) THEN s ELSE OnEnd(SendWrite(s, u, u.pending), u.guid)

LEMMA FinishedIs ==
  ASSUME NEW u \in Encoders, NEW fresh \in BOOLEAN, NEW w, Finished(u, fresh, w)
  PROVE  /\ w \in Encoders /\ w.pending = <<>> /\ Len(w.pending) = 0 /\ w.need_header
         /\ w.header = (IF u.m_enc THEN ZeroGuid ELSE u.header) /\ w.guid = u.guid
<1>1. /\ u.m_enc \in BOOLEAN /\ u.header \in Guids /\ u.n \in Nat
  BY EncoderIs
<1>2. ZeroGuid \in Guids
  BY DEF ZeroGuid, Guids
<1> DEFINE h == IF u.m_enc THEN ZeroGuid ELSE u.header
<1> DEFINE m == u.m_enc /\ ~fresh
<1>3. h \in Guids /\ m \in BOOLEAN
  BY <1>1, <1>2
<1>4. w = [u EXCEPT !.m_enc = m, !.pending = <<>>, !.header = h, !.need_header = TRUE]
  BY DEF Finished, Finish
<1>5. <<>> \in Seq(Pieces) /\ Len(<<>>) = 0
  OBVIOUS
<1> HIDE DEF h, m
<1>6. /\ w \in Encoders /\ w.pending = <<>> /\ w.need_header /\ w.header = h /\ w.guid = u.guid
  BY <1>3, <1>4, <1>5 DEF Encoders
<1>7. QED BY <1>5, <1>6 DEF h

LEMMA EndArrives ==
  ASSUME NEW s \in Servers, NEW u \in Encoders, Encoding(u, s), NEW t, Ended(s, u, t)
  PROVE  /\ t \in Servers /\ t.unfinished = s.unfinished /\ t.recorded = s.recorded
         /\ t.dropped = s.dropped /\ t.steady = s.steady /\ ~t.open
         /\ Going(u, s) \/ u.pending = <<>> => t.stray = s.stray
         /\ t.got + t.stray = s.got + s.stray + Len(u.pending)
         /\ \A x \in t.holds :
              (x \in s.holds /\ t.guid = s.guid)
              \/ (Going(u, s) /\ t.guid = u.guid /\ \E i \in 1 .. Len(u.pending) : x = u.pending[i])
<1>1. /\ s.open \/ u.header # ZeroGuid => Going(u, s)
      /\ u.need_header \/ ~u.m_enc => u.pending = <<>>
  BY DEF Encoding
<1>2. /\ u.pending \in Seq(Pieces) /\ u.m_enc \in BOOLEAN /\ s.open \in BOOLEAN /\ s.got \in Nat /\ s.stray \in Nat
  BY EncoderIs, ServerIs
<1>3. Len(<<>>) = 0
  OBVIOUS
<1>4. CASE ~u.m_enc
  <2>1. t = s /\ ~s.open
    BY <1>1, <1>4 DEF Ended, SendsEnd, Going
  <2>2. Len(u.pending) = 0
    BY <1>1, <1>3, <1>4
  <2>3. t.got + t.stray = s.got + s.stray + Len(u.pending)
    BY <1>2, <2>1, <2>2
  <2>4. QED BY <2>1, <2>3
<1>5. CASE u.m_enc
  <2>1. PICK o : Sent(s, u, u.pending, o) /\ t = OnEnd(o, u.guid)
    BY <1>5 DEF Ended, SendsEnd, Sent
  <2>2. (u.header # ZeroGuid => ~s.open /\ u.header = u.guid) /\ (WellSent(s, u) <=> Going(u, s))
    BY <1>1 DEF Going, WellSent
  <2>3. /\ o \in Servers /\ o.unfinished = s.unfinished /\ o.recorded = s.recorded
        /\ o.dropped = s.dropped /\ o.steady = s.steady
        /\ o.got + o.stray = s.got + s.stray + Len(u.pending)
        /\ WellSent(s, u) => o.open /\ o.guid = u.guid
        /\ ~WellSent(s, u) => o.open = s.open /\ o.guid = s.guid
        /\ WellSent(s, u) \/ Len(u.pending) = 0 => o.stray = s.stray
        /\ \A x \in o.holds : (u.header = ZeroGuid /\ x \in s.holds)
                              \/ (WellSent(s, u) /\ \E i \in 1 .. Len(u.pending) : x = u.pending[i])
    BY <1>2, <2>1, <2>2, Sending
  <2>4. /\ t \in Servers /\ t.unfinished = o.unfinished /\ t.recorded = o.recorded
        /\ t.dropped = o.dropped /\ t.steady = o.steady /\ t.got = o.got /\ t.stray = o.stray
        /\ t.guid = o.guid /\ t.holds = o.holds
        /\ t.open = IF u.guid = o.guid THEN FALSE ELSE o.open
    BY <2>1, <2>3 DEF OnEnd, Servers
  <2>5. ~t.open
    <3>1. CASE WellSent(s, u)
      BY <2>3, <2>4, <3>1
    <3>2. CASE ~WellSent(s, u)
      <4>1. ~s.open
        BY <1>1, <2>2, <3>2
      <4>2. QED BY <2>3, <2>4, <3>2, <4>1
    <3>3. QED BY <3>1, <3>2
  <2>6. Going(u, s) \/ u.pending = <<>> => t.stray = s.stray
    BY <1>3, <2>2, <2>3, <2>4
  <2>7. ASSUME NEW x \in t.holds
        PROVE  (x \in s.holds /\ t.guid = s.guid)
               \/ (Going(u, s) /\ t.guid = u.guid /\ \E i \in 1 .. Len(u.pending) : x = u.pending[i])
    <3>1. CASE u.header = ZeroGuid /\ x \in s.holds
      BY <2>3, <2>4, <3>1 DEF WellSent
    <3>2. CASE WellSent(s, u) /\ \E i \in 1 .. Len(u.pending) : x = u.pending[i]
      BY <2>2, <2>3, <2>4, <3>2
    <3>3. QED BY <2>3, <2>4, <3>1, <3>2
  <2>8. QED BY <2>3, <2>4, <2>5, <2>6, <2>7
<1>6. QED BY <1>2, <1>4, <1>5

LEMMA EndHolds ==
  ASSUME NEW c, NEW q, NEW u, NEW s, NEW p, NEW loop \in Nat, NEW ok \in BOOLEAN,
         ChannelInv(c, q, u, s, p, loop, ok),
         NEW r, Popped(q, r), q[1].kind = "end", NEW fresh \in BOOLEAN, NEW w, Finished(u, fresh, w),
         NEW t, Ended(s, u, t)
  PROVE  ChannelInv(c, r, w, t, p, loop, ok)
<1>1. /\ ChannelTypeOK(c, q, u, s) /\ Encoding(u, s) /\ Counted(q, u, s)
      /\ Quiet(q, Going(u, s)) /\ (~c.bcast_active => Over(q, Going(u, s), Len(q) + 1))
      /\ s.steady => Steady(c, q, u, s)
      /\ s.steady /\ c.flags = {} => OnTheGrid(c, q, u, s, p, loop, ok)
      /\ c \in Channels /\ q \in Seq(Blocks) /\ u \in Encoders /\ s \in Servers /\ Len(q) \in Nat
      /\ Going(u, s) \in BOOLEAN /\ (~u.need_header) \in BOOLEAN
  BY ChannelParts, Zenon
<1>2. /\ Cardinality(AudioIn(r)) \in Nat /\ r \in Seq(Blocks) /\ Len(r) \in Nat /\ q # <<>>
      /\ Cardinality(AudioIn(q)) = Cardinality(AudioIn(r)) + 0
      /\ \A i \in 1 .. Len(r) : i + 1 \in 1 .. Len(q) /\ r[i] = q[i + 1]
  <2>1. q[1].kind # "audio"
    OBVIOUS
  <2>2. QED BY <2>1, PopCounts
<1>3. /\ w \in Encoders /\ w.pending = <<>> /\ Len(w.pending) = 0 /\ w.need_header
      /\ w.header = (IF u.m_enc THEN ZeroGuid ELSE u.header) /\ w.guid = u.guid
  BY <1>1, FinishedIs
<1>4. /\ t \in Servers /\ t.unfinished = s.unfinished /\ t.recorded = s.recorded
      /\ t.dropped = s.dropped /\ t.steady = s.steady /\ ~t.open
      /\ Going(u, s) \/ u.pending = <<>> => t.stray = s.stray
      /\ t.got + t.stray = s.got + s.stray + Len(u.pending)
      /\ \A x \in t.holds :
           (x \in s.holds /\ t.guid = s.guid)
           \/ (Going(u, s) /\ t.guid = u.guid /\ \E i \in 1 .. Len(u.pending) : x = u.pending[i])
  BY <1>1, EndArrives
<1>5. /\ s.open \/ u.header # ZeroGuid => Going(u, s)
      /\ u.need_header \/ ~u.m_enc => u.pending = <<>>
      /\ s.unfinished = 0
  BY <1>1, Zenon DEF Encoding
<1>6. ~Going(w, t) /\ Going(w, t) \in BOOLEAN
  BY <1>3, Zenon DEF Going
<1>7. w.header = ZeroGuid
  BY <1>3, <1>5 DEF Going
<1>8. Encoding(w, t)
  BY <1>3, <1>4, <1>5, <1>7 DEF Encoding
<1>9. Counted(r, w, t)
  <2>1. t.got + t.stray + Len(w.pending) = s.got + s.stray + Len(u.pending) + 0
    <3>1. t.got \in Nat /\ t.stray \in Nat /\ s.got \in Nat /\ s.stray \in Nat /\ Len(u.pending) \in Nat
      BY <1>1, <1>4, ServerIs, EncoderIs
    <3>2. QED BY <1>3, <1>4, <3>1
  <2>2. 0 \in Nat
    OBVIOUS
  <2>3. QED BY <1>1, <1>2, <1>3, <1>4, <2>1, <2>2, CountedOn
<1>10. /\ Quiet(r, Going(w, t))
       /\ Over(q, Going(u, s), Len(q) + 1) => Over(r, Going(w, t), Len(r) + 1)
  BY <1>1, <1>6, QuietPop
<1>11. ASSUME t.steady PROVE Steady(c, r, w, t)
  <2>1. /\ \A i \in 1 .. Len(q) : q[i].kind = "audio" => q[i].as = c.flags
        /\ \A x \in s.holds : s.guid.tag = TagOf(x)
        /\ Going(u, s) => \A i \in 1 .. Len(u.pending) : u.guid.tag = TagOf(u.pending[i])
    BY <1>1, <1>4, <1>11 DEF Steady
  <2>2. \A x \in t.holds : t.guid.tag = TagOf(x)
    BY <1>4, <2>1
  <2>3. \A i \in 1 .. Len(r) : r[i].kind = "audio" => r[i].as = c.flags
    BY <1>2, <2>1
  <2>4. QED BY <1>6, <2>2, <2>3 DEF Steady
<1>12. ASSUME t.steady, c.flags = {} PROVE OnTheGrid(c, r, w, t, p, loop, ok)
  <2>1. /\ s.stray = 0 /\ Quiet(q, ~u.need_header)
        /\ ok /\ ~c.bcast_active => FallsSilent(q, ~u.need_header)
        /\ ~u.need_header /\ ~Going(u, s) => u.pending = <<>>
        /\ OneInterval(q, Going(u, s), u.guid.tag, loop)
    BY <1>1, <1>4, <1>12, Zenon DEF OnTheGrid
  <2>2. t.stray = 0
    BY <1>4, <1>5, <2>1
  <2>3. (~w.need_header) \in BOOLEAN /\ ~(~w.need_header)
    BY <1>3, EncoderIs
  <2>4. Quiet(r, ~w.need_header)
    BY <1>1, <2>1, <2>3, QuietPop
  <2>5. ASSUME FallsSilent(q, ~u.need_header) PROVE FallsSilent(r, ~w.need_header)
    BY <1>1, <2>1, <2>3, <2>5, SilencePop
  <2>6. OneInterval(r, Going(w, t), w.guid.tag, loop)
    <3>1. OneInterval(r, Going(w, t), u.guid.tag, loop)
      BY <1>1, <1>6, <2>1, OneIntervalHead
    <3>2. QED BY <1>3, <3>1
  <2>7. QED BY <1>3, <2>1, <2>2, <2>4, <2>5, <2>6, Zenon DEF OnTheGrid
<1>13. ChannelTypeOK(c, r, w, t) /\ (p = 0 => r = <<>>)
  <2>1. p = 0 => q = <<>>
    BY Zenon DEF ChannelInv
  <2>2. QED BY <1>1, <1>2, <1>3, <1>4, <2>1 DEF ChannelTypeOK
<1>14. QED BY <1>1, <1>8, <1>9, <1>10, <1>11, <1>12, <1>13, Zenon DEF ChannelInv

Muted(u, w) == w = [u EXCEPT !.guid = ZeroGuid]

LEMMA SilenceHolds ==
  ASSUME NEW c, NEW q, NEW u, NEW s, NEW p, NEW loop \in Nat, NEW ok \in BOOLEAN,
         ChannelInv(c, q, u, s, p, loop, ok),
         NEW r, Popped(q, r), q[1].kind = "silence", NEW w, Muted(u, w)
  PROVE  ChannelInv(c, r, w, s, p, loop, ok)
<1>1. /\ ChannelTypeOK(c, q, u, s) /\ Encoding(u, s) /\ Counted(q, u, s)
      /\ Quiet(q, Going(u, s)) /\ (~c.bcast_active => Over(q, Going(u, s), Len(q) + 1))
      /\ s.steady => Steady(c, q, u, s)
      /\ s.steady /\ c.flags = {} => OnTheGrid(c, q, u, s, p, loop, ok)
      /\ c \in Channels /\ q \in Seq(Blocks) /\ u \in Encoders /\ s \in Servers /\ Len(q) \in Nat
      /\ Going(u, s) \in BOOLEAN /\ (~u.need_header) \in BOOLEAN
  BY ChannelParts, Zenon
<1>2. /\ Cardinality(AudioIn(r)) \in Nat /\ r \in Seq(Blocks) /\ Len(r) \in Nat /\ q # <<>>
      /\ Cardinality(AudioIn(q)) = Cardinality(AudioIn(r)) + 0
      /\ \A i \in 1 .. Len(r) : i + 1 \in 1 .. Len(q) /\ r[i] = q[i + 1]
  <2>1. q[1].kind # "audio"
    OBVIOUS
  <2>2. QED BY <2>1, PopCounts
<1>3. /\ w \in Encoders /\ w.pending = u.pending /\ w.need_header = u.need_header
      /\ w.header = u.header /\ w.m_enc = u.m_enc
  <2>1. ZeroGuid \in Guids
    BY DEF ZeroGuid, Guids
  <2>2. QED BY <1>1, <2>1 DEF Muted, Encoders
<1>4. ~Going(u, s)
  <2>1. FALSE \in BOOLEAN
    OBVIOUS
  <2>2. QED BY <1>1, <2>1, QuietPop
<1>5. /\ ~s.open /\ u.header = ZeroGuid /\ s.unfinished = 0
      /\ u.need_header \/ ~u.m_enc => u.pending = <<>>
  BY <1>1, <1>4 DEF Encoding
<1>6. ~Going(w, s) /\ Going(w, s) \in BOOLEAN
  BY <1>3, <1>5 DEF Going
<1>7. Encoding(w, s)
  BY <1>3, <1>5 DEF Encoding
<1>8. Counted(r, w, s)
  <2>1. s.got \in Nat /\ s.stray \in Nat /\ Len(u.pending) \in Nat /\ 0 \in Nat
    BY <1>1, ServerIs, EncoderIs
  <2>2. s.got + s.stray + Len(w.pending) = s.got + s.stray + Len(u.pending) + 0
    BY <1>3, <2>1
  <2>3. QED BY <1>1, <1>2, <1>3, <2>1, <2>2, CountedOn
<1>9. /\ Quiet(r, Going(w, s))
      /\ Over(q, Going(u, s), Len(q) + 1) => Over(r, Going(w, s), Len(r) + 1)
  BY <1>1, <1>6, QuietPop
<1>10. ASSUME s.steady PROVE Steady(c, r, w, s)
  <2>1. /\ \A i \in 1 .. Len(q) : q[i].kind = "audio" => q[i].as = c.flags
        /\ \A x \in s.holds : s.guid.tag = TagOf(x)
    BY <1>1, <1>10 DEF Steady
  <2>2. \A i \in 1 .. Len(r) : r[i].kind = "audio" => r[i].as = c.flags
    BY <1>2, <2>1
  <2>3. QED BY <1>6, <2>1, <2>2 DEF Steady
<1>11. ASSUME s.steady, c.flags = {} PROVE OnTheGrid(c, r, w, s, p, loop, ok)
  <2>1. /\ s.stray = 0 /\ Quiet(q, ~u.need_header)
        /\ ok /\ ~c.bcast_active => FallsSilent(q, ~u.need_header)
        /\ OneInterval(q, Going(u, s), u.guid.tag, loop)
    BY <1>1, <1>11, Zenon DEF OnTheGrid
  <2>2. u.need_header
    <3>1. FALSE \in BOOLEAN
      OBVIOUS
    <3>2. QED BY <1>1, <2>1, <3>1, QuietPop
  <2>3. w.need_header /\ (~w.need_header) \in BOOLEAN /\ ~(~w.need_header)
    BY <1>3, <2>2, EncoderIs
  <2>4. Quiet(r, ~w.need_header)
    BY <1>1, <2>1, <2>3, QuietPop
  <2>5. ASSUME FallsSilent(q, ~u.need_header) PROVE FallsSilent(r, ~w.need_header)
    BY <1>1, <2>1, <2>3, <2>5, SilencePop
  <2>6. OneInterval(r, Going(w, s), w.guid.tag, loop)
    <3>1. ASSUME NEW tag PROVE OneInterval(r, Going(w, s), tag, loop)
      BY <1>1, <1>6, <2>1, OneIntervalPop
    <3>2. QED BY <3>1
  <2>7. QED BY <2>1, <2>3, <2>4, <2>5, <2>6, Zenon DEF OnTheGrid
<1>12. ChannelTypeOK(c, r, w, s) /\ (p = 0 => r = <<>>)
  <2>1. p = 0 => q = <<>>
    BY Zenon DEF ChannelInv
  <2>2. QED BY <1>1, <1>2, <1>3, <2>1 DEF ChannelTypeOK
<1>13. QED BY <1>1, <1>7, <1>8, <1>9, <1>10, <1>11, <1>12, Zenon DEF ChannelInv

-----------------------------------------------------------------------------
(* The UI: a channel that changes, goes, or loses its connection.          *)
LEMMA EmptyHolds ==
  ASSUME NEW c \in Channels, NEW u \in Encoders, NEW s \in Servers, NEW p, NEW loop, NEW ok \in BOOLEAN,
         u.pending = <<>>, u.header = ZeroGuid, ~s.open, s.holds = {}, s.stray = 0, s.got = 0,
         s.unfinished = 0, s.recorded = s.dropped, u.need_header \/ p = 0,
         ok /\ ~c.bcast_active /\ c.flags = {} /\ s.steady => u.need_header
  PROVE  ChannelInv(c, <<>>, u, s, p, loop, ok)
<1>1. /\ <<>> \in Seq(Blocks) /\ Len(<<>>) = 0 /\ 1 .. 0 = {} /\ 0 + 1 .. 0 = {}
  OBVIOUS
<1>2. ~Going(u, s) /\ Going(u, s) \in BOOLEAN
  BY DEF Going
<1>3. ASSUME NEW w \in BOOLEAN PROVE Quiet(<<>>, w)
  BY <1>1 DEF Quiet
<1>4. ASSUME NEW w \in BOOLEAN, ~w, NEW tag
      PROVE  /\ Over(<<>>, w, Len(<<>>) + 1) /\ FallsSilent(<<>>, w)
             /\ OneInterval(<<>>, w, tag, loop)
  <2>1. ASSUME NEW k \in 0 .. 0 PROVE ~Live(<<>>, w, k)
    BY <1>4 DEF Live
  <2>2. Over(<<>>, w, Len(<<>>) + 1)
    BY <1>1, <2>1 DEF Over
  <2>3. FallsSilent(<<>>, w)
    BY <1>1, <2>1 DEF FallsSilent
  <2>4. OneInterval(<<>>, w, tag, loop)
    BY <1>1, <2>1 DEF OneInterval
  <2>5. QED BY <2>2, <2>3, <2>4
<1>5. ChannelTypeOK(c, <<>>, u, s) /\ Encoding(u, s)
  BY <1>1, <1>2 DEF ChannelTypeOK, Encoding
<1>6. Counted(<<>>, u, s)
  <2>1. s.dropped \in Nat
    BY ServerIs
  <2>2. QED BY <1>1, <2>1, CountEmpty DEF Counted
<1>7. Steady(c, <<>>, u, s)
  BY <1>1, <1>2 DEF Steady
<1>8. ASSUME s.steady, c.flags = {} PROVE OnTheGrid(c, <<>>, u, s, p, loop, ok)
  <2>1. (~u.need_header) \in BOOLEAN
    BY EncoderIs
  <2>2. Quiet(<<>>, ~u.need_header)
    BY <1>3, <2>1
  <2>3. ok /\ ~c.bcast_active => FallsSilent(<<>>, ~u.need_header)
    <3>1. ASSUME NEW w \in BOOLEAN, ~w PROVE FallsSilent(<<>>, w)
      BY <1>4, <3>1
    <3>2. QED BY <1>8, <2>1, <3>1
  <2>4. OneInterval(<<>>, Going(u, s), u.guid.tag, loop)
    BY <1>2, <1>4
  <2>5. ~u.need_header => EndsFirst(<<>>, p)
    BY <1>1 DEF EndsFirst
  <2>6. QED BY <2>2, <2>3, <2>4, <2>5 DEF OnTheGrid
<1>9. Quiet(<<>>, Going(u, s)) /\ Over(<<>>, Going(u, s), Len(<<>>) + 1)
  BY <1>2, <1>3, <1>4
<1>10. QED BY <1>5, <1>6, <1>7, <1>8, <1>9, Zenon DEF ChannelInv

LEMMA NewIs ==
  /\ NewChannel \in Channels /\ NewChannel.flags = {} /\ NewUpload \in Encoders /\ NothingSent \in Servers
  /\ ZeroGuid \in Guids
<1>1. ZeroGuid \in Guids
  BY DEF ZeroGuid, Guids
<1>2. NewChannel \in Channels /\ NewChannel.flags = {}
  BY DEF NewChannel, Channels, Flags
<1>3. <<>> \in Seq(Pieces)
  OBVIOUS
<1>4. NewUpload \in Encoders
  BY <1>1, <1>3 DEF NewUpload, Encoders
<1>5. NothingSent \in Servers
  BY <1>1 DEF NothingSent, Servers
<1>6. QED BY <1>1, <1>2, <1>4, <1>5

LEMMA LostIs ==
  ASSUME NEW s \in Servers
  PROVE  /\ Lost(s) \in Servers /\ ~Lost(s).open /\ Lost(s).holds = {} /\ Lost(s).stray = 0
         /\ Lost(s).got = 0 /\ Lost(s).unfinished = 0 /\ Lost(s).recorded = Lost(s).dropped
         /\ Lost(s).steady = s.steady
<1>2. s.recorded \in Nat /\ s.steady \in BOOLEAN
  BY ServerIs
<1>3. /\ NothingSent \in Servers /\ ~NothingSent.open /\ NothingSent.holds = {}
      /\ NothingSent.stray = 0 /\ NothingSent.got = 0 /\ NothingSent.unfinished = 0
  BY NewIs DEF NothingSent
<1>4. QED BY <1>2, <1>3 DEF Lost, Servers

LEMMA ReleasedHolds ==
  ASSUME NEW c, NEW q, NEW u, NEW s, NEW p, NEW loop \in Nat, ChannelInv(c, q, u, s, p, loop, TRUE),
         NEW ok \in BOOLEAN, ok => ~Marked(q)
  PROVE  ChannelInv(c, <<>>, Released(u), Lost(s), 0, loop, ok)
<1>1. /\ c \in Channels /\ q \in Seq(Blocks) /\ u \in Encoders /\ s \in Servers /\ Len(q) \in Nat
      /\ s.steady /\ c.flags = {} => OnTheGrid(c, q, u, s, p, loop, TRUE)
  BY ChannelParts, Zenon
<1>2. ZeroGuid \in Guids /\ <<>> \in Seq(Pieces)
  BY DEF ZeroGuid, Guids
<1>3. /\ Released(u) \in Encoders /\ Released(u).pending = <<>> /\ Released(u).header = ZeroGuid
      /\ Released(u).need_header = u.need_header
  BY <1>1, <1>2 DEF Released, Encoders
<1>4. /\ Lost(s) \in Servers /\ ~Lost(s).open /\ Lost(s).holds = {} /\ Lost(s).stray = 0
      /\ Lost(s).got = 0 /\ Lost(s).unfinished = 0 /\ Lost(s).recorded = Lost(s).dropped
      /\ Lost(s).steady = s.steady
  BY <1>1, LostIs
<1>5. ASSUME ok, ~c.bcast_active, c.flags = {}, s.steady PROVE u.need_header
  <2>1. FallsSilent(q, ~u.need_header)
    BY <1>1, <1>5, Zenon DEF OnTheGrid
  <2>2. SUFFICES ASSUME ~u.need_header PROVE FALSE
    OBVIOUS
  <2>3. Live(q, ~u.need_header, 0)
    BY <2>2 DEF Live
  <2>4. PICK j \in 0 + 1 .. Len(q) : q[j].kind = "silence"
    BY <1>1, <2>1, <2>3 DEF FallsSilent
  <2>5. j \in DOMAIN q /\ q[j] \in Blocks
    BY <1>1, ElementOfSeq
  <2>6. q[j] = SILENCE
    BY <2>4, <2>5, KindsOfBlocks
  <2>7. QED BY <1>5, <2>5, <2>6 DEF Marked
<1> DEFINE w == Released(u)
<1> DEFINE t == Lost(s)
<1>6. ok /\ ~c.bcast_active /\ c.flags = {} /\ t.steady => w.need_header
  BY <1>3, <1>4, <1>5
<1> HIDE DEF w, t
<1>7. ChannelInv(c, <<>>, w, t, 0, loop, ok)
  <2>1. /\ w \in Encoders /\ w.pending = <<>> /\ w.header = ZeroGuid
        /\ t \in Servers /\ ~t.open /\ t.holds = {} /\ t.stray = 0
        /\ t.got = 0 /\ t.unfinished = 0 /\ t.recorded = t.dropped
    BY <1>3, <1>4 DEF w, t
  <2>2. QED BY <1>1, <1>6, <2>1, EmptyHolds
<1>8. QED BY <1>7 DEF w, t

LEMMA ChangeHolds ==
  ASSUME NEW c, NEW q, NEW u, NEW s, NEW p, NEW loop \in Nat, NEW ok \in BOOLEAN,
         ChannelInv(c, q, u, s, p, loop, ok),
         NEW d \in Channels, d.bcast_active = c.bcast_active, NEW t \in Servers,
         t.guid = s.guid, t.open = s.open, t.holds = s.holds, t.got = s.got, t.stray = s.stray,
         t.unfinished = s.unfinished, t.recorded = s.recorded, t.dropped = s.dropped,
         t.steady => s.steady /\ d.flags = c.flags
  PROVE  ChannelInv(d, q, u, t, p, loop, ok)
<1>1. /\ ChannelTypeOK(c, q, u, s) /\ Encoding(u, s) /\ Counted(q, u, s)
      /\ Quiet(q, Going(u, s)) /\ (~c.bcast_active => Over(q, Going(u, s), Len(q) + 1))
      /\ s.steady => Steady(c, q, u, s)
      /\ s.steady /\ c.flags = {} => OnTheGrid(c, q, u, s, p, loop, ok)
      /\ c \in Channels /\ q \in Seq(Blocks) /\ u \in Encoders /\ s \in Servers /\ Len(q) \in Nat
      /\ Going(u, s) \in BOOLEAN /\ (~u.need_header) \in BOOLEAN
  BY ChannelParts, Zenon
<1>2. Going(u, t) = Going(u, s)
  BY DEF Going
<1>3. ChannelTypeOK(d, q, u, t) /\ Encoding(u, t) /\ Counted(q, u, t)
  BY <1>1, <1>2 DEF ChannelTypeOK, Encoding, Counted
<1>4. t.steady => Steady(d, q, u, t)
  BY <1>1, <1>2 DEF Steady
<1>5. t.steady /\ d.flags = {} => OnTheGrid(d, q, u, t, p, loop, ok)
  BY <1>1, <1>2 DEF OnTheGrid
<1>6. p = 0 => q = <<>>
  BY Zenon DEF ChannelInv
<1>7. Quiet(q, Going(u, t)) /\ (~d.bcast_active => Over(q, Going(u, t), Len(q) + 1))
  BY <1>1, <1>2
<1>8. QED BY <1>3, <1>4, <1>5, <1>6, <1>7, Zenon DEF ChannelInv

-----------------------------------------------------------------------------
(* The steps.                                                              *)
LEMMA UploadStarts == Init => UploadInv
<1>1. SUFFICES ASSUME Init PROVE UploadInv
  OBVIOUS
<1>2. NumLocal \in Nat /\ LocalModes \subseteq Flags
  BY UploadAssumption DEF Flags
<1>3. /\ conn = "on" /\ loopcnt \in Nat /\ pos \in Nat /\ run \in 0 .. NumLocal
      /\ DOMAIN lc = Local /\ DOMAIN bq = Local /\ DOMAIN up = Local /\ DOMAIN server = Local
  BY <1>1, <1>2 DEF Init, NotRunning
<1>4. ASSUME NEW ch \in Local
      PROVE  ChannelInv(lc[ch], bq[ch], up[ch], server[ch], pos, loopcnt, conn # "crashed")
  <2>1. PICK f \in [Local -> LocalModes] : lc = [l \in Local |-> [NewChannel EXCEPT !.flags = f[l]]]
    BY <1>1 DEF Init
  <2>2. lc[ch] \in Channels
    <3>1. f[ch] \in Flags /\ lc[ch] = [NewChannel EXCEPT !.flags = f[ch]]
      BY <1>2, <2>1
    <3>2. QED BY <3>1, NewIs DEF Channels
  <2>3. bq[ch] = <<>> /\ up[ch] = NewUpload /\ server[ch] = NothingSent
    BY <1>1 DEF Init
  <2>4. /\ NewUpload.pending = <<>> /\ NewUpload.header = ZeroGuid /\ NewUpload.need_header
        /\ ~NothingSent.open /\ NothingSent.holds = {} /\ NothingSent.stray = 0 /\ NothingSent.got = 0
        /\ NothingSent.unfinished = 0 /\ NothingSent.recorded = NothingSent.dropped
    BY DEF NewUpload, NothingSent
  <2>5. (conn # "crashed") \in BOOLEAN
    OBVIOUS
  <2> DEFINE ok == conn # "crashed"
  <2> DEFINE u == NewUpload
  <2> DEFINE s == NothingSent
  <2>6. u \in Encoders /\ s \in Servers /\ ok \in BOOLEAN
    BY NewIs
  <2>7. /\ u.pending = <<>> /\ u.header = ZeroGuid /\ u.need_header
        /\ ~s.open /\ s.holds = {} /\ s.stray = 0 /\ s.got = 0 /\ s.unfinished = 0
        /\ s.recorded = s.dropped
    BY <2>4
  <2> HIDE DEF ok, u, s
  <2>8. ChannelInv(lc[ch], <<>>, u, s, pos, loopcnt, ok)
    BY <2>2, <2>6, <2>7, EmptyHolds
  <2>9. QED BY <2>3, <2>8 DEF ok, u, s
<1>5. QED BY <1>3, <1>4 DEF UploadInv

(* A step of Run changes one channel's queue, upload and server.           *)
LEMMA RunHolds ==
  ASSUME UploadInv, run \in Local, NEW r, NEW w, NEW t,
         bq' = [bq EXCEPT ![run] = r], up' = [up EXCEPT ![run] = w],
         server'[run] = t, DOMAIN server' = Local, \A ch \in Local : ch # run => server'[ch] = server[ch],
         UNCHANGED <<shared, run, lc>>,
         ChannelInv(lc[run], r, w, t, pos, loopcnt, conn # "crashed")
  PROVE  UploadInv'
<1>1. /\ loopcnt \in Nat /\ pos \in Nat /\ run \in 0 .. NumLocal
      /\ DOMAIN lc = Local /\ DOMAIN bq = Local /\ DOMAIN up = Local /\ DOMAIN server = Local
      /\ \A ch \in Local :
           ChannelInv(lc[ch], bq[ch], up[ch], server[ch], pos, loopcnt, conn # "crashed")
  BY DEF UploadInv
<1>2. conn' = conn /\ loopcnt' = loopcnt /\ pos' = pos /\ run' = run /\ lc' = lc
  BY DEF shared
<1>3. DOMAIN bq' = Local /\ DOMAIN up' = Local /\ DOMAIN server' = Local
  BY <1>1
<1>4. ASSUME NEW ch \in Local
      PROVE  ChannelInv(lc'[ch], bq'[ch], up'[ch], server'[ch], pos', loopcnt', conn' # "crashed")
  <2>1. CASE ch = run
    <3>1. bq'[ch] = r /\ up'[ch] = w /\ server'[ch] = t
      BY <1>1, <2>1
    <3>2. QED BY <1>2, <2>1, <3>1, Zenon
  <2>2. CASE ch # run
    <3>1. bq'[ch] = bq[ch] /\ up'[ch] = up[ch] /\ server'[ch] = server[ch]
      BY <1>1, <2>2
    <3>2. QED BY <1>1, <1>2, <3>1, Zenon
  <2>3. QED BY <2>1, <2>2
<1>5. QED BY <1>1, <1>2, <1>3, <1>4 DEF UploadInv

LEMMA EncodeParts ==
  ASSUME UploadInv, NEW kind, TakeBlock(kind)
  PROVE  /\ run \in Local /\ UNCHANGED <<shared, run, lc>>
         /\ bq[run] \in Seq(Blocks) /\ Popped(bq[run], Tail(bq[run])) /\ bq[run][1].kind = kind
         /\ Head(bq[run]) = bq[run][1] /\ bq[run][1] \in Blocks
         /\ bq' = [bq EXCEPT ![run] = Tail(bq[run])]
         /\ ChannelInv(lc[run], bq[run], up[run], server[run], pos, loopcnt, conn # "crashed")
         /\ loopcnt \in Nat /\ (conn # "crashed") \in BOOLEAN /\ up[run] \in Encoders
<1>1. /\ run # NotRunning /\ bq[run] # <<>> /\ Head(bq[run]).kind = kind
      /\ bq' = [bq EXCEPT ![run] = Tail(bq[run])] /\ UNCHANGED <<shared, run, lc>>
  BY DEF TakeBlock
<1>2. run \in Local
  BY <1>1, UploadAssumption DEF UploadInv, NotRunning, Local
<1>3. /\ ChannelInv(lc[run], bq[run], up[run], server[run], pos, loopcnt, conn # "crashed")
      /\ loopcnt \in Nat /\ (conn # "crashed") \in BOOLEAN
  BY <1>2 DEF UploadInv
<1>4. bq[run] \in Seq(Blocks) /\ up[run] \in Encoders
  BY <1>3, ChannelParts
<1>5. Popped(bq[run], Tail(bq[run])) /\ Head(bq[run]) = bq[run][1] /\ Head(bq[run]) \in Blocks
  BY <1>1, <1>4, PopIs
<1>6. QED BY <1>1, <1>2, <1>3, <1>4, <1>5

LEMMA EncodeAudioHolds == UploadInv /\ EncodeAudio => UploadInv'
<1>1. SUFFICES ASSUME UploadInv, EncodeAudio PROVE UploadInv'
  OBVIOUS
<1> DEFINE q == bq[run]
<1> DEFINE b == bq[run][1]
<1> DEFINE c == lc[run]
<1> DEFINE u == up[run]
<1> DEFINE s == server[run]
<1> DEFINE ok == conn # "crashed"
<1>2. /\ run \in Local /\ UNCHANGED <<shared, run, lc>>
      /\ q \in Seq(Blocks) /\ Popped(q, Tail(q)) /\ b.kind = "audio"
      /\ Head(q) = b /\ b \in Blocks
      /\ bq' = [bq EXCEPT ![run] = Tail(q)]
      /\ ChannelInv(c, q, u, s, pos, loopcnt, ok)
      /\ loopcnt \in Nat /\ ok \in BOOLEAN /\ u \in Encoders
  BY <1>1, EncodeParts DEF EncodeAudio
<1> DEFINE v == NewHeader(u, c.flags, b)
<1> DEFINE e == Append(v.pending, PieceOf(b))
<1>3. PICK ready \in 0 .. Len(e) :
        /\ up' = [up EXCEPT ![run] =
                   [v EXCEPT !.m_enc = TRUE, !.pending = SubSeq(e, ready + 1, Len(e)),
                             !.header = IF ready > 0 THEN ZeroGuid ELSE @]]
        /\ server' = IF ready = 0 THEN server
                     ELSE [server EXCEPT ![run] = SendWrite(s, v, SubSeq(e, 1, ready))]
  BY <1>1, <1>2 DEF EncodeAudio, PieceOf
<1> DEFINE w == [v EXCEPT !.m_enc = TRUE, !.pending = SubSeq(e, ready + 1, Len(e)),
                          !.header = IF ready > 0 THEN ZeroGuid ELSE @]
<1> DEFINE t == IF ready = 0 THEN s ELSE SendWrite(s, v, SubSeq(e, 1, ready))
<1>4. Headed(u, c.flags, b, v) /\ Coded(v, b, ready, w) /\ Arrived(s, v, b, ready, t)
  BY DEF Headed, Coded, Arrived, Given
<1>5. up' = [up EXCEPT ![run] = w]
  BY <1>3
<1>6. /\ server'[run] = t /\ DOMAIN server' = Local
      /\ \A ch \in Local : ch # run => server'[ch] = server[ch]
  <2>1. DOMAIN server = Local
    BY <1>1 DEF UploadInv
  <2>2. QED BY <1>2, <1>3, <2>1
<1>7. v.pending \in Seq(Pieces)
  <2>1. v.pending = u.pending
    BY DEF NewHeader
  <2>2. QED BY <1>2, <2>1, EncoderIs
<1>8. ready \in Nat /\ ready <= Len(v.pending) + 1
  <2>1. PieceOf(b) \in Pieces
    BY <1>2, KindsOfBlocks DEF PieceOf, Pieces
  <2>2. Len(e) = Len(v.pending) + 1
    BY <1>7, <2>1, AppendProperties
  <2>3. Len(v.pending) \in Nat
    BY <1>7
  <2>4. QED BY <1>3, <2>2, <2>3
<1> HIDE DEF v, e, w, t, q, b, c, u, s, ok
<1>9. ChannelInv(c, Tail(q), w, t, pos, loopcnt, ok)
  <2>1. b = q[1]
    BY DEF b, q
  <2>2. q[1] \in Blocks /\ q[1].kind = "audio" /\ Headed(u, c.flags, q[1], v)
        /\ Coded(v, q[1], ready, w) /\ Arrived(s, v, q[1], ready, t)
    BY <1>2, <1>4, <2>1
  <2>3. QED BY <1>2, <1>8, <2>2, AudioHolds
<1>10. QED BY <1>1, <1>2, <1>5, <1>6, <1>9, RunHolds DEF q, c, ok

LEMMA EncodeEndHolds == UploadInv /\ EncodeEnd => UploadInv'
<1>1. SUFFICES ASSUME UploadInv, EncodeEnd PROVE UploadInv'
  OBVIOUS
<1> DEFINE q == bq[run]
<1> DEFINE c == lc[run]
<1> DEFINE u == up[run]
<1> DEFINE s == server[run]
<1> DEFINE ok == conn # "crashed"
<1>2. /\ run \in Local /\ UNCHANGED <<shared, run, lc>>
      /\ q \in Seq(Blocks) /\ Popped(q, Tail(q)) /\ q[1].kind = "end"
      /\ bq' = [bq EXCEPT ![run] = Tail(q)]
      /\ ChannelInv(c, q, u, s, pos, loopcnt, ok)
      /\ loopcnt \in Nat /\ ok \in BOOLEAN /\ u \in Encoders
  BY <1>1, EncodeParts DEF EncodeEnd
<1>3. PICK fresh \in BOOLEAN : up' = [up EXCEPT ![run] = Finish(u, fresh)]
  BY <1>1 DEF EncodeEnd
<1> DEFINE w == Finish(u, fresh)
<1> DEFINE t == IF ~SendsEnd(u) THEN s ELSE OnEnd(SendWrite(s, u, u.pending), u.guid)
<1>4. Finished(u, fresh, w) /\ Ended(s, u, t)
  BY DEF Finished, Ended
<1>5. up' = [up EXCEPT ![run] = w]
  BY <1>3
<1>6. /\ server'[run] = t /\ DOMAIN server' = Local
      /\ \A ch \in Local : ch # run => server'[ch] = server[ch]
  <2>1. DOMAIN server = Local
    BY <1>1 DEF UploadInv
  <2>2. server' = IF ~SendsEnd(u) THEN server
                  ELSE [server EXCEPT ![run] = OnEnd(SendWrite(s, u, u.pending), u.guid)]
    BY <1>1 DEF EncodeEnd
  <2>3. QED BY <1>2, <2>1, <2>2
<1> HIDE DEF w, t, q, c, u, s, ok
<1>7. ChannelInv(c, Tail(q), w, t, pos, loopcnt, ok)
  BY <1>2, <1>4, EndHolds
<1>8. QED BY <1>1, <1>2, <1>5, <1>6, <1>7, RunHolds DEF q, c, ok

LEMMA EncodeSilenceHolds == UploadInv /\ EncodeSilence => UploadInv'
<1>1. SUFFICES ASSUME UploadInv, EncodeSilence PROVE UploadInv'
  OBVIOUS
<1> DEFINE q == bq[run]
<1> DEFINE c == lc[run]
<1> DEFINE u == up[run]
<1> DEFINE s == server[run]
<1> DEFINE ok == conn # "crashed"
<1>2. /\ run \in Local /\ UNCHANGED <<shared, run, lc>>
      /\ q \in Seq(Blocks) /\ Popped(q, Tail(q)) /\ q[1].kind = "silence"
      /\ bq' = [bq EXCEPT ![run] = Tail(q)]
      /\ ChannelInv(c, q, u, s, pos, loopcnt, ok)
      /\ loopcnt \in Nat /\ ok \in BOOLEAN /\ u \in Encoders
  BY <1>1, EncodeParts DEF EncodeSilence
<1> DEFINE w == [u EXCEPT !.guid = ZeroGuid]
<1>3. Muted(u, w)
  BY DEF Muted
<1>4. DOMAIN up = Local /\ DOMAIN server = Local
  BY <1>1 DEF UploadInv
<1>5. up' = [up EXCEPT ![run] = w]
  BY <1>1, <1>2, <1>4 DEF EncodeSilence
<1>6. /\ server'[run] = s /\ DOMAIN server' = Local
      /\ \A ch \in Local : ch # run => server'[ch] = server[ch]
  BY <1>1, <1>2, <1>4 DEF EncodeSilence
<1> HIDE DEF w, q, c, u, s, ok
<1>7. ChannelInv(c, Tail(q), w, s, pos, loopcnt, ok)
  BY <1>2, <1>3, SilenceHolds
<1>8. QED BY <1>1, <1>2, <1>5, <1>6, <1>7, RunHolds DEF q, c, ok

(* What the audio thread does to all the channels at once.                 *)
LEMMA BoundaryStep == UploadInv /\ Boundary => UploadInv'
<1>1. SUFFICES ASSUME UploadInv, Boundary PROVE UploadInv'
  OBVIOUS
<1>2. /\ loopcnt \in Nat /\ pos \in Nat /\ run \in 0 .. NumLocal
      /\ DOMAIN lc = Local /\ DOMAIN bq = Local /\ DOMAIN up = Local /\ DOMAIN server = Local
  BY <1>1 DEF UploadInv
<1>3. /\ conn = "on" /\ conn' = conn /\ loopcnt' = loopcnt + 1 /\ pos' = 1
      /\ run' = run /\ up' = up /\ server' = server
  BY <1>1 DEF Boundary
<1>4. (conn # "crashed") = TRUE /\ (conn' # "crashed") = TRUE
  BY <1>3
<1>5. ASSUME NEW ch \in Local
      PROVE  ChannelInv(lc'[ch], bq'[ch], up'[ch], server'[ch], pos', loopcnt', conn' # "crashed")
  <2> DEFINE c == lc[ch]
  <2> DEFINE q == bq[ch]
  <2> DEFINE d == lc'[ch]
  <2> DEFINE r == bq'[ch]
  <2>1. ChannelInv(c, q, up[ch], server[ch], pos, loopcnt, TRUE)
    BY <1>1, <1>4 DEF UploadInv
  <2>2. d = (IF Interval(c) THEN [c EXCEPT !.bcast_active = c.broadcasting] ELSE c)
    BY <1>1 DEF Boundary
  <2>3. r = (IF Interval(c) THEN AddMark(q, Cut(c)) ELSE q)
    BY <1>1 DEF Boundary
  <2> HIDE DEF c, q, d, r
  <2>4. ChannelInv(d, r, up[ch], server[ch], 1, loopcnt + 1, TRUE)
    BY <1>2, <2>1, <2>2, <2>3, BoundaryHolds
  <2>5. QED BY <1>3, <1>4, <2>4 DEF d, r
<1>6. DOMAIN lc' = Local /\ DOMAIN bq' = Local
  BY <1>1 DEF Boundary
<1>7. QED BY <1>2, <1>3, <1>5, <1>6 DEF UploadInv

LEMMA SamplesStep ==
  ASSUME NEW long \in SUBSET Local, NEW playing \in BOOLEAN, NEW seek \in BOOLEAN
  PROVE  UploadInv /\ ProcessSamples(long, playing, seek) => UploadInv'
<1>1. SUFFICES ASSUME UploadInv, ProcessSamples(long, playing, seek) PROVE UploadInv'
  OBVIOUS
<1>2. /\ loopcnt \in Nat /\ pos \in Nat /\ run \in 0 .. NumLocal
      /\ DOMAIN lc = Local /\ DOMAIN bq = Local /\ DOMAIN up = Local /\ DOMAIN server = Local
  BY <1>1 DEF UploadInv
<1>3. /\ conn = "on" /\ pos > 0 /\ conn' = conn /\ loopcnt' = loopcnt /\ pos' = 2
      /\ run' = run /\ up' = up
  BY <1>1 DEF ProcessSamples
<1>4. (conn # "crashed") = TRUE /\ (conn' # "crashed") = TRUE /\ pos # 0
  BY <1>2, <1>3
<1>5. ASSUME NEW ch \in Local
      PROVE  ChannelInv(lc'[ch], bq'[ch], up'[ch], server'[ch], pos', loopcnt', conn' # "crashed")
  <2> DEFINE c == lc[ch]
  <2> DEFINE q == bq[ch]
  <2> DEFINE s == server[ch]
  <2> DEFINE far == ch \in long
  <2> DEFINE m == Marks(c, far, playing, seek)
  <2> DEFINE on == Broadcasts(c, far, playing, seek)
  <2> DEFINE a == AddMark(q, m)
  <2> DEFINE keep == on /\ Room(a)
  <2> DEFINE b == [kind |-> "audio", at |-> loopcnt, as |-> c.flags]
  <2> DEFINE d == lc'[ch]
  <2> DEFINE r == bq'[ch]
  <2> DEFINE t == server'[ch]
  <2>1. ChannelInv(c, q, up[ch], s, pos, loopcnt, TRUE)
    BY <1>1, <1>4 DEF UploadInv
  <2>2. c \in Channels /\ q \in Seq(Blocks)
    BY <2>1, ChannelParts
  <2>3. far \in BOOLEAN
    OBVIOUS
  <2>4. d = [c EXCEPT !.bcast_active = on,
                      !.curbuflen = IF on THEN 1 ELSE IF c.bcast_active \/ Interval(c) THEN 0 ELSE @]
    BY <1>1, Zenon DEF ProcessSamples
  <2>5. r = IF keep THEN Append(a, b) ELSE a
    BY <1>1, Zenon DEF ProcessSamples
  <2>6. t = IF ~on THEN s
            ELSE [s EXCEPT !.recorded = @ + 1, !.dropped = IF keep THEN @ ELSE @ + 1]
    BY <1>1, Zenon DEF ProcessSamples
  <2> HIDE DEF far, m, on, c
  <2>7. CutsOff(c, m, on)
    BY <1>2, <2>2, <2>3, SampleMarks DEF m, on
  <2>8. Joined(q, m, a) /\ on \in BOOLEAN
    BY <2>2, <2>7 DEF Joined, AddMark, CutsOff
  <2>9. keep \in BOOLEAN /\ (keep => on)
    BY <2>8
  <2>10. b \in Blocks /\ b.kind = "audio" /\ b.at = loopcnt /\ b.as = c.flags
    BY <1>2, <2>2 DEF Blocks, Channels
  <2>11. d \in Channels /\ d.flags = c.flags /\ d.bcast_active = on
    <3> DEFINE n == IF on THEN 1 ELSE IF c.bcast_active \/ Interval(c) THEN 0 ELSE c.curbuflen
    <3>1. n \in Nat /\ c.curbuflen \in Nat
      BY <2>2 DEF Channels
    <3>2. d = [c EXCEPT !.bcast_active = on, !.curbuflen = n]
      BY <2>4
    <3> HIDE DEF n, d
    <3>3. QED BY <2>2, <2>8, <3>1, <3>2 DEF Channels
  <2>12. Kept(a, keep, b, r) /\ Recorded(s, on, keep, t)
    BY <2>5, <2>6 DEF Kept, Recorded
  <2> HIDE DEF q, s, a, keep, b, d, r, t
  <2>13. ChannelInv(d, r, up[ch], t, 2, loopcnt, TRUE)
    <3>1. pos # 0 /\ pos \in Nat /\ loopcnt \in Nat
      BY <1>2, <1>4
    <3>2. Joined(q, m, a)
      BY <2>8
    <3>3. Sampled(c, q, up[ch], s, pos, loopcnt, m, on, a, keep, b, r, d, t)
      BY <2>1, <2>7, <2>9, <2>10, <2>11, <2>12, <3>1, <3>2 DEF Sampled
    <3>4. QED BY <3>3, SamplesHold
  <2>14. QED BY <1>3, <1>4, <2>13 DEF d, r, t
<1>6. DOMAIN lc' = Local /\ DOMAIN bq' = Local /\ DOMAIN server' = Local
  BY <1>1 DEF ProcessSamples
<1>7. QED BY <1>2, <1>3, <1>5, <1>6 DEF UploadInv

(* What the UI does.                                                       *)
LEMMA ChangeStep ==
  ASSUME NEW l \in Local, NEW broadcast \in BOOLEAN, NEW f \in LocalModes
  PROVE  UploadInv /\ SetLocalChannelInfo(l, broadcast, f) => UploadInv'
<1>1. SUFFICES ASSUME UploadInv, SetLocalChannelInfo(l, broadcast, f) PROVE UploadInv'
  OBVIOUS
<1>2. /\ loopcnt \in Nat /\ pos \in Nat /\ run \in 0 .. NumLocal
      /\ DOMAIN lc = Local /\ DOMAIN bq = Local /\ DOMAIN up = Local /\ DOMAIN server = Local
  BY <1>1 DEF UploadInv
<1>3. /\ conn' = conn /\ loopcnt' = loopcnt /\ pos' = pos /\ run' = run /\ bq' = bq /\ up' = up
      /\ lc' = [lc EXCEPT ![l].broadcasting = broadcast, ![l].flags = f]
      /\ server' = [server EXCEPT ![l].steady = @ /\ f = lc[l].flags]
  BY <1>1 DEF SetLocalChannelInfo, shared
<1>4. ASSUME NEW ch \in Local
      PROVE  ChannelInv(lc'[ch], bq'[ch], up'[ch], server'[ch], pos', loopcnt', conn' # "crashed")
  <2>1. ChannelInv(lc[ch], bq[ch], up[ch], server[ch], pos, loopcnt, conn # "crashed")
    BY <1>1 DEF UploadInv
  <2>2. CASE ch # l
    <3>1. lc'[ch] = lc[ch] /\ server'[ch] = server[ch]
      BY <1>2, <1>3, <2>2
    <3>2. QED BY <1>3, <2>1, <3>1, Zenon
  <2>3. CASE ch = l
    <3> DEFINE c == lc[ch]
    <3> DEFINE s == server[ch]
    <3> DEFINE d == lc'[ch]
    <3> DEFINE t == server'[ch]
    <3> DEFINE ok == conn # "crashed"
    <3>1. c \in Channels /\ s \in Servers /\ f \in Flags /\ ok \in BOOLEAN
      BY <2>1, ChannelParts, UploadAssumption DEF Flags
    <3>2. d = [c EXCEPT !.broadcasting = broadcast, !.flags = f]
      BY <1>2, <1>3, <2>3
    <3>3. t = [s EXCEPT !.steady = @ /\ f = c.flags]
      BY <1>2, <1>3, <2>3
    <3>4. d \in Channels /\ d.bcast_active = c.bcast_active /\ d.flags = f
      BY <3>1, <3>2 DEF Channels
    <3>5. (s.steady /\ f = c.flags) \in BOOLEAN
      BY <3>1, ServerIs
    <3> HIDE DEF c, s, d, t, ok
    <3>6. /\ t \in Servers /\ t.guid = s.guid /\ t.open = s.open /\ t.holds = s.holds /\ t.got = s.got
          /\ t.stray = s.stray /\ t.unfinished = s.unfinished /\ t.recorded = s.recorded
          /\ t.dropped = s.dropped
      BY <3>1, <3>3, <3>5 DEF Servers
    <3>7. t.steady => s.steady /\ f = c.flags
      BY <3>1, <3>3 DEF Servers
    <3>8. ChannelInv(d, bq[ch], up[ch], t, pos, loopcnt, ok)
      <4>1. ChannelInv(c, bq[ch], up[ch], s, pos, loopcnt, ok)
        BY <2>1 DEF c, s, ok
      <4>2. QED BY <1>2, <3>1, <3>4, <3>6, <3>7, <4>1, ChangeHolds
    <3>9. QED BY <1>3, <3>8 DEF d, t, ok
  <2>4. QED BY <2>2, <2>3
<1>5. DOMAIN lc' = Local /\ DOMAIN server' = Local
  BY <1>2, <1>3
<1>6. QED BY <1>2, <1>3, <1>4, <1>5 DEF UploadInv

LEMMA DeleteStep ==
  ASSUME NEW l \in Local
  PROVE  UploadInv /\ DeleteLocalChannel(l) => UploadInv'
<1>1. SUFFICES ASSUME UploadInv, DeleteLocalChannel(l) PROVE UploadInv'
  OBVIOUS
<1>2. /\ loopcnt \in Nat /\ pos \in Nat /\ run \in 0 .. NumLocal
      /\ DOMAIN lc = Local /\ DOMAIN bq = Local /\ DOMAIN up = Local /\ DOMAIN server = Local
  BY <1>1 DEF UploadInv
<1> DEFINE w == [NewUpload EXCEPT !.n = up[l].n]
<1> DEFINE t == [Lost(server[l]) EXCEPT !.steady = TRUE]
<1>3. /\ conn' = conn /\ loopcnt' = loopcnt /\ pos' = pos /\ run' = run
      /\ lc' = [lc EXCEPT ![l] = NewChannel] /\ bq' = [bq EXCEPT ![l] = <<>>]
      /\ up' = [up EXCEPT ![l] = w] /\ server' = [server EXCEPT ![l] = t]
  BY <1>1 DEF DeleteLocalChannel, shared
<1>4. ASSUME NEW ch \in Local
      PROVE  ChannelInv(lc'[ch], bq'[ch], up'[ch], server'[ch], pos', loopcnt', conn' # "crashed")
  <2>1. ChannelInv(lc[ch], bq[ch], up[ch], server[ch], pos, loopcnt, conn # "crashed")
    BY <1>1 DEF UploadInv
  <2>2. CASE ch # l
    <3>1. lc'[ch] = lc[ch] /\ bq'[ch] = bq[ch] /\ up'[ch] = up[ch] /\ server'[ch] = server[ch]
      BY <1>2, <1>3, <2>2
    <3>2. QED BY <1>3, <2>1, <3>1, Zenon
  <2>3. CASE ch = l
    <3>1. up[ch] \in Encoders /\ server[ch] \in Servers
      BY <2>1, ChannelParts
    <3>2. lc'[ch] = NewChannel /\ bq'[ch] = <<>> /\ up'[ch] = w /\ server'[ch] = t
      BY <1>2, <1>3, <2>3
    <3>3. /\ w \in Encoders /\ w.pending = <<>> /\ w.header = ZeroGuid /\ w.need_header
      <4>1. up[l].n \in Nat
        BY <2>3, <3>1, EncoderIs
      <4>2. /\ NewUpload \in Encoders /\ NewUpload.pending = <<>> /\ NewUpload.header = ZeroGuid
            /\ NewUpload.need_header
        BY NewIs DEF NewUpload
      <4>3. QED BY <4>1, <4>2 DEF Encoders
    <3>4. /\ t \in Servers /\ ~t.open /\ t.holds = {} /\ t.stray = 0 /\ t.got = 0 /\ t.unfinished = 0
          /\ t.recorded = t.dropped
      BY <2>3, <3>1, LostIs DEF Servers
    <3> DEFINE ok == conn # "crashed"
    <3> DEFINE c == NewChannel
    <3>5. ok \in BOOLEAN /\ c \in Channels
      BY NewIs
    <3> HIDE DEF w, t, ok, c
    <3>6. ChannelInv(c, <<>>, w, t, pos, loopcnt, ok)
      BY <3>3, <3>4, <3>5, EmptyHolds
    <3>7. QED BY <1>3, <3>2, <3>6 DEF ok, c
  <2>4. QED BY <2>2, <2>3
<1>5. DOMAIN lc' = Local /\ DOMAIN bq' = Local /\ DOMAIN up' = Local /\ DOMAIN server' = Local
  BY <1>2, <1>3
<1>6. QED BY <1>2, <1>3, <1>4, <1>5 DEF UploadInv

LEMMA DisconnectStep == UploadInv /\ Disconnect => UploadInv'
<1>1. SUFFICES ASSUME UploadInv, Disconnect PROVE UploadInv'
  OBVIOUS
<1>2. /\ loopcnt \in Nat /\ pos \in Nat /\ run \in 0 .. NumLocal
      /\ DOMAIN lc = Local /\ DOMAIN bq = Local /\ DOMAIN up = Local /\ DOMAIN server = Local
  BY <1>1 DEF UploadInv
<1>3. /\ conn # "crashed" /\ pos' = 0 /\ loopcnt' = loopcnt /\ run' = run /\ lc' = lc
      /\ conn' = IF \E ch \in Local : Marked(bq[ch]) THEN "crashed" ELSE "off"
      /\ bq' = [ch \in Local |-> <<>>] /\ up' = [ch \in Local |-> Released(up[ch])]
      /\ server' = [ch \in Local |-> Lost(server[ch])]
  BY <1>1 DEF Disconnect
<1>4. (conn # "crashed") = TRUE
  BY <1>3
<1>5. ASSUME NEW ch \in Local
      PROVE  ChannelInv(lc'[ch], bq'[ch], up'[ch], server'[ch], pos', loopcnt', conn' # "crashed")
  <2>1. ChannelInv(lc[ch], bq[ch], up[ch], server[ch], pos, loopcnt, TRUE)
    BY <1>1, <1>4 DEF UploadInv
  <2> DEFINE ok == conn' # "crashed"
  <2>2. ok \in BOOLEAN /\ (ok => ~Marked(bq[ch]))
    BY <1>3
  <2> HIDE DEF ok
  <2>3. ChannelInv(lc[ch], <<>>, Released(up[ch]), Lost(server[ch]), 0, loopcnt, ok)
    BY <1>2, <2>1, <2>2, ReleasedHolds
  <2>4. QED BY <1>3, <2>3 DEF ok
<1>6. DOMAIN bq' = Local /\ DOMAIN up' = Local /\ DOMAIN server' = Local
  BY <1>3
<1>7. 0 \in Nat
  OBVIOUS
<1>8. QED BY <1>2, <1>3, <1>5, <1>6, <1>7 DEF UploadInv

(* The inductive invariant.                                                *)
LEMMA UploadSteps == UploadInv /\ [Next]_vars => UploadInv'
<1>1. SUFFICES ASSUME UploadInv, [Next]_vars PROVE UploadInv'
  OBVIOUS
<1>2. ASSUME UNCHANGED <<loopcnt, pos, lc, bq, up, server>>, run' \in 0 .. NumLocal,
             conn # "crashed", conn' # "crashed"
      PROVE  UploadInv'
  <2>1. (conn' # "crashed") = (conn # "crashed")
    BY <1>2
  <2>2. QED BY <1>1, <1>2, <2>1 DEF UploadInv
<1>3. CASE Boundary
  BY <1>1, <1>3, BoundaryStep
<1>4. CASE \E long \in SUBSET Local, playing, seek \in BOOLEAN : ProcessSamples(long, playing, seek)
  BY <1>1, <1>4, SamplesStep
<1>5. CASE RunStart
  <2>1. conn = "on" /\ conn' = conn /\ run' = 0 /\ UNCHANGED <<loopcnt, pos, lc, bq, up, server>>
    BY <1>5 DEF RunStart, shared
  <2>2. QED BY <1>2, <2>1, UploadAssumption
<1>6. CASE RunNextChannel
  <2>1. /\ conn' = conn /\ run # NumLocal /\ run' = run + 1
        /\ UNCHANGED <<loopcnt, pos, lc, bq, up, server>>
    BY <1>6 DEF RunNextChannel, shared, NotRunning
  <2>2. run' \in 0 .. NumLocal
    BY <1>1, <2>1, UploadAssumption DEF UploadInv
  <2>3. QED BY <1>1, <2>1, <2>2 DEF UploadInv
<1>7. CASE EncodeSilence
  BY <1>1, <1>7, EncodeSilenceHolds
<1>8. CASE EncodeAudio
  BY <1>1, <1>8, EncodeAudioHolds
<1>9. CASE EncodeEnd
  BY <1>1, <1>9, EncodeEndHolds
<1>10. CASE \E ch \in Local, broadcast \in BOOLEAN, f \in LocalModes : SetLocalChannelInfo(ch, broadcast, f)
  BY <1>1, <1>10, ChangeStep
<1>11. CASE \E ch \in Local : DeleteLocalChannel(ch)
  BY <1>1, <1>11, DeleteStep
<1>12. CASE ConnectionLost
  <2>1. /\ conn = "on" /\ conn' = "lost" /\ run' = run
        /\ UNCHANGED <<loopcnt, pos, lc, bq, up, server>>
    BY <1>12 DEF ConnectionLost
  <2>2. run' \in 0 .. NumLocal
    BY <1>1, <2>1 DEF UploadInv
  <2>3. QED BY <1>2, <2>1, <2>2
<1>13. CASE Disconnect
  BY <1>1, <1>13, DisconnectStep
<1>14. CASE Reconnect
  <2>1. /\ conn = "off" /\ conn' = "on" /\ run' = run
        /\ UNCHANGED <<loopcnt, pos, lc, bq, up, server>>
    BY <1>14 DEF Reconnect
  <2>2. run' \in 0 .. NumLocal
    BY <1>1, <2>1 DEF UploadInv
  <2>3. QED BY <1>2, <2>1, <2>2
<1>15. CASE UNCHANGED vars
  BY <1>1, <1>15 DEF UploadInv, vars
<1>16. QED BY <1>1, <1>3, <1>4, <1>5, <1>6, <1>7, <1>8, <1>9, <1>10, <1>11, <1>12, <1>13, <1>14, <1>15 DEF Next

LEMMA UploadInvMeans == UploadInv => UploadsWhole /\ TagNamesInterval
<1>1. SUFFICES ASSUME UploadInv PROVE UploadsWhole /\ TagNamesInterval
  OBVIOUS
<1>2. ASSUME NEW ch \in Local
      PROVE  /\ server[ch].unfinished = 0
             /\ Interval(lc[ch]) /\ server[ch].steady => server[ch].stray = 0
             /\ server[ch].recorded = server[ch].dropped + server[ch].got + server[ch].stray
                                      + Cardinality(AudioIn(bq[ch])) + Len(up[ch].pending)
             /\ server[ch].steady => \A a \in server[ch].holds : server[ch].guid.tag = TagOf(a)
  <2>1. ChannelInv(lc[ch], bq[ch], up[ch], server[ch], pos, loopcnt, conn # "crashed")
    BY <1>1 DEF UploadInv
  <2>2. Encoding(up[ch], server[ch]) /\ Counted(bq[ch], up[ch], server[ch])
        /\ (server[ch].steady => Steady(lc[ch], bq[ch], up[ch], server[ch]))
        /\ (server[ch].steady /\ lc[ch].flags = {} => server[ch].stray = 0)
    BY <2>1, Zenon DEF ChannelInv, OnTheGrid
  <2>3. QED BY <2>2 DEF Encoding, Counted, Steady, Interval
<1>3. QED BY <1>2 DEF UploadsWhole, TagNamesInterval, TagOf

(* The uploads, whatever the UI, the audio thread and Run do.              *)
LEMMA UploadInvHolds == Spec => []UploadInv
<1>1. Init => UploadInv
  BY UploadStarts
<1>2. UploadInv /\ [Next]_vars => UploadInv'
  BY UploadSteps
<1>3. QED BY <1>1, <1>2, PTL DEF Spec

(* No upload of a channel begins before the last one has ended, no audio   *)
(* of an interval-mode channel arrives without one, and every block that   *)
(* was recorded is accounted for (on_new_interval, process_samples, Run,   *)
(* BufferQueue), for any number of channels, boundaries and connections.   *)
THEOREM UploadsAreWhole == Spec => []UploadsWhole
<1>1. UploadInv => UploadsWhole
  BY UploadInvMeans
<1>2. QED BY <1>1, UploadInvHolds, PTL

(* The interval in the GUID of an upload (makeIntervalGuid) is the one all *)
(* of its audio was recorded in.                                           *)
THEOREM TagsNameIntervals == Spec => []TagNamesInterval
<1>1. UploadInv => TagNamesInterval
  BY UploadInvMeans
<1>2. QED BY <1>1, UploadInvHolds, PTL

(* The video of the camera, which shares the threads, does what LocalUpload*)
(* allows: each of its steps is one of LocalUpload or leaves it alone.     *)
LEMMA VideoStepUploads == VideoNext => [Next]_vars
<1>1. SUFFICES ASSUME VideoNext PROVE [Next]_vars
  OBVIOUS
<1>2. CASE VideoBoundary
  BY <1>2 DEF VideoBoundary, Next
<1>3. CASE AudioActive \/ AudioEnd \/ AudioDraw \/ AudioBegin \/ AudioMarker \/ AudioSetup \/ AudioClose
  BY <1>3 DEF AudioActive, AudioEnd, AudioDraw, AudioBegin, AudioMarker, AudioSetup, AudioClose
<1>4. CASE \E long \in SUBSET Local : VideoSamples(long)
  BY <1>4 DEF VideoSamples, Next
<1>5. CASE SetVideoChannel \/ AppCheck \/ AppDraw \/ AppBegin \/ AppSetup \/ StopVideoChannel
  BY <1>5 DEF SetVideoChannel, AppCheck, AppDraw, AppBegin, AppSetup, StopVideoChannel
<1>6. CASE (\E there \in BOOLEAN : SetVideoSPSPPS(there)) \/ FrameCheck \/ FrameQueue
  BY <1>6 DEF SetVideoSPSPPS, FrameCheck, FrameQueue
<1>7. CASE RunAudio \/ RunEnds
  BY <1>7 DEF RunAudio, RunEnds, Next
<1>8. CASE RunVideo
  BY <1>8 DEF RunVideo
<1>9. CASE Controls
  BY <1>9 DEF Controls, Next
<1>10. CASE Leave
  BY <1>10 DEF Leave, Next
<1>11. CASE \E ch \in Local : RemoveChannel(ch)
  BY <1>11 DEF RemoveChannel, Next
<1>12. QED BY <1>1, <1>2, <1>3, <1>4, <1>5, <1>6, <1>7, <1>8, <1>9, <1>10, <1>11, Zenon DEF VideoNext

(* The same of the uploads beside the camera's video, the specification the*)
(* runs check.                                                             *)
THEOREM UploadsBesideVideo == VideoSpec => [](UploadsWhole /\ TagNamesInterval)
<1>1. VideoInit => UploadInv
  BY UploadStarts DEF VideoInit
<1>2. UploadInv /\ [VideoNext]_vvars => UploadInv'
  <2>1. UNCHANGED vvars => UNCHANGED vars
    BY DEF vvars
  <2>2. QED BY <2>1, UploadSteps, VideoStepUploads
<1>3. UploadInv => UploadsWhole /\ TagNamesInterval
  BY UploadInvMeans
<1>4. QED BY <1>1, <1>2, <1>3, PTL DEF VideoSpec
-----------------------------------------------------------------------------
(***************************************************************************)
(* The video intervals that go out are whole (VideoFramed): in order while *)
(* the calls do not overlap, and with a flag that tells the truth when all *)
(* are done, however they raced; for any starts, stops, frames, setups and *)
(* boundaries.                                                             *)
(*                                                                         *)
(* For the flag, what has begun and ended of m_video_guid is known from    *)
(* whether a thread has yet to begin it; a begin that comes late, under an *)
(* older GUID, finds an interval open, and a boundary that closes meets no *)
(* app that opens.  For the order, the latest message is known from where  *)
(* the one busy thread is.                                                 *)
(***************************************************************************)

AudioAt == {"idle", "active", "end", "stop", "draw", "begin", "marker", "setup", "close"}
AppAt   == {"idle", "check", "draw", "begin", "setup"}

VideoTypes ==
  /\ vid \in [active : BOOLEAN, open : BOOLEAN, guid : Nat, sps : BOOLEAN]
  /\ audio \in [at : AudioAt, guid : Nat, past : BOOLEAN]
  /\ app \in [at : AppAt, guid : Nat, past : BOOLEAN]
  /\ camera \in {"idle", "frame"}
  /\ used \in [guids : Nat, starts : Nat, setups : Nat, frames : Nat]
  /\ used.guids = vid.guid /\ hurried \in BOOLEAN

(* A thread that has drawn g and has yet to begin it.                      *)
Pending(t, g) == t.at = "begin" /\ t.guid = g
Late(t, g)    == t.at = "begin" /\ t.guid # g
Awaited       == Pending(audio, vid.guid) \/ Pending(app, vid.guid)

(* What of the GUID has been queued.                                       *)
BoundsHold ==
  audio.at # "draw" /\ vid.guid # 0 =>
    bounds = IF Awaited THEN <<>>
             ELSE IF audio.at = "close" \/ ~vid.open THEN <<"begin", "end">> ELSE <<"begin">>

ThreadsHold ==
  /\ app.at # "idle" => vid.active
  /\ vid.guid = 0 => ~vid.open
  /\ audio.at = "begin" => audio.guid \in 1 .. vid.guid
  /\ app.at = "begin" => app.guid \in 1 .. vid.guid
  /\ audio.at = "begin" /\ app.at = "begin" => audio.guid # app.guid
  /\ audio.at \in {"stop", "close"} /\ app.at \in {"draw", "begin"} =>
       audio.at = "stop" /\ ~vid.open /\ ~Late(app, vid.guid)
  /\ audio.at = "close" => vid.open
  /\ Late(audio, vid.guid) \/ Late(app, vid.guid) => Awaited \/ vid.open

OpenInv == VideoTypes /\ BoundsHold /\ ThreadsHold

LEMMA OpenInitially == VideoInit => OpenInv
<1> SUFFICES ASSUME VideoInit PROVE OpenInv
  OBVIOUS
<1>1. /\ vid = [active |-> FALSE, open |-> FALSE, guid |-> 0, sps |-> FALSE]
      /\ audio = [at |-> "idle", guid |-> 0, past |-> FALSE] /\ app = audio /\ camera = "idle"
      /\ used = [guids |-> 0, starts |-> 0, setups |-> 0, frames |-> 0] /\ hurried = FALSE
  BY DEF VideoInit, Idle
<1>2. VideoTypes
  BY <1>1 DEF VideoTypes, AudioAt, AppAt
<1>3. ThreadsHold /\ BoundsHold
  BY <1>1 DEF ThreadsHold, BoundsHold, Late, Pending
<1>4. QED BY <1>2, <1>3 DEF OpenInv

LEMMA OneMore == ASSUME NEW S, NEW x \in S PROVE Append(<<>>, x) = <<x>>
<1>1. <<>> \in Seq(S) /\ Len(<<>>) = 0 /\ <<x>> \in Seq(S) /\ Len(<<x>>) = 1 /\ <<x>>[1] = x
  OBVIOUS
<1>2. Append(<<>>, x) \in Seq(S) /\ Len(Append(<<>>, x)) = 1 /\ Append(<<>>, x)[1] = x
  BY <1>1, AppendProperties
<1>3. QED BY <1>1, <1>2, SeqEqual

LEMMA TwoMore == ASSUME NEW S, NEW x \in S, NEW y \in S PROVE Append(<<x>>, y) = <<x, y>>
<1> DEFINE s == <<x>>
           t == <<x, y>>
<1>1. /\ s \in Seq(S) /\ Len(s) = 1 /\ s[1] = x
      /\ t \in Seq(S) /\ Len(t) = 2 /\ t[1] = x /\ t[2] = y
  OBVIOUS
<1> HIDE DEF s, t
<1>2. Append(s, y) \in Seq(S) /\ Len(Append(s, y)) = Len(s) + 1
  BY <1>1, AppendProperties
<1>3. Append(s, y)[1] = s[1]
  <2>1. 1 \in 1 .. Len(s)
    BY <1>1
  <2>2. QED BY <1>1, <2>1, AppendProperties
<1>4. Append(s, y)[Len(s) + 1] = y
  BY <1>1, AppendProperties
<1>5. Append(s, y)[1] = x /\ Append(s, y)[2] = y /\ Len(Append(s, y)) = 2
  BY <1>1, <1>2, <1>3, <1>4
<1>6. \A i \in 1 .. Len(t) : Append(s, y)[i] = t[i]
  BY <1>1, <1>5
<1>7. Append(s, y) = t
  BY <1>1, <1>2, <1>5, <1>6, SeqEqual
<1>8. QED BY <1>7 DEF s, t

LEMMA BeginEnd == Append(<<>>, "begin") = <<"begin">> /\ Append(<<"begin">>, "end") = <<"begin", "end">>
<1>1. "begin" \in {"begin", "end"} /\ "end" \in {"begin", "end"}
  OBVIOUS
<1>2. QED BY <1>1, OneMore, TwoMore

(* Steps that leave the video's fields alone.                              *)
LEMMA OpenStays ==
  ASSUME OpenInv, UNCHANGED <<vid, audio, app, bounds>>, used'.guids = used.guids,
         used' \in [guids : Nat, starts : Nat, setups : Nat, frames : Nat],
         camera' \in {"idle", "frame"}, hurried' \in BOOLEAN
  PROVE  OpenInv'
BY DEF OpenInv, VideoTypes, BoundsHold, ThreadsHold, Awaited, Pending, Late

LEMMA DrawIs ==
  ASSUME OpenInv, NEW g, g = used.guids + 1, vid' = [vid EXCEPT !.guid = g],
         used' = [used EXCEPT !.guids = g]
  PROVE  /\ g = vid.guid + 1 /\ g \in Nat /\ g # 0 /\ vid'.guid = g /\ used'.guids = g
         /\ vid' \in [active : BOOLEAN, open : BOOLEAN, guid : Nat, sps : BOOLEAN]
         /\ used' \in [guids : Nat, starts : Nat, setups : Nat, frames : Nat]
         /\ vid'.open = vid.open /\ vid'.active = vid.active
BY DEF OpenInv, VideoTypes

LEMMA AudioDrawOpen == ASSUME OpenInv, AudioDraw, hurried' \in BOOLEAN PROVE OpenInv'
<1> DEFINE g == used.guids + 1
<1>1. /\ vid' = [vid EXCEPT !.guid = g] /\ used' = [used EXCEPT !.guids = g]
      /\ audio' = [audio EXCEPT !.at = "begin", !.guid = g] /\ bounds' = <<>>
      /\ UNCHANGED <<app, camera>> /\ audio.at = "draw"
  BY DEF AudioDraw, DrawGuid
<1> HIDE DEF g
<1>2. /\ g = vid.guid + 1 /\ g \in Nat /\ g # 0 /\ vid'.guid = g /\ used'.guids = g
      /\ vid' \in [active : BOOLEAN, open : BOOLEAN, guid : Nat, sps : BOOLEAN]
      /\ used' \in [guids : Nat, starts : Nat, setups : Nat, frames : Nat]
      /\ vid'.open = vid.open /\ vid'.active = vid.active
  BY <1>1, DrawIs DEF g
<1>3. audio' \in [at : AudioAt, guid : Nat, past : BOOLEAN] /\ audio'.at = "begin" /\ audio'.guid = g
  BY <1>1, <1>2 DEF OpenInv, VideoTypes, AudioAt
<1>4. VideoTypes'
  BY <1>1, <1>2, <1>3 DEF OpenInv, VideoTypes
<1>5. Awaited'
  BY <1>2, <1>3 DEF Awaited, Pending
<1>6. BoundsHold'
  BY <1>1, <1>5 DEF BoundsHold
<1>7. ThreadsHold'
  BY <1>1, <1>2, <1>3, <1>5 DEF OpenInv, VideoTypes, ThreadsHold
<1>8. QED BY <1>4, <1>6, <1>7 DEF OpenInv

LEMMA AppDrawOpen == ASSUME OpenInv, AppDraw, hurried' \in BOOLEAN PROVE OpenInv'
<1> DEFINE g == used.guids + 1
<1>1. /\ vid' = [vid EXCEPT !.guid = g] /\ used' = [used EXCEPT !.guids = g]
      /\ app' = [app EXCEPT !.at = "begin", !.guid = g] /\ bounds' = <<>>
      /\ UNCHANGED <<audio, camera>> /\ app.at = "draw"
  BY DEF AppDraw, DrawGuid
<1> HIDE DEF g
<1>2. /\ g = vid.guid + 1 /\ g \in Nat /\ g # 0 /\ vid'.guid = g /\ used'.guids = g
      /\ vid' \in [active : BOOLEAN, open : BOOLEAN, guid : Nat, sps : BOOLEAN]
      /\ used' \in [guids : Nat, starts : Nat, setups : Nat, frames : Nat]
      /\ vid'.open = vid.open /\ vid'.active = vid.active
  BY <1>1, DrawIs DEF g
<1>3. app' \in [at : AppAt, guid : Nat, past : BOOLEAN] /\ app'.at = "begin" /\ app'.guid = g
  BY <1>1, <1>2 DEF OpenInv, VideoTypes, AppAt
<1>4. VideoTypes'
  BY <1>1, <1>2, <1>3 DEF OpenInv, VideoTypes
<1>5. Awaited'
  BY <1>2, <1>3 DEF Awaited, Pending
<1>6. BoundsHold'
  BY <1>1, <1>5 DEF BoundsHold
<1>7. ThreadsHold'
  BY <1>1, <1>2, <1>3, <1>5 DEF OpenInv, VideoTypes, ThreadsHold, Late
<1>8. QED BY <1>4, <1>6, <1>7 DEF OpenInv

LEMMA AudioBeginOpen == ASSUME OpenInv, AudioBegin, hurried' \in BOOLEAN PROVE OpenInv'
<1>1. /\ vid' = [vid EXCEPT !.open = TRUE] /\ audio' = [audio EXCEPT !.at = "marker"]
      /\ bounds' = IF audio.guid = vid.guid THEN Append(bounds, "begin") ELSE bounds
      /\ UNCHANGED <<app, camera, used>> /\ audio.at = "begin"
  BY DEF AudioBegin, Queue, Message
<1>2. /\ vid' \in [active : BOOLEAN, open : BOOLEAN, guid : Nat, sps : BOOLEAN]
      /\ vid'.open = TRUE /\ vid'.guid = vid.guid /\ vid'.active = vid.active
      /\ audio' \in [at : AudioAt, guid : Nat, past : BOOLEAN] /\ audio'.at = "marker"
  BY <1>1 DEF OpenInv, VideoTypes, AudioAt
<1>3. VideoTypes'
  BY <1>1, <1>2 DEF OpenInv, VideoTypes
<1>4. ThreadsHold'
  BY <1>1, <1>2 DEF OpenInv, VideoTypes, ThreadsHold
<1>5. BoundsHold'
  <2>1. CASE audio.guid = vid.guid
    <3>1. Awaited /\ ~Awaited'
      BY <1>1, <1>2, <2>1 DEF OpenInv, ThreadsHold, Awaited, Pending
    <3>2. vid.guid # 0
      BY <1>1, <2>1 DEF OpenInv, ThreadsHold
    <3>3. bounds = <<>>
      BY <1>1, <3>1, <3>2 DEF OpenInv, BoundsHold
    <3>4. bounds' = <<"begin">>
      BY <1>1, <2>1, <3>3, BeginEnd
    <3>5. QED BY <1>2, <3>1, <3>4 DEF BoundsHold
  <2>2. CASE audio.guid # vid.guid
    <3>1. Awaited' <=> Awaited
      BY <1>1, <1>2, <2>2 DEF Awaited, Pending
    <3>2. ~Awaited => vid.open
      BY <1>1, <2>2 DEF OpenInv, ThreadsHold, Late
    <3>3. QED BY <1>1, <1>2, <2>2, <3>1, <3>2 DEF OpenInv, BoundsHold
  <2>3. QED BY <2>1, <2>2
<1>6. QED BY <1>3, <1>4, <1>5 DEF OpenInv

LEMMA AppBeginOpen == ASSUME OpenInv, AppBegin, hurried' \in BOOLEAN PROVE OpenInv'
<1>1. /\ vid' = [vid EXCEPT !.open = TRUE] /\ app' = [app EXCEPT !.at = "setup"]
      /\ bounds' = IF app.guid = vid.guid THEN Append(bounds, "begin") ELSE bounds
      /\ UNCHANGED <<audio, camera, used>> /\ app.at = "begin"
  BY DEF AppBegin, Queue, Message
<1>2. /\ vid' \in [active : BOOLEAN, open : BOOLEAN, guid : Nat, sps : BOOLEAN]
      /\ vid'.open = TRUE /\ vid'.guid = vid.guid /\ vid'.active = vid.active
      /\ app' \in [at : AppAt, guid : Nat, past : BOOLEAN] /\ app'.at = "setup"
  BY <1>1 DEF OpenInv, VideoTypes, AppAt
<1>3. VideoTypes'
  BY <1>1, <1>2 DEF OpenInv, VideoTypes
<1>4. ThreadsHold'
  BY <1>1, <1>2 DEF OpenInv, VideoTypes, ThreadsHold
<1>5. audio.at # "close"
  BY <1>1 DEF OpenInv, ThreadsHold
<1>6. BoundsHold'
  <2>1. CASE app.guid = vid.guid
    <3>1. Awaited /\ ~Awaited'
      BY <1>1, <1>2, <2>1 DEF OpenInv, ThreadsHold, Awaited, Pending
    <3>2. vid.guid # 0
      BY <1>1, <2>1 DEF OpenInv, ThreadsHold
    <3>3. audio.at # "draw" => bounds = <<>>
      BY <1>1, <3>1, <3>2 DEF OpenInv, BoundsHold
    <3>4. audio.at # "draw" => bounds' = <<"begin">>
      BY <1>1, <2>1, <3>3, BeginEnd
    <3>5. QED BY <1>1, <1>2, <1>5, <3>1, <3>4 DEF BoundsHold
  <2>2. CASE app.guid # vid.guid
    <3>1. Awaited' <=> Awaited
      BY <1>1, <1>2, <2>2 DEF Awaited, Pending
    <3>2. ~Awaited => vid.open
      BY <1>1, <2>2 DEF OpenInv, ThreadsHold, Late
    <3>3. QED BY <1>1, <1>2, <2>2, <3>1, <3>2 DEF OpenInv, BoundsHold
  <2>3. QED BY <2>1, <2>2
<1>7. QED BY <1>3, <1>4, <1>6 DEF OpenInv

LEMMA AudioEndOpen == ASSUME OpenInv, AudioEnd, hurried' \in BOOLEAN PROVE OpenInv'
<1> DEFINE next == IF audio.at = "end" THEN "draw" ELSE IF vid.open THEN "close" ELSE "idle"
<1>1. /\ audio' = [audio EXCEPT !.at = next]
      /\ bounds' = IF vid.open THEN Append(bounds, "end") ELSE bounds
      /\ UNCHANGED <<vid, app, camera, used>> /\ audio.at \in {"end", "stop"}
  BY DEF AudioEnd, AfterEnd, Queue, Message, raw
<1>2. next \in {"draw", "close", "idle"}
  OBVIOUS
<1>3. audio' \in [at : AudioAt, guid : Nat, past : BOOLEAN] /\ audio'.at = next
  BY <1>1, <1>2 DEF OpenInv, VideoTypes, AudioAt
<1>4. VideoTypes'
  BY <1>1, <1>3 DEF OpenInv, VideoTypes
<1>5. /\ vid.open => vid.guid # 0
      /\ audio.at = "stop" /\ vid.open => app.at \notin {"draw", "begin"}
  BY DEF OpenInv, ThreadsHold
<1>6. ThreadsHold'
  BY <1>1, <1>3, <1>5 DEF OpenInv, ThreadsHold, Awaited, Pending, Late
<1>7. BoundsHold'
  <2>1. CASE audio.at = "end"
    BY <1>3, <2>1 DEF BoundsHold
  <2>2. CASE audio.at = "stop" /\ vid.open
    <3>1. ~Awaited /\ ~Awaited'
      BY <1>1, <1>3, <1>5, <2>2 DEF Awaited, Pending
    <3>2. bounds = <<"begin">>
      BY <1>5, <2>2, <3>1 DEF OpenInv, BoundsHold
    <3>3. bounds' = <<"begin", "end">>
      BY <1>1, <2>2, <3>2, BeginEnd
    <3>4. QED BY <1>3, <2>2, <3>1, <3>3 DEF BoundsHold
  <2>3. CASE audio.at = "stop" /\ ~vid.open
    <3>1. (Awaited' <=> Awaited) /\ bounds' = bounds
      BY <1>1, <1>3, <2>3 DEF Awaited, Pending
    <3>2. QED BY <1>1, <1>3, <2>3, <3>1 DEF OpenInv, BoundsHold
  <2>4. QED BY <1>1, <2>1, <2>2, <2>3
<1>8. QED BY <1>4, <1>6, <1>7 DEF OpenInv

LEMMA AudioCloseOpen == ASSUME OpenInv, AudioClose, hurried' \in BOOLEAN PROVE OpenInv'
<1>1. /\ vid' = [vid EXCEPT !.open = FALSE] /\ audio' = Idle
      /\ UNCHANGED <<app, camera, used, bounds>> /\ audio.at = "close"
  BY DEF AudioClose, raw
<1>2. /\ vid' \in [active : BOOLEAN, open : BOOLEAN, guid : Nat, sps : BOOLEAN]
      /\ vid'.open = FALSE /\ vid'.guid = vid.guid /\ vid'.active = vid.active
      /\ audio' \in [at : AudioAt, guid : Nat, past : BOOLEAN] /\ audio'.at = "idle"
  BY <1>1 DEF OpenInv, VideoTypes, AudioAt, Idle
<1>3. VideoTypes'
  BY <1>1, <1>2 DEF OpenInv, VideoTypes
<1>4. app.at \notin {"draw", "begin"}
  BY <1>1 DEF OpenInv, ThreadsHold
<1>5. ~Awaited /\ ~Awaited'
  BY <1>1, <1>2, <1>4 DEF Awaited, Pending
<1>6. ThreadsHold'
  BY <1>1, <1>2, <1>4 DEF OpenInv, ThreadsHold, Late
<1>7. BoundsHold'
  BY <1>1, <1>2, <1>5 DEF OpenInv, BoundsHold
<1>8. QED BY <1>3, <1>6, <1>7 DEF OpenInv

(* The audio thread between idle and the first of its steps, and after     *)
(* the begin: nothing of the intervals changes.                            *)
LEMMA AudioGoesOn ==
  ASSUME OpenInv, UNCHANGED <<vid, app, camera, used, bounds>>, hurried' \in BOOLEAN,
         audio' \in [at : AudioAt, guid : Nat, past : BOOLEAN],
         audio.at \notin {"draw", "begin", "close"}, audio'.at \in {"idle", "active", "end", "stop", "setup"},
         audio'.at = "stop" => ~vid.active
  PROVE  OpenInv'
<1>1. VideoTypes'
  BY DEF OpenInv, VideoTypes
<1>2. audio'.at = "stop" => app.at = "idle"
  BY DEF OpenInv, ThreadsHold
<1>3. ThreadsHold'
  BY <1>2 DEF OpenInv, ThreadsHold, Awaited, Pending, Late
<1>4. Awaited' <=> Awaited
  BY DEF Awaited, Pending
<1>5. BoundsHold'
  BY <1>4 DEF OpenInv, BoundsHold
<1>6. QED BY <1>1, <1>3, <1>5 DEF OpenInv

(* The app and the encoder, but for the draw and the begin.                *)
LEMMA AppGoesOn ==
  ASSUME OpenInv, UNCHANGED <<audio, camera, bounds>>, hurried' \in BOOLEAN,
         used' \in [guids : Nat, starts : Nat, setups : Nat, frames : Nat], used'.guids = used.guids,
         vid' \in [active : BOOLEAN, open : BOOLEAN, guid : Nat, sps : BOOLEAN],
         vid'.open = vid.open, vid'.guid = vid.guid,
         app' \in [at : AppAt, guid : Nat, past : BOOLEAN],
         app.at = "begin" \/ app'.at = "begin" => app' = app,
         app'.at = "draw" => app' = app \/ ~vid.open,
         app'.at # "idle" => vid'.active
  PROVE  OpenInv'
<1>1. VideoTypes'
  BY DEF OpenInv, VideoTypes
<1>2. Awaited' <=> Awaited
  BY DEF Awaited, Pending
<1>3. ThreadsHold'
  <2>1. (Late(app, vid.guid))' <=> Late(app, vid.guid)
    BY DEF Late
  <2>2. audio.at \in {"stop", "close"} /\ app'.at \in {"draw", "begin"} =>
          audio.at = "stop" /\ ~vid.open /\ ~Late(app, vid.guid)
    <3>1. CASE app' = app
      BY <3>1 DEF OpenInv, ThreadsHold
    <3>2. CASE app'.at = "draw" /\ app' # app
      BY <3>2 DEF OpenInv, ThreadsHold, Late
    <3>3. QED BY <3>1, <3>2
  <2>3. QED BY <1>2, <2>1, <2>2 DEF OpenInv, ThreadsHold, Late
<1>4. BoundsHold'
  BY <1>2 DEF OpenInv, BoundsHold
<1>5. QED BY <1>1, <1>3, <1>4 DEF OpenInv

LEMMA OpenSteps == ASSUME OpenInv, [VideoNext]_vvars PROVE OpenInv'
<1> USE DEF VideoTypes, OpenInv
<1>1. VideoNext => hurried' \in BOOLEAN
  BY DEF VideoNext
<1>2. CASE VideoNext /\ VideoBoundary
  <2>1. audio.at = "idle" /\ audio' = [Idle EXCEPT !.at = "active", !.past = (pos = 2)]
        /\ UNCHANGED <<vid, app, camera, used, bounds>>
    BY <1>2 DEF VideoBoundary, raw
  <2>2. audio' \in [at : AudioAt, guid : Nat, past : BOOLEAN] /\ audio'.at = "active"
    BY <2>1 DEF AudioAt, Idle
  <2>3. QED BY <1>1, <1>2, <2>1, <2>2, AudioGoesOn
<1>3. CASE VideoNext /\ AudioActive
  <2>1. audio.at = "active" /\ audio' = [audio EXCEPT !.at = IF vid.active THEN "end" ELSE "stop"]
        /\ UNCHANGED <<vid, app, camera, used, bounds>>
    BY <1>3 DEF AudioActive, raw
  <2>2. audio' \in [at : AudioAt, guid : Nat, past : BOOLEAN]
        /\ audio'.at = IF vid.active THEN "end" ELSE "stop"
    BY <2>1 DEF AudioAt
  <2>3. QED BY <1>1, <1>3, <2>1, <2>2, AudioGoesOn
<1>4. CASE VideoNext /\ AudioMarker
  <2>1. audio.at = "marker" /\ audio' = [audio EXCEPT !.at = "setup"]
        /\ UNCHANGED <<vid, app, camera, used, bounds>>
    BY <1>4 DEF AudioMarker, Queue
  <2>2. audio' \in [at : AudioAt, guid : Nat, past : BOOLEAN] /\ audio'.at = "setup"
    BY <2>1 DEF AudioAt
  <2>3. QED BY <1>1, <1>4, <2>1, <2>2, AudioGoesOn
<1>5. CASE VideoNext /\ AudioSetup
  <2>1. audio.at = "setup" /\ audio' = Idle /\ UNCHANGED <<vid, app, camera, used, bounds>>
    BY <1>5 DEF AudioSetup, Queue, Message, raw
  <2>2. audio' \in [at : AudioAt, guid : Nat, past : BOOLEAN] /\ audio'.at = "idle"
    BY <2>1 DEF AudioAt, Idle
  <2>3. QED BY <1>1, <1>5, <2>1, <2>2, AudioGoesOn
<1>6. CASE VideoNext /\ (AudioEnd \/ AudioDraw \/ AudioBegin \/ AudioClose \/ AppDraw \/ AppBegin)
  BY <1>1, <1>6, AudioEndOpen, AudioDrawOpen, AudioBeginOpen, AudioCloseOpen, AppDrawOpen, AppBeginOpen
<1>7. CASE VideoNext /\ SetVideoChannel
  <2>1. /\ app.at = "idle" /\ vid' = [vid EXCEPT !.active = TRUE]
        /\ used' = [used EXCEPT !.starts = used.starts + 1] /\ app' = [app EXCEPT !.at = "check"]
        /\ UNCHANGED <<audio, camera, bounds>>
    BY <1>7 DEF SetVideoChannel, raw
  <2>2. /\ app' \in [at : AppAt, guid : Nat, past : BOOLEAN] /\ app'.at = "check"
        /\ vid' \in [active : BOOLEAN, open : BOOLEAN, guid : Nat, sps : BOOLEAN]
        /\ vid'.active /\ vid'.open = vid.open /\ vid'.guid = vid.guid
        /\ used' \in [guids : Nat, starts : Nat, setups : Nat, frames : Nat] /\ used'.guids = used.guids
    <3>1. app' \in [at : AppAt, guid : Nat, past : BOOLEAN] /\ app'.at = "check"
      BY <2>1 DEF AppAt
    <3>2. /\ vid' \in [active : BOOLEAN, open : BOOLEAN, guid : Nat, sps : BOOLEAN]
          /\ vid'.active /\ vid'.open = vid.open /\ vid'.guid = vid.guid
      BY <2>1
    <3>3. used' \in [guids : Nat, starts : Nat, setups : Nat, frames : Nat] /\ used'.guids = used.guids
      BY <2>1
    <3>4. QED BY <3>1, <3>2, <3>3
  <2>3. /\ app.at = "begin" \/ app'.at = "begin" => app' = app
        /\ app'.at = "draw" => app' = app \/ ~vid.open
    BY <2>1, <2>2
  <2>4. QED BY <1>1, <1>7, <2>1, <2>2, <2>3, AppGoesOn
<1>8. CASE VideoNext /\ AppCheck
  <2>1. /\ app.at = "check" /\ app' = [app EXCEPT !.at = IF MayOpen(vid) THEN "draw" ELSE "idle"]
        /\ UNCHANGED <<vid, used, audio, camera, bounds>>
    BY <1>8 DEF AppCheck, raw
  <2>2. /\ app' \in [at : AppAt, guid : Nat, past : BOOLEAN]
        /\ app'.at = IF MayOpen(vid) THEN "draw" ELSE "idle"
    BY <2>1 DEF AppAt
  <2>3. MayOpen(vid) => ~vid.open
    BY DEF MayOpen
  <2>4. vid.active
    BY <2>1 DEF ThreadsHold
  <2>5. QED BY <1>1, <1>8, <2>1, <2>2, <2>3, <2>4, AppGoesOn
<1>9. CASE VideoNext /\ AppSetup
  <2>1. app.at = "setup" /\ app' = Idle /\ UNCHANGED <<vid, used, audio, camera, bounds>>
    BY <1>9 DEF AppSetup, Queue, Message
  <2>2. app' \in [at : AppAt, guid : Nat, past : BOOLEAN] /\ app'.at = "idle"
    BY <2>1 DEF AppAt, Idle
  <2>3. QED BY <1>1, <1>9, <2>1, <2>2, AppGoesOn
<1>10. CASE VideoNext /\ StopVideoChannel
  <2>1. app.at = "idle" /\ vid' = [vid EXCEPT !.active = FALSE] /\ UNCHANGED <<app, used, audio, camera, bounds>>
    BY <1>10 DEF StopVideoChannel, raw
  <2>2. /\ vid' \in [active : BOOLEAN, open : BOOLEAN, guid : Nat, sps : BOOLEAN]
        /\ vid'.open = vid.open /\ vid'.guid = vid.guid
    BY <2>1
  <2>3. QED BY <1>1, <1>10, <2>1, <2>2, AppGoesOn
<1>11. CASE VideoNext /\ \E there \in BOOLEAN : SetVideoSPSPPS(there)
  <2>1. PICK there \in BOOLEAN : SetVideoSPSPPS(there)
    BY <1>11
  <2>2. vid' = [vid EXCEPT !.sps = there] /\ used' = [used EXCEPT !.setups = used.setups + 1]
        /\ UNCHANGED <<app, audio, camera, bounds>>
    BY <2>1 DEF SetVideoSPSPPS, raw
  <2>3. /\ vid' \in [active : BOOLEAN, open : BOOLEAN, guid : Nat, sps : BOOLEAN]
        /\ vid'.open = vid.open /\ vid'.guid = vid.guid /\ vid'.active = vid.active
        /\ used' \in [guids : Nat, starts : Nat, setups : Nat, frames : Nat] /\ used'.guids = used.guids
    BY <2>2
  <2>4. app.at # "idle" => vid.active
    BY DEF ThreadsHold
  <2>5. QED BY <1>1, <1>11, <2>2, <2>3, <2>4, AppGoesOn
<1>12. CASE VideoNext /\ (FrameCheck \/ FrameQueue)
  <2>1. /\ UNCHANGED <<vid, audio, app, bounds>> /\ camera' \in {"idle", "frame"}
        /\ used' = used \/ used' = [used EXCEPT !.frames = used.frames + 1]
    BY <1>12 DEF FrameCheck, FrameQueue, Queue, Message, raw
  <2>2. /\ used' \in [guids : Nat, starts : Nat, setups : Nat, frames : Nat] /\ used'.guids = used.guids
    BY <2>1
  <2>3. QED BY <1>1, <1>12, <2>1, <2>2, OpenStays
<1>13. CASE VideoNext /\ \/ \E long \in SUBSET Local : VideoSamples(long)
                         \/ RunAudio \/ RunEnds \/ RunVideo \/ Controls \/ Leave
                         \/ \E ch \in Local : RemoveChannel(ch)
  <2>1. UNCHANGED <<vid, audio, app, bounds, camera, used>>
    BY <1>13 DEF VideoSamples, RunAudio, RunEnds, RunVideo, Drain, Controls, Leave, RemoveChannel, raw
  <2>2. QED BY <1>1, <1>13, <2>1, OpenStays
<1>14. CASE UNCHANGED vvars
  <2>1. UNCHANGED <<vid, audio, app, bounds, camera, used, hurried>>
    BY <1>14 DEF vvars, video, raw
  <2>2. QED BY <2>1, OpenStays
<1>15. QED BY <1>2, <1>3, <1>4, <1>5, <1>6, <1>7, <1>8, <1>9, <1>10, <1>11, <1>12, <1>13, <1>14
        DEF VideoNext

(* What is queued, after the last message sent: each message may follow the*)
(* one before, and the first of all is a begin.                            *)
Outgoing == wire \o sendq
Latest == IF Outgoing = <<>> THEN Message("end", 0) ELSE Outgoing[Len(Outgoing)]
Listed == \E S : wire \in Seq(S) /\ sendq \in Seq(S)
Chained(s) == \A i \in 2 .. Len(s) : MayFollow(s[i - 1], s[i])
FirstBegins == wire = <<>> /\ sendq # <<>> => sendq[1].kind = "begin"
Lined  == Listed /\ Chained(Outgoing) /\ FirstBegins

LEMMA ChainGrows ==
  ASSUME NEW S, NEW s \in Seq(S), NEW m \in S, Chained(s),
         s # <<>> => MayFollow(s[Len(s)], m)
  PROVE  /\ Chained(Append(s, m)) /\ Append(s, m) # <<>>
         /\ Append(s, m)[Len(Append(s, m))] = m
<1> DEFINE t == Append(s, m)
<1>1. /\ t \in Seq(S) /\ t # <<>> /\ Len(t) = Len(s) + 1 /\ Len(s) \in Nat
      /\ t[Len(s) + 1] = m
  BY AppendProperties, LenProperties
<1>2. \A i \in 1 .. Len(s) : t[i] = s[i]
  BY AppendProperties
<1> HIDE DEF t
<1>3. ASSUME NEW i \in 2 .. Len(t) PROVE MayFollow(t[i - 1], t[i])
  <2>1. i \in Nat /\ i - 1 \in 1 .. Len(s) /\ t[i - 1] = s[i - 1]
    BY <1>1, <1>2
  <2>2. CASE i <= Len(s)
    <3>1. i \in 2 .. Len(s) /\ t[i] = s[i]
      BY <1>1, <1>2, <2>1, <2>2
    <3>2. QED BY <2>1, <3>1 DEF Chained
  <2>3. CASE i = Len(s) + 1
    <3>1. s # <<>> /\ i - 1 = Len(s)
      BY <1>1, <2>1, <2>3, EmptySeq
    <3>2. QED BY <1>1, <2>1, <2>3, <3>1
  <2>4. QED BY <1>1, <2>1, <2>2, <2>3
<1>4. QED BY <1>1, <1>3 DEF Chained, t

LEMMA QueueKeeps ==
  ASSUME Lined, NEW m, Queue(m), MayFollow(Latest, m)
  PROVE  Lined' /\ Latest' = m
<1>1. PICK T : wire \in Seq(T) /\ sendq \in Seq(T)
  BY DEF Lined, Listed
<1> DEFINE S == T \union {m}
<1>2. wire \in Seq(S) /\ sendq \in Seq(S) /\ m \in S /\ Outgoing \in Seq(S)
  <2>1. wire \in Seq(S) /\ sendq \in Seq(S) /\ m \in S
    BY <1>1
  <2>2. QED BY <2>1, ConcatProperties DEF Outgoing
<1> HIDE DEF S
<1>3. sendq' = Append(sendq, m) /\ wire' = wire
  BY DEF Queue
<1>4. Listed'
  BY <1>2, <1>3, AppendProperties DEF Listed
<1>5. Outgoing' = Append(Outgoing, m)
  <2>1. Append(sendq, m) = sendq \o <<m>> /\ Append(Outgoing, m) = Outgoing \o <<m>> /\ <<m>> \in Seq(S)
    BY <1>2, AppendIsConcat
  <2>2. wire \o (sendq \o <<m>>) = (wire \o sendq) \o <<m>>
    BY <1>2, <2>1, ConcatAssociative
  <2>3. QED BY <1>3, <2>1, <2>2 DEF Outgoing
<1>6. Outgoing # <<>> => MayFollow(Outgoing[Len(Outgoing)], m)
  BY DEF Latest
<1>7. Chained(Append(Outgoing, m)) /\ Append(Outgoing, m) # <<>> /\ Append(Outgoing, m)[Len(Append(Outgoing, m))] = m
  BY <1>2, <1>6, ChainGrows DEF Lined
<1>8. Chained(Outgoing') /\ Latest' = m
  BY <1>5, <1>7 DEF Latest
<1>9. FirstBegins'
  <2>1. CASE sendq = <<>> /\ wire = <<>>
    <3>1. Outgoing = <<>>
      BY <1>2, <2>1, ConcatEmptySeq DEF Outgoing
    <3>2. m.kind = "begin"
      BY <3>1 DEF Latest, MayFollow, Message
    <3>3. sendq' = <<m>>
      BY <1>2, <1>3, <2>1, OneMore
    <3>4. sendq'[1] = m
      BY <3>3
    <3>5. QED BY <3>2, <3>4 DEF FirstBegins
  <2>2. CASE sendq # <<>>
    <3>1. 1 \in 1 .. Len(sendq)
      BY <1>2, <2>2, EmptySeq, LenProperties
    <3>2. sendq'[1] = sendq[1]
      BY <1>2, <1>3, <3>1, AppendProperties
    <3>3. QED BY <1>3, <2>2, <3>2 DEF Lined, FirstBegins
  <2>3. CASE wire # <<>>
    BY <1>3, <2>3 DEF FirstBegins
  <2>4. QED BY <2>1, <2>2, <2>3
<1>10. Chained(Outgoing)'
  BY <1>8 DEF Chained
<1>11. QED BY <1>4, <1>8, <1>9, <1>10 DEF Lined

LEMMA DrainKeeps == ASSUME Lined, Drain PROVE Lined' /\ Latest' = Latest
<1>1. PICK S : wire \in Seq(S) /\ sendq \in Seq(S)
  BY DEF Lined, Listed
<1>2. /\ wire' = IF sendq = <<>> THEN wire ELSE <<sendq[Len(sendq)]>>
      /\ sendq' = <<>>
  BY DEF Drain
<1>3. FirstBegins'
  BY <1>2 DEF FirstBegins
<1>4. CASE sendq = <<>>
  <2>1. UNCHANGED <<wire, sendq>>
    BY <1>2, <1>4
  <2>2. QED BY <2>1 DEF Lined, Listed, Chained, FirstBegins, Latest, Outgoing
<1>5. CASE sendq # <<>>
  <2> DEFINE x == sendq[Len(sendq)]
             n == Len(sendq)
  <2>1. n \in Nat /\ n >= 1 /\ n \in 1 .. Len(sendq) /\ x \in S
    BY <1>1, <1>5, EmptySeq, LenProperties, ElementOfSeq
  <2> HIDE DEF x, n
  <2>2. wire' = <<x>> /\ sendq' = <<>>
    BY <1>2, <1>5 DEF x
  <2>3. <<x>> \in Seq(S) /\ <<>> \in Seq(S) /\ Len(<<x>>) = 1 /\ <<x>>[1] = x /\ <<x>> # <<>>
    BY <2>1
  <2>4. Listed'
    BY <2>2, <2>3 DEF Listed
  <2>5. Outgoing' = <<x>>
    BY <2>2, <2>3, ConcatEmptySeq DEF Outgoing
  <2>6. Chained(Outgoing)'
    BY <2>3, <2>5 DEF Chained
  <2>7. Latest' = x
    BY <2>3, <2>5 DEF Latest
  <2>8. Latest = x
    <3>1. Outgoing \in Seq(S) /\ Len(Outgoing) = Len(wire) + n /\ Len(wire) \in Nat
      BY <1>1, ConcatProperties, LenProperties DEF Outgoing, n
    <3>2. Outgoing # <<>>
      BY <2>1, <3>1, EmptySeq
    <3>3. Outgoing[Len(wire) + n] = x
      BY <1>1, <2>1, <3>1, ConcatProperties DEF Outgoing, n, x
    <3>4. QED BY <3>1, <3>2, <3>3 DEF Latest
  <2>9. QED BY <1>3, <2>4, <2>6, <2>7, <2>8 DEF Lined
<1>6. QED BY <1>4, <1>5

(* Where the one busy thread is, and the latest message.                   *)
UnderWay == Latest.kind # "end" /\ Latest.guid = vid.guid
AtRest   == Latest.kind = "end"
Alone ==
  /\ audio.at # "idle" => app.at = "idle" /\ camera = "idle"
  /\ app.at # "idle" => camera = "idle"
TurnHolds ==
  /\ audio.at \in {"idle", "active", "end", "stop"} /\ app.at \in {"idle", "check"} =>
       IF vid.open THEN UnderWay ELSE AtRest
  /\ audio.at \in {"draw", "begin"} => AtRest
  /\ audio.at \in {"marker", "setup", "close"} => vid.open
  /\ audio.at = "marker" => UnderWay /\ Latest.kind = "begin"
  /\ audio.at = "setup" => UnderWay /\ Latest.kind \in {"begin", "marker"}
  /\ audio.at = "close" => AtRest
  /\ app.at \in {"draw", "begin"} => AtRest
  /\ app.at = "setup" => vid.open /\ UnderWay /\ Latest.kind = "begin"
  /\ camera = "frame" => vid.open
  /\ Pending(audio, audio.guid) => audio.guid = vid.guid
  /\ Pending(app, app.guid) => app.guid = vid.guid

OrderInv == Listed /\ (~hurried => Alone /\ TurnHolds /\ Lined)

LEMMA OnlyOne ==
  ASSUME NEW S \in SUBSET {"audio", "app", "camera"}, ~(Cardinality(S) > 1)
  PROVE  \A a \in S : \A b \in S : a = b
<1>1. IsFiniteSet({}) /\ IsFiniteSet({"audio"}) /\ IsFiniteSet({"audio", "app"})
      /\ IsFiniteSet({"audio", "app", "camera"})
  <2>1. IsFiniteSet({"audio"})
    BY FS_Singleton
  <2>2. {"audio"} \union {"app"} = {"audio", "app"}
        /\ {"audio", "app"} \union {"camera"} = {"audio", "app", "camera"}
    OBVIOUS
  <2>3. IsFiniteSet({"audio", "app"})
    BY <2>1, <2>2, FS_AddElement
  <2>4. IsFiniteSet({"audio", "app", "camera"})
    BY <2>2, <2>3, FS_AddElement
  <2>5. QED BY <2>1, <2>3, <2>4, FS_EmptySet
<1>2. IsFiniteSet(S) /\ Cardinality(S) \in Nat
  BY <1>1, FS_Subset, FS_CardinalityType
<1>3. ASSUME NEW a \in S, NEW b \in S, a # b PROVE FALSE
  <2>1. IsFiniteSet(S \ {a}) /\ Cardinality(S \ {a}) = Cardinality(S) - 1
    BY <1>2, <1>3, FS_RemoveElement
  <2>2. Cardinality(S \ {a}) = 0
    <3>1. Cardinality(S \ {a}) \in Nat
      BY <2>1, FS_CardinalityType
    <3>2. QED BY <1>2, <2>1, <3>1
  <2>3. S \ {a} = {}
    BY <2>1, <2>2, FS_EmptySet
  <2>4. QED BY <1>3, <2>3
<1>4. QED BY <1>3

LEMMA AloneIs == ASSUME VideoNext, ~hurried' PROVE ~hurried /\ Alone'
<1>1. ~hurried /\ ~(Cardinality(Busy') > 1)
  BY DEF VideoNext
<1>2. /\ Busy' \in SUBSET {"audio", "app", "camera"}
      /\ audio'.at # "idle" => "audio" \in Busy'
      /\ app'.at # "idle" => "app" \in Busy'
      /\ camera' # "idle" => "camera" \in Busy'
  BY DEF Busy
<1>3. \A a \in Busy' : \A b \in Busy' : a = b
  BY <1>1, <1>2, OnlyOne
<1>4. Alone'
  BY <1>2, <1>3 DEF Alone
<1>5. QED BY <1>1, <1>4

LEMMA ListedOn ==
  ASSUME Listed, (\E m : Queue(m)) \/ Drain \/ UNCHANGED <<sendq, wire>>
  PROVE  Listed'
<1>1. PICK T : wire \in Seq(T) /\ sendq \in Seq(T)
  BY DEF Listed
<1>2. CASE \E m : Queue(m)
  <2>1. PICK m : Queue(m)
    BY <1>2
  <2>2. wire \in Seq(T \union {m}) /\ sendq \in Seq(T \union {m}) /\ m \in T \union {m}
    BY <1>1
  <2>3. Append(sendq, m) \in Seq(T \union {m})
    BY <2>2, AppendProperties
  <2>4. QED BY <2>1, <2>2, <2>3 DEF Queue, Listed
<1>3. CASE Drain
  <2>1. sendq' = <<>> /\ wire' = IF sendq = <<>> THEN wire ELSE <<sendq[Len(sendq)]>>
    BY <1>3 DEF Drain
  <2>2. sendq # <<>> => sendq[Len(sendq)] \in T
    BY <1>1, EmptySeq, LenProperties, ElementOfSeq
  <2>3. wire' \in Seq(T) /\ sendq' \in Seq(T)
    BY <1>1, <2>1, <2>2
  <2>4. QED BY <2>3 DEF Listed
<1>4. CASE UNCHANGED <<sendq, wire>>
  BY <1>4 DEF Listed
<1>5. QED BY <1>2, <1>3, <1>4

(* Steps that queue nothing.                                               *)
LEMMA LineStays ==
  ASSUME Lined, UNCHANGED <<sendq, wire>>
  PROVE  Lined' /\ Latest' = Latest
BY DEF Lined, Listed, Chained, FirstBegins, Latest, Outgoing

Turn == OpenInv /\ Alone /\ TurnHolds /\ Lined

LEMMA BoundaryTurn ==
  ASSUME Turn, Alone', VideoBoundary \/ AudioActive
  PROVE  TurnHolds' /\ Lined'
<1>1. /\ UNCHANGED <<vid, app, camera, sendq, wire>>
      /\ audio.at \in {"idle", "active"}
      /\ \/ audio' = [Idle EXCEPT !.at = "active", !.past = (pos = 2)]
         \/ audio' = [audio EXCEPT !.at = IF vid.active THEN "end" ELSE "stop"]
  BY DEF VideoBoundary, AudioActive, raw
<1>2. audio'.at \in {"active", "end", "stop"}
  BY <1>1 DEF Turn, OpenInv, VideoTypes, Idle
<1>3. Lined' /\ Latest' = Latest
  BY <1>1, LineStays DEF Turn
<1>4. app.at = "idle" /\ camera = "idle"
  BY <1>1, <1>2 DEF Alone
<1>5. IF vid.open THEN UnderWay ELSE AtRest
  BY <1>1, <1>4 DEF Turn, TurnHolds
<1>6. TurnHolds'
  BY <1>1, <1>2, <1>3, <1>4, <1>5 DEF TurnHolds, UnderWay, AtRest, Pending
<1>7. QED BY <1>3, <1>6

LEMMA EndTurn == ASSUME Turn, Alone', AudioEnd PROVE TurnHolds' /\ Lined'
<1> DEFINE next == IF audio.at = "end" THEN "draw" ELSE IF vid.open THEN "close" ELSE "idle"
<1>1. /\ audio' = [audio EXCEPT !.at = next] /\ audio.at \in {"end", "stop"}
      /\ IF vid.open THEN Queue(Message("end", vid.guid)) ELSE UNCHANGED raw
      /\ UNCHANGED <<vid, app, camera>>
  BY DEF AudioEnd, AfterEnd
<1>2. audio'.at = next
  BY <1>1 DEF Turn, OpenInv, VideoTypes
<1>3. app.at = "idle" /\ camera = "idle"
  BY <1>1 DEF Turn, Alone
<1>4. IF vid.open THEN UnderWay ELSE AtRest
  BY <1>1, <1>3 DEF Turn, TurnHolds
<1>5. CASE vid.open
  <2>1. MayFollow(Latest, Message("end", vid.guid))
    BY <1>4, <1>5 DEF MayFollow, Message, UnderWay
  <2>2. Lined' /\ Latest' = Message("end", vid.guid)
    BY <1>1, <1>5, <2>1, QueueKeeps DEF Turn
  <2>3. AtRest'
    BY <2>2 DEF AtRest, Message
  <2>4. audio'.at \in {"draw", "close"}
    BY <1>1, <1>2, <1>5
  <2>5. TurnHolds'
    BY <1>1, <1>3, <1>5, <2>3, <2>4 DEF TurnHolds, Pending
  <2>6. QED BY <2>2, <2>5
<1>6. CASE ~vid.open
  <2>1. Lined' /\ Latest' = Latest
    BY <1>1, <1>6, LineStays DEF Turn, raw
  <2>2. audio'.at \in {"draw", "idle"} /\ AtRest'
    BY <1>1, <1>2, <1>4, <1>6, <2>1 DEF AtRest
  <2>3. TurnHolds'
    BY <1>1, <1>3, <1>6, <2>2 DEF TurnHolds, Pending
  <2>4. QED BY <2>1, <2>3
<1>7. QED BY <1>5, <1>6

LEMMA DrawTurn == ASSUME Turn, Alone', OpenInv', AudioDraw \/ AppDraw PROVE TurnHolds' /\ Lined'
<1> DEFINE g == used.guids + 1
<1>1. /\ UNCHANGED <<sendq, wire, camera>> /\ vid' = [vid EXCEPT !.guid = g]
      /\ \/ /\ audio.at = "draw" /\ audio' = [audio EXCEPT !.at = "begin", !.guid = g]
            /\ UNCHANGED app
         \/ /\ app.at = "draw" /\ app' = [app EXCEPT !.at = "begin", !.guid = g]
            /\ UNCHANGED audio
  BY DEF AudioDraw, AppDraw, DrawGuid
<1>2. /\ vid'.guid = g /\ vid'.open = vid.open
      /\ \/ audio.at = "draw" /\ audio'.at = "begin" /\ audio'.guid = g /\ UNCHANGED app
         \/ app.at = "draw" /\ app'.at = "begin" /\ app'.guid = g /\ UNCHANGED audio
  BY <1>1 DEF Turn, OpenInv, VideoTypes
<1> HIDE DEF g
<1>3. Lined' /\ Latest' = Latest
  BY <1>1, LineStays DEF Turn
<1>4. AtRest /\ AtRest' /\ camera' = "idle"
  BY <1>1, <1>2, <1>3 DEF Turn, TurnHolds, AtRest, Alone
<1>5. \/ audio'.at = "begin" /\ audio'.guid = vid'.guid /\ app'.at = "idle"
      \/ app'.at = "begin" /\ app'.guid = vid'.guid /\ audio'.at = "idle"
  BY <1>1, <1>2 DEF Turn, Alone
<1>6. TurnHolds'
  BY <1>4, <1>5 DEF TurnHolds, Pending
<1>7. QED BY <1>3, <1>6

LEMMA BeginTurn == ASSUME Turn, Alone', AudioBegin \/ AppBegin PROVE TurnHolds' /\ Lined'
<1>1. /\ vid' = [vid EXCEPT !.open = TRUE] /\ UNCHANGED camera
      /\ \/ /\ audio.at = "begin" /\ audio' = [audio EXCEPT !.at = "marker"] /\ UNCHANGED app
            /\ Queue(Message("begin", audio.guid))
         \/ /\ app.at = "begin" /\ app' = [app EXCEPT !.at = "setup"] /\ UNCHANGED audio
            /\ Queue(Message("begin", app.guid))
  BY DEF AudioBegin, AppBegin
<1>2. /\ vid'.guid = vid.guid /\ vid'.open = TRUE
      /\ \/ audio.at = "begin" /\ audio'.at = "marker" /\ UNCHANGED app
         \/ app.at = "begin" /\ app'.at = "setup" /\ UNCHANGED audio
  BY <1>1 DEF Turn, OpenInv, VideoTypes
<1>3. AtRest /\ (audio.at = "begin" => audio.guid = vid.guid) /\ (app.at = "begin" => app.guid = vid.guid)
      /\ camera = "idle"
  BY <1>1 DEF Turn, TurnHolds, Pending, Alone
<1>4. Queue(Message("begin", vid.guid))
  BY <1>1, <1>3
<1>5. MayFollow(Latest, Message("begin", vid.guid))
  BY <1>3 DEF MayFollow, Message, AtRest
<1>6. Lined' /\ Latest' = Message("begin", vid.guid)
  BY <1>4, <1>5, QueueKeeps DEF Turn
<1>7. UnderWay' /\ Latest'.kind = "begin"
  BY <1>2, <1>6 DEF UnderWay, Message
<1>8. \/ audio'.at = "marker" /\ app'.at = "idle"
      \/ app'.at = "setup" /\ audio'.at = "idle"
  BY <1>2 DEF Turn, Alone
<1>9. TurnHolds'
  BY <1>1, <1>2, <1>3, <1>7, <1>8 DEF TurnHolds, Pending
<1>10. QED BY <1>6, <1>9

LEMMA MarkerTurn == ASSUME Turn, Alone', AudioMarker PROVE TurnHolds' /\ Lined'
<1>1. /\ audio.at = "marker" /\ audio' = [audio EXCEPT !.at = "setup"] /\ UNCHANGED <<vid, app, camera>>
      /\ \E guid \in Marker : Queue([kind |-> "marker", guid |-> vid.guid, names |-> guid])
  BY DEF AudioMarker
<1>2. PICK guid \in Marker : Queue([kind |-> "marker", guid |-> vid.guid, names |-> guid])
  BY <1>1
<1> DEFINE m == [kind |-> "marker", guid |-> vid.guid, names |-> guid]
<1>3. m.kind = "marker" /\ m.guid = vid.guid
  OBVIOUS
<1> HIDE DEF m
<1>4. audio'.at = "setup" /\ app.at = "idle" /\ camera = "idle"
  BY <1>1 DEF Turn, OpenInv, VideoTypes, Alone
<1>5. vid.open /\ UnderWay /\ Latest.kind = "begin"
  BY <1>1 DEF Turn, TurnHolds
<1>6. MayFollow(Latest, m)
  BY <1>3, <1>5 DEF MayFollow, UnderWay
<1>7. Lined' /\ Latest' = m
  BY <1>2, <1>6, QueueKeeps DEF Turn, m
<1>8. UnderWay' /\ Latest'.kind = "marker"
  BY <1>1, <1>3, <1>7 DEF UnderWay
<1>9. TurnHolds'
  BY <1>1, <1>4, <1>5, <1>8 DEF TurnHolds, Pending
<1>10. QED BY <1>7, <1>9

LEMMA SetupTurn == ASSUME Turn, Alone', AudioSetup \/ AppSetup PROVE TurnHolds' /\ Lined'
<1>1. /\ UNCHANGED <<vid, camera>>
      /\ \/ audio.at = "setup" /\ audio' = Idle /\ UNCHANGED app
         \/ app.at = "setup" /\ app' = Idle /\ UNCHANGED audio
      /\ \/ \E kind \in {"setup", "empty"} : Queue(Message(kind, vid.guid))
         \/ UNCHANGED <<sendq, wire>>
  BY DEF AudioSetup, AppSetup, raw
<1>2. vid.open /\ UnderWay /\ Latest.kind \in {"begin", "marker"}
  BY <1>1 DEF Turn, TurnHolds
<1>3. app'.at = "idle" /\ audio'.at = "idle" /\ camera' = "idle"
  BY <1>1 DEF Turn, Alone, Idle
<1>4. Lined' /\ UnderWay'
  <2>1. CASE \E kind \in {"setup", "empty"} : Queue(Message(kind, vid.guid))
    <3>1. PICK kind \in {"setup", "empty"} : Queue(Message(kind, vid.guid))
      BY <2>1
    <3>2. MayFollow(Latest, Message(kind, vid.guid))
      BY <1>2 DEF MayFollow, Message, UnderWay
    <3>3. Lined' /\ Latest' = Message(kind, vid.guid)
      BY <3>1, <3>2, QueueKeeps DEF Turn
    <3>4. QED BY <1>1, <3>3 DEF UnderWay, Message
  <2>2. CASE UNCHANGED <<sendq, wire>>
    <3>1. Lined' /\ Latest' = Latest
      BY <2>2, LineStays DEF Turn
    <3>2. QED BY <1>1, <1>2, <3>1 DEF UnderWay
  <2>3. QED BY <1>1, <2>1, <2>2
<1>5. TurnHolds'
  BY <1>1, <1>2, <1>3, <1>4 DEF TurnHolds, Pending
<1>6. QED BY <1>4, <1>5

LEMMA CloseTurn == ASSUME Turn, Alone', AudioClose PROVE TurnHolds' /\ Lined'
<1>1. /\ audio.at = "close" /\ audio' = Idle /\ vid' = [vid EXCEPT !.open = FALSE]
      /\ UNCHANGED <<app, camera, sendq, wire>>
  BY DEF AudioClose, raw
<1>2. audio'.at = "idle" /\ vid'.open = FALSE /\ app.at = "idle" /\ camera = "idle"
  BY <1>1 DEF Turn, OpenInv, VideoTypes, Alone, Idle
<1>3. Lined' /\ Latest' = Latest
  BY <1>1, LineStays DEF Turn
<1>4. AtRest'
  BY <1>1, <1>3 DEF Turn, TurnHolds, AtRest
<1>5. TurnHolds'
  BY <1>1, <1>2, <1>4 DEF TurnHolds, Pending
<1>6. QED BY <1>3, <1>5

(* The app's and the encoder's steps that queue nothing.                   *)
LEMMA AppTurn ==
  ASSUME Turn, Alone', SetVideoChannel \/ AppCheck \/ StopVideoChannel \/ \E there \in BOOLEAN : SetVideoSPSPPS(there)
  PROVE  TurnHolds' /\ Lined'
<1>1. /\ UNCHANGED <<audio, camera, sendq, wire>>
      /\ \/ vid' = vid
         \/ vid' = [vid EXCEPT !.active = TRUE]
         \/ vid' = [vid EXCEPT !.active = FALSE]
         \/ \E there \in BOOLEAN : vid' = [vid EXCEPT !.sps = there]
      /\ \/ app' = app
         \/ app.at \in {"idle", "check"} /\ app' = [app EXCEPT !.at = "check"]
         \/ /\ app.at = "check" /\ app' = [app EXCEPT !.at = IF MayOpen(vid) THEN "draw" ELSE "idle"]
  BY DEF SetVideoChannel, AppCheck, StopVideoChannel, SetVideoSPSPPS, raw
<1>2. vid'.open = vid.open /\ vid'.guid = vid.guid
  BY <1>1 DEF Turn, OpenInv, VideoTypes
<1>3. \/ app' = app
      \/ app.at \in {"idle", "check"} /\ app'.at \in {"idle", "check"}
      \/ app.at = "check" /\ app'.at = "draw" /\ ~vid.open
  BY <1>1 DEF Turn, OpenInv, VideoTypes, MayOpen
<1>4. Lined' /\ Latest' = Latest
  BY <1>1, LineStays DEF Turn
<1>5. (UnderWay' <=> UnderWay) /\ (AtRest' <=> AtRest)
  BY <1>2, <1>4 DEF UnderWay, AtRest
<1>6. CASE app' = app
  BY <1>1, <1>2, <1>4, <1>5, <1>6 DEF Turn, TurnHolds, Pending
<1>7. CASE app.at \in {"idle", "check"} /\ app'.at \in {"idle", "check"}
  BY <1>1, <1>2, <1>4, <1>5, <1>7 DEF Turn, TurnHolds, Pending
<1>8. CASE app.at = "check" /\ app'.at = "draw" /\ ~vid.open
  <2>1. audio.at = "idle" /\ camera = "idle"
    BY <1>8 DEF Turn, Alone
  <2>2. AtRest'
    BY <1>5, <1>8, <2>1 DEF Turn, TurnHolds
  <2>3. QED BY <1>1, <1>4, <1>8, <2>1, <2>2 DEF TurnHolds, Pending
<1>9. QED BY <1>3, <1>6, <1>7, <1>8

LEMMA FrameTurn == ASSUME Turn, Alone', FrameCheck \/ FrameQueue PROVE TurnHolds' /\ Lined'
<1>1. CASE FrameCheck
  <2>1. UNCHANGED <<vid, audio, app, sendq, wire>> /\ vid.open
    BY <1>1 DEF FrameCheck, raw
  <2>2. Lined' /\ Latest' = Latest
    BY <2>1, LineStays DEF Turn
  <2>3. QED BY <2>1, <2>2 DEF Turn, TurnHolds, Pending, UnderWay, AtRest
<1>2. CASE FrameQueue
  <2>1. /\ camera = "frame" /\ camera' = "idle" /\ Queue(Message("frame", vid.guid))
        /\ UNCHANGED <<vid, audio, app>>
    BY <1>2 DEF FrameQueue
  <2>2. audio.at = "idle" /\ app.at = "idle" /\ vid.open /\ UnderWay
    BY <2>1 DEF Turn, Alone, TurnHolds
  <2>3. MayFollow(Latest, Message("frame", vid.guid))
    BY <2>2 DEF MayFollow, Message, UnderWay
  <2>4. Lined' /\ Latest' = Message("frame", vid.guid)
    BY <2>1, <2>3, QueueKeeps DEF Turn
  <2>5. UnderWay'
    BY <2>1, <2>4 DEF UnderWay, Message
  <2>6. QED BY <2>1, <2>2, <2>4, <2>5 DEF TurnHolds, Pending
<1>3. QED BY <1>1, <1>2

(* Run and all that leaves the camera alone.                               *)
LEMMA RestTurn ==
  ASSUME Turn, UNCHANGED <<vid, audio, app, camera>>, Drain \/ UNCHANGED <<sendq, wire>>
  PROVE  TurnHolds' /\ Lined'
<1>1. Lined' /\ Latest' = Latest
  BY LineStays, DrainKeeps DEF Turn
<1>2. QED BY <1>1 DEF Turn, TurnHolds, Pending, UnderWay, AtRest

LEMMA OrderInitially == VideoInit => OrderInv
<1> SUFFICES ASSUME VideoInit PROVE OrderInv
  OBVIOUS
<1>1. /\ audio.at = "idle" /\ app.at = "idle" /\ camera = "idle" /\ ~vid.open
      /\ wire = <<>> /\ sendq = <<>>
  BY DEF VideoInit, Idle
<1>2. Outgoing = <<>>
  <2>1. <<>> \in Seq({})
    OBVIOUS
  <2>2. QED BY <1>1, <2>1, ConcatEmptySeq DEF Outgoing
<1>3. Listed
  <2>1. <<>> \in Seq({})
    OBVIOUS
  <2>2. QED BY <1>1, <2>1 DEF Listed
<1>4. Lined
  BY <1>1, <1>2, <1>3 DEF Lined, Chained, FirstBegins
<1>5. AtRest
  BY <1>2 DEF AtRest, Latest, Message
<1>6. TurnHolds /\ Alone
  BY <1>1, <1>5 DEF TurnHolds, Alone, Pending
<1>7. QED BY <1>3, <1>4, <1>6 DEF OrderInv

Others == \/ \E long \in SUBSET Local : VideoSamples(long)
          \/ RunAudio \/ RunEnds \/ RunVideo \/ Controls \/ Leave
          \/ \E ch \in Local : RemoveChannel(ch)

LEMMA OthersLeave ==
  ASSUME Others
  PROVE  UNCHANGED <<vid, audio, app, camera>> /\ (Drain \/ UNCHANGED <<sendq, wire>>)
BY DEF Others, VideoSamples, RunAudio, RunEnds, RunVideo, Controls, Leave, RemoveChannel, raw

LEMMA OrderSteps == ASSUME OpenInv, OpenInv', OrderInv, [VideoNext]_vvars PROVE OrderInv'
<1>1. CASE UNCHANGED vvars
  <2>1. UNCHANGED <<vid, audio, app, camera, sendq, wire, hurried>>
    BY <1>1 DEF vvars, video, raw
  <2>2. Listed'
    BY <2>1 DEF OrderInv, Listed
  <2>3. ASSUME ~hurried' PROVE Alone' /\ TurnHolds' /\ Lined'
    <3>1. Turn
      BY <2>1, <2>3 DEF OrderInv, Turn
    <3>2. TurnHolds' /\ Lined'
      BY <2>1, <3>1, RestTurn
    <3>3. QED BY <2>1, <3>1, <3>2 DEF Turn, Alone
  <2>4. QED BY <2>2, <2>3 DEF OrderInv
<1>2. CASE VideoNext
  <2>1. \/ VideoBoundary \/ AudioActive \/ AudioEnd \/ AudioDraw \/ AudioBegin \/ AudioMarker
        \/ AudioSetup \/ AudioClose \/ SetVideoChannel \/ AppCheck \/ AppDraw \/ AppBegin
        \/ AppSetup \/ StopVideoChannel \/ (\E there \in BOOLEAN : SetVideoSPSPPS(there))
        \/ FrameCheck \/ FrameQueue \/ Others
    BY <1>2 DEF VideoNext, Others
  <2>2. (\E m : Queue(m)) \/ Drain \/ UNCHANGED <<sendq, wire>>
    <3>1. CASE Others
      BY <3>1, OthersLeave
    <3>2. CASE AudioEnd \/ AudioBegin \/ AudioMarker \/ AudioSetup \/ AppBegin \/ AppSetup \/ FrameQueue
      BY <3>2 DEF AudioEnd, AudioBegin, AudioMarker, AudioSetup, AppBegin, AppSetup, FrameQueue, raw
    <3>3. CASE \/ VideoBoundary \/ AudioActive \/ AudioDraw \/ AudioClose \/ SetVideoChannel \/ AppCheck
               \/ AppDraw \/ StopVideoChannel \/ (\E there \in BOOLEAN : SetVideoSPSPPS(there)) \/ FrameCheck
      BY <3>3 DEF VideoBoundary, AudioActive, AudioDraw, AudioClose, SetVideoChannel, AppCheck,
            AppDraw, DrawGuid, StopVideoChannel, SetVideoSPSPPS, FrameCheck, raw
    <3>4. QED BY <2>1, <3>1, <3>2, <3>3
  <2>3. Listed'
    BY <2>2, ListedOn DEF OrderInv
  <2>4. ASSUME ~hurried' PROVE Alone' /\ TurnHolds' /\ Lined'
    <3>1. ~hurried /\ Alone'
      BY <1>2, <2>4, AloneIs
    <3>2. Turn
      BY <3>1 DEF OrderInv, Turn
    <3>3. CASE Others
      BY <3>1, <3>2, <3>3, OthersLeave, RestTurn
    <3>4. CASE VideoBoundary \/ AudioActive \/ AudioEnd \/ AudioDraw \/ AudioBegin \/ AudioMarker
      BY <3>1, <3>2, <3>4, BoundaryTurn, EndTurn, DrawTurn, BeginTurn, MarkerTurn
    <3>5. CASE AudioSetup \/ AudioClose \/ AppDraw \/ AppBegin \/ AppSetup
      BY <3>1, <3>2, <3>5, SetupTurn, CloseTurn, DrawTurn, BeginTurn
    <3>6. CASE \/ SetVideoChannel \/ AppCheck \/ StopVideoChannel
               \/ (\E there \in BOOLEAN : SetVideoSPSPPS(there)) \/ FrameCheck \/ FrameQueue
      BY <3>1, <3>2, <3>6, AppTurn, FrameTurn
    <3>7. QED BY <2>1, <3>3, <3>4, <3>5, <3>6
  <2>5. QED BY <2>3, <2>4 DEF OrderInv
<1>3. QED BY <1>1, <1>2

LEMMA FramedMeans == OpenInv /\ OrderInv => VideoFramed
<1>1. ASSUME OrderInv PROVE VideoInOrder
  <2>1. ASSUME ~hurried PROVE Chained(Outgoing) /\ FirstBegins
    BY <1>1, <2>1 DEF OrderInv, Lined
  <2>2. QED BY <2>1 DEF VideoInOrder, Chained, FirstBegins, Outgoing
<1>2. ASSUME OpenInv PROVE OpenIsBegun
  <2>1. ASSUME Busy = {}, vid.guid # 0 PROVE bounds = IF vid.open THEN <<"begin">> ELSE <<"begin", "end">>
    <3>1. audio.at = "idle" /\ app.at = "idle"
      BY <2>1 DEF Busy
    <3>2. ~Awaited
      BY <3>1 DEF Awaited, Pending
    <3>3. QED BY <1>2, <2>1, <3>1, <3>2 DEF OpenInv, BoundsHold
  <2>2. QED BY <2>1 DEF OpenIsBegun
<1>3. QED BY <1>1, <1>2 DEF VideoFramed

(* The video intervals go out whole and in order while the calls do not    *)
(* overlap, and the open flag tells the truth when all threads are done,   *)
(* however they raced (VideoFramed).                                       *)
THEOREM VideoGoesOutWhole == VideoSpec => []VideoFramed
<1>1. VideoInit => OpenInv /\ OrderInv
  BY OpenInitially, OrderInitially
<1>2. OpenInv /\ OrderInv /\ [VideoNext]_vvars => (OpenInv /\ OrderInv)'
  BY OpenSteps, OrderSteps
<1>3. QED BY <1>1, <1>2, FramedMeans, PTL DEF VideoSpec

-----------------------------------------------------------------------------
(***************************************************************************)
(* The marker of a video interval names the audio interval that ended as   *)
(* it began (MarkerNamesLast).                                             *)
(*                                                                         *)
(* What a channel's queue tells of it: k is the interval it last spoke in, *)
(* w says that it has a GUID, tag is the interval in it, h that the next   *)
(* audio draws a new one.                                                  *)
(***************************************************************************)
Named(u)    == u.guid # ZeroGuid
Sounds(q, w) ==
  \E i \in 0 .. Len(q) : Live(q, w, i) /\ \A j \in i + 1 .. Len(q) : q[j].kind # "silence"
EndsWith(q, w, tag, k) ==
  \A i \in 0 .. Len(q) :
    Live(q, w, i) /\ (\A j \in i + 1 .. Len(q) : q[j].kind # "audio") => At(q, tag, i) = k

(* Nothing is of a later interval; nothing of this one while it begins.    *)
Earlier(t, loop, begins) == t < loop \/ (t = loop /\ ~begins)
Past(q, tag, loop, begins) ==
  /\ tag = Untagged \/ Earlier(tag, loop, begins)
  /\ \A i \in 1 .. Len(q) : q[i].kind = "audio" => Earlier(q[i].at, loop, begins)

Tells(on, h, q, w, tag, k, loop, ok) ==
  /\ ~h => w
  /\ k = loop => on
  /\ ok /\ ~on => FallsSilent(q, w)
  /\ on /\ k \in {loop - 1, loop} => Sounds(q, w)
  /\ k # Untagged => EndsWith(q, w, tag, k)

MarkHolds(c, q, u, s, k, loop, ok, begins) ==
  /\ k = Untagged \/ k \in 0 .. loop
  /\ ~ok => k = Untagged
  /\ Past(q, u.guid.tag, loop, begins)
  /\ s.steady /\ c.flags = {} =>
       Tells(c.bcast_active, u.need_header, q, Named(u), u.guid.tag, k, loop, ok)

MarkInv ==
  /\ loopcnt \in 0 .. MaxLoop /\ DOMAIN spoke = Local
  /\ \A ch \in Local :
       MarkHolds(lc[ch], bq[ch], up[ch], server[ch], spoke[ch], loopcnt,
                 conn # "crashed", audio.at # "idle")

LEMMA SoundsPush ==
  ASSUME NEW q, NEW b, NEW r, Pushed(q, b, r), NEW w \in BOOLEAN
  PROVE  /\ b.kind # "silence" /\ Sounds(q, w) => Sounds(r, w)
         /\ b.kind = "audio" => Sounds(r, w)
<1>1. /\ Len(q) \in Nat /\ Len(r) = Len(q) + 1 /\ \A i \in 1 .. Len(q) : r[i] = q[i]
      /\ r[Len(q) + 1] = b
  BY DEF Pushed
<1>2. ASSUME b.kind # "silence", Sounds(q, w) PROVE Sounds(r, w)
  <2>1. PICK i \in 0 .. Len(q) : Live(q, w, i) /\ \A j \in i + 1 .. Len(q) : q[j].kind # "silence"
    BY <1>2 DEF Sounds
  <2>2. Live(r, w, i) /\ i \in 0 .. Len(r)
    BY <1>1, <2>1 DEF Live
  <2>3. ASSUME NEW j \in i + 1 .. Len(r) PROVE r[j].kind # "silence"
    <3>1. CASE j \in i + 1 .. Len(q)
      BY <1>1, <2>1, <3>1
    <3>2. CASE j = Len(q) + 1
      BY <1>1, <1>2, <3>2
    <3>3. QED BY <1>1, <3>1, <3>2
  <2>4. QED BY <2>2, <2>3 DEF Sounds
<1>3. ASSUME b.kind = "audio" PROVE Sounds(r, w)
  <2>1. Len(r) \in 0 .. Len(r) /\ Live(r, w, Len(r)) /\ Len(r) + 1 .. Len(r) = {}
    BY <1>1, <1>3 DEF Live
  <2>2. QED BY <2>1 DEF Sounds
<1>4. QED BY <1>2, <1>3

LEMMA EndsWithPush ==
  ASSUME NEW q, NEW b, NEW r, Pushed(q, b, r), NEW w \in BOOLEAN, NEW tag, NEW k
  PROVE  /\ b.kind # "audio" /\ EndsWith(q, w, tag, k) => EndsWith(r, w, tag, k)
         /\ b.kind = "audio" /\ b.at = k => EndsWith(r, w, tag, k)
<1>1. /\ Len(q) \in Nat /\ Len(r) = Len(q) + 1 /\ \A i \in 1 .. Len(q) : r[i] = q[i]
      /\ r[Len(q) + 1] = b
  BY DEF Pushed
<1>2. ASSUME b.kind # "audio", EndsWith(q, w, tag, k),
             NEW i \in 0 .. Len(r), Live(r, w, i), \A j \in i + 1 .. Len(r) : r[j].kind # "audio"
      PROVE  At(r, tag, i) = k
  <2>1. i # Len(q) + 1
    BY <1>1, <1>2 DEF Live
  <2>2. i \in 0 .. Len(q) /\ Live(q, w, i) /\ At(r, tag, i) = At(q, tag, i)
    BY <1>1, <1>2, <2>1 DEF Live, At
  <2>3. \A j \in i + 1 .. Len(q) : q[j].kind # "audio"
    BY <1>1, <1>2, <2>2
  <2>4. QED BY <1>2, <2>2, <2>3 DEF EndsWith
<1>3. ASSUME b.kind = "audio", b.at = k,
             NEW i \in 0 .. Len(r), \A j \in i + 1 .. Len(r) : r[j].kind # "audio"
      PROVE  At(r, tag, i) = k
  <2>1. i = Len(r)
    BY <1>1, <1>3
  <2>2. QED BY <1>1, <1>3, <2>1 DEF At
<1>4. QED BY <1>2, <1>3 DEF EndsWith

LEMMA SilenceTaken ==
  ASSUME NEW q, NEW r, Popped(q, r), NEW w \in BOOLEAN, NEW v \in BOOLEAN, FallsSilent(q, w),
         v => q[1].kind = "audio" \/ (w /\ q[1].kind # "silence")
  PROVE  FallsSilent(r, v)
<1>1. /\ Len(r) \in Nat /\ Len(q) = Len(r) + 1 /\ \A j \in 1 .. Len(r) : r[j] = q[j + 1]
  BY DEF Popped
<1>2. ASSUME NEW l \in 0 .. Len(q), Live(q, w, l), NEW k \in Nat, k + 1 = l \/ (l = 0 /\ k = 0),
             l = 0 => q[1].kind # "silence"
      PROVE  \E j \in k + 1 .. Len(r) : r[j].kind = "silence"
  <2>1. PICK j \in l + 1 .. Len(q) : q[j].kind = "silence"
    BY <1>2 DEF FallsSilent
  <2>2. j # 1
    BY <1>2, <2>1
  <2>3. j - 1 \in k + 1 .. Len(r) /\ j - 1 \in 1 .. Len(r) /\ j - 1 + 1 = j
    BY <1>1, <1>2, <2>2
  <2>4. r[j - 1].kind = "silence"
    BY <1>1, <2>1, <2>3
  <2>5. QED BY <2>3, <2>4
<1>3. ASSUME NEW k \in 0 .. Len(r), Live(r, v, k)
      PROVE  \E j \in k + 1 .. Len(r) : r[j].kind = "silence"
  <2>1. CASE k # 0
    <3>1. k \in 1 .. Len(r) /\ k + 1 # 0 /\ k + 1 \in 0 .. Len(q) /\ Live(q, w, k + 1)
      BY <1>1, <1>3, <2>1 DEF Live
    <3>2. QED BY <1>2, <3>1
  <2>2. CASE k = 0 /\ q[1].kind = "audio"
    <3>1. 1 \in 0 .. Len(q) /\ Live(q, w, 1)
      BY <1>1, <2>2 DEF Live
    <3>2. QED BY <1>2, <2>2, <3>1
  <2>3. CASE k = 0 /\ w /\ q[1].kind # "silence"
    <3>1. 0 \in 0 .. Len(q) /\ Live(q, w, 0)
      BY <1>1, <2>3 DEF Live
    <3>2. QED BY <1>2, <2>3, <3>1
  <2>4. QED BY <1>3, <2>1, <2>2, <2>3 DEF Live
<1>4. QED BY <1>3 DEF FallsSilent

LEMMA SoundsPop ==
  ASSUME NEW q, NEW r, Popped(q, r), NEW w \in BOOLEAN, NEW v \in BOOLEAN, Sounds(q, w)
  PROVE  Sounds(r, v) \/ (~v /\ (q[1].kind = "audio" \/ (w /\ q[1].kind # "silence")))
<1> SUFFICES ASSUME q[1].kind = "audio" \/ (w /\ q[1].kind # "silence") => v PROVE Sounds(r, v)
  OBVIOUS
<1>1. /\ Len(r) \in Nat /\ Len(q) = Len(r) + 1 /\ \A j \in 1 .. Len(r) : r[j] = q[j + 1]
  BY DEF Popped
<1>2. PICK i \in 0 .. Len(q) : Live(q, w, i) /\ \A j \in i + 1 .. Len(q) : q[j].kind # "silence"
  BY DEF Sounds
<1>3. CASE i \in {0, 1}
  <2>1. v
    BY <1>1, <1>2, <1>3 DEF Live
  <2>2. \A j \in 0 + 1 .. Len(r) : r[j].kind # "silence"
    BY <1>1, <1>2, <1>3
  <2>3. 0 \in 0 .. Len(r) /\ Live(r, v, 0)
    BY <1>1, <2>1 DEF Live
  <2>4. QED BY <2>2, <2>3 DEF Sounds
<1>4. CASE i \notin {0, 1}
  <2>1. i - 1 \in 1 .. Len(r) /\ i - 1 \in 0 .. Len(r) /\ i - 1 # 0 /\ i - 1 + 1 = i
    BY <1>1, <1>4
  <2>2. Live(r, v, i - 1)
    BY <1>1, <1>2, <1>4, <2>1 DEF Live
  <2>3. \A j \in i - 1 + 1 .. Len(r) : r[j].kind # "silence"
    <3>1. ASSUME NEW j \in i - 1 + 1 .. Len(r) PROVE r[j].kind # "silence"
      <4>1. j \in 1 .. Len(r) /\ j + 1 \in i + 1 .. Len(q)
        BY <1>1, <2>1
      <4>2. QED BY <1>1, <1>2, <4>1
    <3>2. QED BY <3>1
  <2>4. QED BY <2>1, <2>2, <2>3 DEF Sounds
<1>5. QED BY <1>3, <1>4

LEMMA EndsWithPop ==
  ASSUME NEW q, NEW r, Popped(q, r), NEW w \in BOOLEAN, NEW v \in BOOLEAN, NEW tag, NEW tag2, NEW k,
         EndsWith(q, w, tag, k),
         v => \/ q[1].kind = "audio" /\ tag2 = q[1].at
              \/ q[1].kind # "audio" /\ w /\ tag2 = tag
  PROVE  EndsWith(r, v, tag2, k)
<1>1. /\ Len(r) \in Nat /\ Len(q) = Len(r) + 1 /\ \A j \in 1 .. Len(r) : r[j] = q[j + 1]
  BY DEF Popped
<1>2. ASSUME NEW i \in 0 .. Len(r), Live(r, v, i), \A j \in i + 1 .. Len(r) : r[j].kind # "audio"
      PROVE  At(r, tag2, i) = k
  <2>1. ASSUME NEW j \in i + 2 .. Len(q) PROVE q[j].kind # "audio"
    <3>1. j - 1 \in i + 1 .. Len(r) /\ j - 1 \in 1 .. Len(r) /\ j - 1 + 1 = j
      BY <1>1
    <3>2. QED BY <1>1, <1>2, <3>1
  <2>2. CASE i # 0 \/ q[1].kind = "audio"
    <3>1. Live(q, w, i + 1) /\ i + 1 \in 0 .. Len(q)
      BY <1>1, <1>2, <2>2 DEF Live
    <3>2. At(r, tag2, i) = At(q, tag, i + 1)
      BY <1>1, <1>2, <2>2 DEF At, Live
    <3>3. \A j \in i + 1 + 1 .. Len(q) : q[j].kind # "audio"
      BY <2>1
    <3>4. QED BY <3>1, <3>2, <3>3 DEF EndsWith
  <2>3. CASE i = 0 /\ q[1].kind # "audio"
    <3>1. 0 \in 0 .. Len(q) /\ Live(q, w, 0) /\ At(r, tag2, i) = tag /\ At(q, tag, 0) = tag
      BY <1>1, <1>2, <2>3 DEF Live, At
    <3>2. ASSUME NEW j \in 0 + 1 .. Len(q) PROVE q[j].kind # "audio"
      <4>1. j = 1 \/ j \in i + 2 .. Len(q)
        BY <1>1, <2>3
      <4>2. QED BY <2>1, <2>3, <4>1
    <3>3. QED BY <3>1, <3>2 DEF EndsWith
  <2>4. QED BY <2>2, <2>3
<1>3. QED BY <1>2 DEF EndsWith

LEMMA GuidIs ==
  ASSUME NEW u \in Encoders
  PROVE  /\ Named(u) \in BOOLEAN /\ MaxLoop \in Nat /\ Untagged = MaxLoop + 1
         /\ u.guid.tag \in Nat /\ u.need_header \in BOOLEAN /\ ZeroGuid.tag = Untagged
<1>1. u.guid \in Guids /\ u.need_header \in BOOLEAN
  BY EncoderIs
<1>2. MaxLoop \in Nat /\ Untagged = MaxLoop + 1 /\ ZeroGuid.tag = Untagged
  BY UploadAssumption DEF Untagged, ZeroGuid
<1>3. Untagged \in Nat
  BY <1>2
<1>4. u.guid.tag \in Nat
  BY <1>1, <1>3 DEF Guids
<1>5. QED BY <1>1, <1>2, <1>4 DEF Named

LEMMA BlockIs ==
  ASSUME NEW q \in Seq(Blocks), NEW i \in 1 .. Len(q), q[i].kind = "audio"
  PROVE  q[i].at \in Nat
<1>1. q[i] \in Blocks
  BY ElementOfSeq
<1>2. QED BY <1>1, KindsOfBlocks

(* A boundary: the interval spoken in is the last one, no more this one.   *)
LEMMA BoundaryMark ==
  ASSUME NEW c, NEW q, NEW u, NEW s, NEW p \in Nat, NEW loop \in Nat, loop < MaxLoop,
         ChannelInv(c, q, u, s, p, loop, TRUE), NEW k, MarkHolds(c, q, u, s, k, loop, TRUE, FALSE),
         NEW d, d = (IF Interval(c) THEN [c EXCEPT !.bcast_active = c.broadcasting] ELSE c),
         NEW r, r = (IF Interval(c) THEN AddMark(q, Cut(c)) ELSE q)
  PROVE  MarkHolds(d, r, u, s, k, loop + 1, TRUE, TRUE)
<1>1. /\ c \in Channels /\ q \in Seq(Blocks) /\ Len(q) \in Nat /\ u \in Encoders
      /\ Going(u, s) \in BOOLEAN /\ Quiet(q, Going(u, s))
  BY ChannelParts, Zenon
<1> DEFINE tag == u.guid.tag
           w == Named(u)
           h == u.need_header
<1>2. /\ w \in BOOLEAN /\ h \in BOOLEAN /\ tag \in Nat /\ MaxLoop \in Nat /\ Untagged = MaxLoop + 1
      /\ c.bcast_active \in BOOLEAN /\ c.broadcasting \in BOOLEAN
  BY <1>1, GuidIs DEF Channels
<1>3. /\ k = Untagged \/ k \in 0 .. loop
      /\ Past(q, tag, loop, FALSE)
      /\ s.steady /\ c.flags = {} => Tells(c.bcast_active, h, q, w, tag, k, loop, TRUE)
  BY Zenon DEF MarkHolds
<1> HIDE DEF tag, w, h
<1>4. /\ r \in Seq(Blocks) /\ d.flags = c.flags
      /\ \A i \in 1 .. Len(r) : r[i].kind = "audio" => i \in 1 .. Len(q) /\ r[i] = q[i]
  <2>1. CASE Interval(c)
    <3>1. Cut(c) \in Seq(Blocks)
      BY <1>1, CutIs
    <3>2. Joined(q, Cut(c), r)
      BY <1>1, <2>1, <3>1 DEF Joined, AddMark
    <3>3. /\ r \in Seq(Blocks)
          /\ \A i \in 1 .. Len(r) : r[i].kind = "audio" => i \in 1 .. Len(q) /\ r[i] = q[i]
      BY <1>1, <3>2, CutMarks
    <3>4. d.flags = c.flags
      BY <1>1, <2>1 DEF Channels
    <3>5. QED BY <3>3, <3>4
  <2>2. CASE ~Interval(c)
    BY <1>1, <2>2
  <2>3. QED BY <2>1, <2>2
<1>5. Past(r, tag, loop + 1, TRUE)
  <2>1. tag = Untagged \/ Earlier(tag, loop + 1, TRUE)
    BY <1>2, <1>3 DEF Past, Earlier
  <2>2. ASSUME NEW i \in 1 .. Len(r), r[i].kind = "audio" PROVE Earlier(r[i].at, loop + 1, TRUE)
    <3>1. i \in 1 .. Len(q) /\ r[i] = q[i]
      BY <1>4, <2>2
    <3>2. r[i].at \in Nat /\ Earlier(r[i].at, loop, FALSE)
      BY <1>1, <1>3, <2>2, <3>1, BlockIs DEF Past
    <3>3. QED BY <3>2 DEF Earlier
  <2>3. QED BY <2>1, <2>2 DEF Past
<1>6. ASSUME s.steady, c.flags = {} PROVE Tells(d.bcast_active, h, r, w, tag, k, loop + 1, TRUE)
  <2>1. Interval(c) /\ d.bcast_active = c.broadcasting /\ r = q \o Cut(c)
    BY <1>1, <1>6 DEF Interval, Channels, AddMark
  <2>2. /\ ~h => w
        /\ k = loop => c.bcast_active
        /\ ~c.bcast_active => FallsSilent(q, w)
        /\ c.bcast_active /\ k \in {loop - 1, loop} => Sounds(q, w)
        /\ k # Untagged => EndsWith(q, w, tag, k)
    BY <1>3, <1>6 DEF Tells
  <2>3. /\ Cut(c) \in Seq(Blocks)
        /\ c.bcast_active /\ c.broadcasting => Len(Cut(c)) = 1 /\ Cut(c)[1] = END
        /\ c.bcast_active /\ ~c.broadcasting =>
             Len(Cut(c)) = 2 /\ Cut(c)[1] = END /\ Cut(c)[2] = SILENCE
    BY <1>1, CutIs
  <2>4. k # loop + 1
    BY <1>2, <1>3
  <2>5. k \in {loop + 1 - 1, loop + 1} => k = loop
    BY <2>4
  <2>6. CASE ~c.bcast_active
    <3>1. r = q
      <4>1. Cut(c) = <<>>
        BY <2>6 DEF Cut
      <4>2. QED BY <1>1, <2>1, <4>1, ConcatEmptySeq
    <3>2. k # loop
      BY <2>2, <2>6
    <3>3. QED BY <2>2, <2>4, <2>5, <2>6, <3>1, <3>2 DEF Tells
  <2>7. CASE c.bcast_active /\ c.broadcasting
    <3>1. Pushed(q, END, r)
      BY <1>1, <2>1, <2>3, <2>7, MarkOne
    <3>2. /\ k \in {loop + 1 - 1, loop + 1} => Sounds(r, w)
          /\ k # Untagged => EndsWith(r, w, tag, k)
      BY <1>2, <2>2, <2>5, <2>7, <3>1, SoundsPush, EndsWithPush, KindsOfBlocks
    <3>3. QED BY <2>1, <2>2, <2>4, <2>7, <3>2 DEF Tells
  <2>8. CASE c.bcast_active /\ ~c.broadcasting
    <3>1. PICK t : Pushed(q, END, t) /\ Pushed(t, SILENCE, r)
      BY <1>1, <2>1, <2>3, <2>8, MarkTwo
    <3>2. k # Untagged => EndsWith(t, w, tag, k)
      BY <1>2, <2>2, <3>1, EndsWithPush, KindsOfBlocks
    <3>3. k # Untagged => EndsWith(r, w, tag, k)
      BY <1>2, <3>1, <3>2, EndsWithPush, KindsOfBlocks
    <3>4. FallsSilent(r, w)
      BY <1>2, <3>1, SilencePush, KindsOfBlocks
    <3>5. QED BY <2>1, <2>2, <2>4, <2>8, <3>3, <3>4 DEF Tells
  <2>9. QED BY <1>2, <2>6, <2>7, <2>8
<1>7. k = Untagged \/ k \in 0 .. loop + 1
  BY <1>3
<1>8. QED BY <1>4, <1>5, <1>6, <1>7 DEF MarkHolds, tag, w, h

SpokenIn(q, r, k, loop, l) ==
  l = IF r # <<>> /\ r # q /\ r[Len(r)].kind = "audio" THEN loop ELSE k

(* A block of every channel: whoever records it speaks in this interval.   *)
LEMMA SamplesMark ==
  ASSUME NEW c, NEW q, NEW u, NEW s, NEW p \in Nat, NEW loop \in Nat,
         ChannelInv(c, q, u, s, p, loop, TRUE), NEW k, MarkHolds(c, q, u, s, k, loop, TRUE, FALSE),
         loop \in 0 .. MaxLoop,
         NEW m, NEW on, CutsOff(c, m, on), NEW a, Joined(q, m, a),
         NEW keep \in BOOLEAN, keep => on, NEW b \in Blocks, b.kind = "audio", b.at = loop,
         NEW r, Kept(a, keep, b, r), NEW d, d.flags = c.flags, d.bcast_active = on,
         NEW t, t.steady = s.steady,
         NEW l, SpokenIn(q, r, k, loop, l)
  PROVE  MarkHolds(d, r, u, t, l, loop, TRUE, FALSE)
<1>1. /\ c \in Channels /\ q \in Seq(Blocks) /\ Len(q) \in Nat /\ u \in Encoders
      /\ Going(u, s) \in BOOLEAN /\ Quiet(q, Going(u, s))
      /\ (~c.bcast_active => Over(q, Going(u, s), Len(q) + 1))
  BY ChannelParts, Zenon
<1> DEFINE tag == u.guid.tag
           w == Named(u)
           h == u.need_header
<1>2. /\ w \in BOOLEAN /\ h \in BOOLEAN /\ tag \in Nat /\ MaxLoop \in Nat /\ Untagged = MaxLoop + 1
      /\ c.bcast_active \in BOOLEAN
  BY <1>1, GuidIs DEF Channels
<1>3. /\ k = Untagged \/ k \in 0 .. loop
      /\ Past(q, tag, loop, FALSE)
      /\ s.steady /\ c.flags = {} => Tells(c.bcast_active, h, q, w, tag, k, loop, TRUE)
  BY Zenon DEF MarkHolds
<1> HIDE DEF tag, w, h
<1>4. /\ a \in Seq(Blocks)
      /\ \A i \in 1 .. Len(a) : a[i].kind = "audio" => i \in 1 .. Len(q) /\ a[i] = q[i]
  <2>1. \/ Len(m) = 0
        \/ Len(m) = 1 /\ m[1] = END
        \/ Len(m) = 1 /\ m[1] = SILENCE /\ Over(q, Going(u, s), Len(q) + 1)
        \/ Len(m) = 2 /\ m[1] = END /\ m[2] = SILENCE
    BY <1>1 DEF CutsOff
  <2>2. QED BY <1>1, <2>1, Marking
<1>5. (keep => Pushed(a, b, r)) /\ (~keep => r = a)
  BY <1>4, PushIs DEF Kept
<1>6. Past(r, tag, loop, FALSE)
  <2>1. ASSUME NEW i \in 1 .. Len(r), r[i].kind = "audio" PROVE Earlier(r[i].at, loop, FALSE)
    <3>1. CASE keep
      <4>1. /\ Len(a) \in Nat /\ Len(r) = Len(a) + 1 /\ r[Len(a) + 1] = b
            /\ \A j \in 1 .. Len(a) : r[j] = a[j]
        BY <1>5, <3>1 DEF Pushed
      <4>2. CASE i \in 1 .. Len(a)
        BY <1>3, <1>4, <2>1, <4>1, <4>2 DEF Past
      <4>3. CASE i = Len(a) + 1
        BY <4>1, <4>3 DEF Earlier
      <4>4. i \in 1 .. Len(a) \/ i = Len(a) + 1
        BY <4>1
      <4>5. QED BY <4>2, <4>3, <4>4
    <3>2. CASE ~keep
      BY <1>3, <1>4, <1>5, <2>1, <3>2 DEF Past
    <3>3. QED BY <3>1, <3>2
  <2>2. QED BY <1>3, <2>1 DEF Past
<1>7. ASSUME s.steady, c.flags = {} PROVE Tells(on, h, r, w, tag, l, loop, TRUE)
  <2>1. m = <<>> /\ on = c.bcast_active
    BY <1>7 DEF CutsOff
  <2>2. a = q
    BY <1>1, <2>1, ConcatEmptySeq DEF Joined
  <2>3. CASE ~keep
    <3>1. r = q /\ l = k
      BY <1>5, <2>2, <2>3 DEF SpokenIn
    <3>2. QED BY <1>3, <1>7, <2>1, <3>1
  <2>4. CASE keep
    <3>1. Pushed(q, b, r) /\ on = TRUE
      BY <1>5, <2>1, <1>2, <2>2, <2>4
    <3>2. Len(r) = Len(q) + 1 /\ r[Len(r)] = b /\ r \in Seq(Blocks)
      BY <3>1 DEF Pushed
    <3>3. r # <<>> /\ r # q
      BY <1>1, <3>2
    <3>4. l = loop
      BY <3>2, <3>3 DEF SpokenIn
    <3>5. Sounds(r, w) /\ EndsWith(r, w, tag, loop)
      BY <1>2, <3>1, SoundsPush, EndsWithPush
    <3>6. ~h => w
      BY <1>3, <1>7 DEF Tells
    <3>7. QED BY <3>1, <3>4, <3>5, <3>6 DEF Tells
  <2>5. QED BY <2>3, <2>4
<1>8. l = Untagged \/ l \in 0 .. loop
  BY <1>3 DEF SpokenIn
<1>9. QED BY <1>6, <1>7, <1>8 DEF MarkHolds, tag, w, h

(* Run takes a block: what is left is of no later interval.                *)
LEMMA PastPop ==
  ASSUME NEW q, NEW r, Popped(q, r), NEW tag, NEW tag2, NEW loop, NEW begins, Past(q, tag, loop, begins),
         tag2 \in {tag, Untagged} \/ (q[1].kind = "audio" /\ tag2 = q[1].at)
  PROVE  Past(r, tag2, loop, begins)
<1>1. /\ Len(r) \in Nat /\ Len(q) = Len(r) + 1 /\ \A j \in 1 .. Len(r) : r[j] = q[j + 1]
      /\ 1 \in 1 .. Len(q)
  BY DEF Popped
<1>2. tag2 = Untagged \/ Earlier(tag2, loop, begins)
  BY <1>1 DEF Past
<1>3. ASSUME NEW i \in 1 .. Len(r), r[i].kind = "audio" PROVE Earlier(r[i].at, loop, begins)
  <2>1. i + 1 \in 1 .. Len(q) /\ r[i] = q[i + 1]
    BY <1>1
  <2>2. QED BY <1>3, <2>1 DEF Past
<1>4. QED BY <1>2, <1>3 DEF Past

LEMMA SilenceMark ==
  ASSUME NEW c, NEW q, NEW u, NEW s, NEW p, NEW loop \in Nat, NEW ok \in BOOLEAN, NEW begins \in BOOLEAN,
         ChannelInv(c, q, u, s, p, loop, ok), NEW k, MarkHolds(c, q, u, s, k, loop, ok, begins),
         NEW r, Popped(q, r), q[1].kind = "silence", NEW x, Muted(u, x)
  PROVE  MarkHolds(c, r, x, s, k, loop, ok, begins)
<1>1. /\ u \in Encoders /\ (~u.need_header) \in BOOLEAN
      /\ s.steady /\ c.flags = {} => OnTheGrid(c, q, u, s, p, loop, ok)
  BY ChannelParts, Zenon
<1> DEFINE tag == u.guid.tag
           w == Named(u)
           h == u.need_header
<1>2. w \in BOOLEAN /\ h \in BOOLEAN /\ ZeroGuid.tag = Untagged
  BY <1>1, GuidIs
<1>3. /\ k = Untagged \/ k \in 0 .. loop
      /\ ~ok => k = Untagged
      /\ Past(q, tag, loop, begins)
      /\ s.steady /\ c.flags = {} => Tells(c.bcast_active, h, q, w, tag, k, loop, ok)
  BY Zenon DEF MarkHolds
<1>4. x.need_header = h /\ x.guid = ZeroGuid /\ Named(x) \in BOOLEAN /\ ~Named(x)
  BY <1>1 DEF Muted, Encoders, Named
<1>5. ASSUME s.steady, c.flags = {} PROVE h
  <2>1. Quiet(q, ~h) /\ FALSE \in BOOLEAN
    BY <1>1, <1>5 DEF OnTheGrid
  <2>2. QED BY <1>1, <1>2, <2>1, QuietPop
<1> HIDE DEF tag, w, h
<1>6. ASSUME s.steady, c.flags = {}, NEW z \in BOOLEAN, ~z
      PROVE  Tells(c.bcast_active, h, r, z, Untagged, k, loop, ok)
  <2>1. /\ k = loop => c.bcast_active
        /\ ok /\ ~c.bcast_active => FallsSilent(q, w)
        /\ c.bcast_active /\ k \in {loop - 1, loop} => Sounds(q, w)
        /\ k # Untagged => EndsWith(q, w, tag, k)
    BY <1>3, <1>6 DEF Tells
  <2>2. FallsSilent(q, w) => FallsSilent(r, z)
    BY <1>2, <1>6, SilenceTaken
  <2>3. Sounds(q, w) => Sounds(r, z)
    BY <1>2, <1>6, SoundsPop
  <2>4. EndsWith(q, w, tag, k) => EndsWith(r, z, Untagged, k)
    BY <1>2, <1>6, EndsWithPop
  <2>5. QED BY <1>5, <1>6, <2>1, <2>2, <2>3, <2>4 DEF Tells
<1>7. Past(r, Untagged, loop, begins)
  BY <1>3, PastPop
<1>8. QED BY <1>2, <1>3, <1>4, <1>6, <1>7 DEF MarkHolds

(* The audio Run takes is of the interval in the GUID, old or new.         *)
LEMMA AudioMark ==
  ASSUME NEW c, NEW q, NEW u, NEW s, NEW p, NEW loop \in Nat, NEW ok \in BOOLEAN, NEW begins \in BOOLEAN,
         ChannelInv(c, q, u, s, p, loop, ok), NEW k, MarkHolds(c, q, u, s, k, loop, ok, begins),
         NEW r, Popped(q, r), q[1].kind = "audio", NEW v, Headed(u, c.flags, q[1], v),
         NEW x, x.guid = v.guid, x.need_header = v.need_header, NEW t, t.steady = s.steady
  PROVE  MarkHolds(c, r, x, t, k, loop, ok, begins)
<1>1. /\ c \in Channels /\ u \in Encoders /\ Going(u, s) \in BOOLEAN
      /\ s.steady /\ c.flags = {} => OnTheGrid(c, q, u, s, p, loop, ok)
  BY ChannelParts, Zenon
<1> DEFINE tag == u.guid.tag
           w == Named(u)
           h == u.need_header
           b == q[1]
           tag2 == v.guid.tag
<1>2. w \in BOOLEAN /\ h \in BOOLEAN
  BY <1>1, GuidIs
<1>3. /\ k = Untagged \/ k \in 0 .. loop
      /\ ~ok => k = Untagged
      /\ Past(q, tag, loop, begins)
      /\ s.steady /\ c.flags = {} => Tells(c.bcast_active, h, q, w, tag, k, loop, ok)
  BY Zenon DEF MarkHolds
<1>4. /\ b \in Blocks /\ Len(r) \in Nat /\ Len(q) = Len(r) + 1
  <2>1. q \in Seq(Blocks) /\ 1 \in 1 .. Len(q) /\ Len(r) \in Nat /\ Len(q) = Len(r) + 1
    BY DEF Popped
  <2>2. QED BY <2>1, ElementOfSeq
<1>5. /\ ~v.need_header
      /\ h => v.header = v.guid /\ v.header # ZeroGuid /\ tag2 = Tag(c.flags, b)
      /\ ~h => v = u
  <2>1. c.flags \in Flags
    BY <1>1 DEF Channels
  <2>2. QED BY <1>1, <1>4, <2>1, HeaderIs
<1>6. tag2 \in {tag, Untagged} \/ tag2 = b.at
  BY <1>2, <1>5 DEF Tag
<1>7. ASSUME s.steady, c.flags = {} PROVE tag2 = b.at /\ v.guid # ZeroGuid
  <2>1. CASE h
    BY <1>5, <1>7, <2>1 DEF Tag
  <2>2. CASE ~h
    <3>1. /\ ~h /\ ~Going(u, s) => EndsFirst(q, p)
          /\ OneInterval(q, Going(u, s), tag, loop)
      BY <1>1, <1>7 DEF OnTheGrid
    <3>2. Going(u, s)
      <4>1. ~EndsFirst(q, p)
        <5>1. 1 \in 1 .. Len(q) /\ ~EndsIn(q, 0, 1)
          BY <1>4 DEF EndsIn
        <5>2. QED BY <5>1 DEF EndsFirst
      <4>2. QED BY <2>2, <3>1, <4>1
    <3>3. b.at = tag
      <4>1. FALSE \in BOOLEAN
        OBVIOUS
      <4>2. QED BY <1>1, <3>1, <3>2, <4>1, OneIntervalPop
    <3>4. w
      BY <1>3, <1>7, <2>2 DEF Tells
    <3>5. QED BY <1>5, <2>2, <3>3, <3>4 DEF Named
  <2>3. QED BY <1>2, <2>1, <2>2
<1>8. Past(r, tag2, loop, begins)
  BY <1>3, <1>6, PastPop
<1> HIDE DEF tag, w, h, b, tag2
<1>9. ASSUME s.steady, c.flags = {}, NEW z \in BOOLEAN, z = TRUE
      PROVE  Tells(c.bcast_active, FALSE, r, z, tag2, k, loop, ok)
  <2>1. /\ k = loop => c.bcast_active
        /\ ok /\ ~c.bcast_active => FallsSilent(q, w)
        /\ c.bcast_active /\ k \in {loop - 1, loop} => Sounds(q, w)
        /\ k # Untagged => EndsWith(q, w, tag, k)
    BY <1>3, <1>9 DEF Tells
  <2>2. FallsSilent(q, w) => FallsSilent(r, z)
    BY <1>2, SilenceTaken
  <2>3. Sounds(q, w) => Sounds(r, z)
    <3>1. Sounds(q, w) => Sounds(r, z) \/ ~z
      BY <1>2, SoundsPop
    <3>2. QED BY <1>9, <3>1, Zenon
  <2>4. EndsWith(q, w, tag, k) => EndsWith(r, z, tag2, k)
    <3>1. tag2 = q[1].at
      BY <1>7, <1>9 DEF b
    <3>2. QED BY <1>2, <3>1, EndsWithPop
  <2>5. QED BY <1>9, <2>1, <2>2, <2>3, <2>4 DEF Tells
<1>10. /\ x.need_header = v.need_header /\ x.guid.tag = tag2
       /\ s.steady /\ c.flags = {} => Named(x) = TRUE /\ Named(x) \in BOOLEAN
  BY <1>7 DEF Named, tag2
<1>11. v.need_header = FALSE
  <2>1. v.need_header \in BOOLEAN
    <3>1. v \in Encoders
      BY <1>1, <1>4, HeaderIs DEF Channels, b
    <3>2. QED BY <3>1, EncoderIs
  <2>2. QED BY <1>5, <2>1
<1>12. QED BY <1>3, <1>8, <1>9, <1>10, <1>11 DEF MarkHolds

EndPopped(c, q, u, s, p, loop, ok, begins, k, r, x, t) ==
  /\ loop \in Nat /\ ok \in BOOLEAN /\ begins \in BOOLEAN
  /\ ChannelInv(c, q, u, s, p, loop, ok) /\ MarkHolds(c, q, u, s, k, loop, ok, begins)
  /\ Popped(q, r) /\ q[1].kind = "end"
  /\ x.guid = u.guid /\ x.need_header /\ x.need_header \in BOOLEAN /\ t.steady = s.steady

LEMMA EndMark ==
  ASSUME NEW c, NEW q, NEW u, NEW s, NEW p, NEW loop, NEW ok, NEW begins, NEW k,
         NEW r, NEW x, NEW t, EndPopped(c, q, u, s, p, loop, ok, begins, k, r, x, t)
  PROVE  MarkHolds(c, r, x, t, k, loop, ok, begins)
<1> SUFFICES ASSUME loop \in Nat, ok \in BOOLEAN, begins \in BOOLEAN,
                    ChannelInv(c, q, u, s, p, loop, ok), MarkHolds(c, q, u, s, k, loop, ok, begins),
                    Popped(q, r), q[1].kind = "end",
                    x.guid = u.guid, x.need_header, x.need_header \in BOOLEAN, t.steady = s.steady
             PROVE  MarkHolds(c, r, x, t, k, loop, ok, begins)
  BY DEF EndPopped
<1>1. u \in Encoders
  BY ChannelParts, Zenon
<1> DEFINE tag == u.guid.tag
           w == Named(u)
           h == u.need_header
<1>2. w \in BOOLEAN /\ h \in BOOLEAN
  BY <1>1, GuidIs
<1>3. /\ k = Untagged \/ k \in 0 .. loop
      /\ ~ok => k = Untagged
      /\ Past(q, tag, loop, begins)
      /\ s.steady /\ c.flags = {} => Tells(c.bcast_active, h, q, w, tag, k, loop, ok)
  BY Zenon DEF MarkHolds
<1>4. x.need_header = TRUE /\ x.guid.tag = tag /\ Named(x) = w
  BY DEF Named
<1> HIDE DEF tag, w, h
<1>5. ASSUME s.steady, c.flags = {} PROVE Tells(c.bcast_active, TRUE, r, w, tag, k, loop, ok)
  <2>1. /\ k = loop => c.bcast_active
        /\ ok /\ ~c.bcast_active => FallsSilent(q, w)
        /\ c.bcast_active /\ k \in {loop - 1, loop} => Sounds(q, w)
        /\ k # Untagged => EndsWith(q, w, tag, k)
    BY <1>3, <1>5 DEF Tells
  <2>2. FallsSilent(q, w) => FallsSilent(r, w)
    BY <1>2, SilenceTaken
  <2>3. Sounds(q, w) => Sounds(r, w)
    BY <1>2, SoundsPop
  <2>4. EndsWith(q, w, tag, k) => EndsWith(r, w, tag, k)
    BY <1>2, EndsWithPop
  <2>5. QED BY <2>1, <2>2, <2>3, <2>4 DEF Tells
<1>6. Past(r, tag, loop, begins)
  BY <1>3, PastPop
<1>7. QED BY <1>3, <1>4, <1>5, <1>6 DEF MarkHolds

(* The UI changes a channel, takes it away, or disconnects.                *)
LEMMA ChangeMark ==
  ASSUME NEW c, NEW q, NEW u, NEW s, NEW k, NEW loop, NEW ok, NEW begins,
         MarkHolds(c, q, u, s, k, loop, ok, begins),
         NEW d, d.bcast_active = c.bcast_active, NEW t, t.steady => s.steady /\ d.flags = c.flags
  PROVE  MarkHolds(d, q, u, t, k, loop, ok, begins)
BY DEF MarkHolds

LEMMA EmptyMark ==
  ASSUME NEW c, NEW u \in Encoders, NEW s, NEW loop \in 0 .. MaxLoop, NEW ok \in BOOLEAN, NEW begins,
         u.guid.tag = Untagged \/ Earlier(u.guid.tag, loop, begins),
         s.steady /\ c.flags = {} => /\ ~u.need_header => Named(u)
                                     /\ ok /\ ~c.bcast_active => ~Named(u)
  PROVE  MarkHolds(c, <<>>, u, s, Untagged, loop, ok, begins)
<1>1. Named(u) \in BOOLEAN /\ MaxLoop \in Nat /\ Untagged = MaxLoop + 1
  BY GuidIs
<1>2. Past(<<>>, u.guid.tag, loop, begins)
  BY DEF Past
<1>3. Untagged # loop /\ Untagged \notin {loop - 1, loop}
  BY <1>1
<1>4. ASSUME NEW w, ~w PROVE FallsSilent(<<>>, w)
  BY <1>4 DEF FallsSilent, Live
<1>5. ASSUME s.steady, c.flags = {}
      PROVE  Tells(c.bcast_active, u.need_header, <<>>, Named(u), u.guid.tag, Untagged, loop, ok)
  BY <1>3, <1>4, <1>5 DEF Tells
<1>6. QED BY <1>2, <1>5 DEF MarkHolds

LEMMA LeaveMark ==
  ASSUME NEW c, NEW q, NEW u, NEW s, NEW p, NEW loop \in 0 .. MaxLoop, NEW begins,
         ChannelInv(c, q, u, s, p, loop, TRUE), NEW k, MarkHolds(c, q, u, s, k, loop, TRUE, begins),
         NEW ok \in BOOLEAN, ok => ~Marked(q), NEW t, t.steady = s.steady
  PROVE  MarkHolds(c, <<>>, Released(u), t, Untagged, loop, ok, begins)
<1>1. u \in Encoders /\ q \in Seq(Blocks)
  BY ChannelParts, Zenon
<1>2. /\ Released(u) \in Encoders /\ Released(u).guid = u.guid
      /\ Released(u).need_header = u.need_header
  <2>1. ZeroGuid \in Guids /\ <<>> \in Seq(Pieces)
    BY NewIs
  <2>2. QED BY <1>1, <2>1 DEF Released, Encoders
<1>3. ASSUME s.steady, c.flags = {}
      PROVE  /\ ~u.need_header => Named(u)
             /\ ok /\ ~c.bcast_active => ~Named(u)
  <2>1. /\ ~u.need_header => Named(u)
        /\ ~c.bcast_active => FallsSilent(q, Named(u))
    BY <1>3 DEF MarkHolds, Tells
  <2>2. ASSUME ok, FallsSilent(q, Named(u)), Named(u) PROVE FALSE
    <3>1. Len(q) \in Nat /\ 0 \in 0 .. Len(q) /\ Live(q, Named(u), 0)
      BY <1>1, <2>2 DEF Live
    <3>2. PICK j \in 0 + 1 .. Len(q) : q[j].kind = "silence"
      BY <2>2, <3>1 DEF FallsSilent
    <3>3. j \in DOMAIN q /\ q[j] \in Blocks
      BY <1>1, <3>1, ElementOfSeq
    <3>4. q[j] = SILENCE
      BY <3>2, <3>3, KindsOfBlocks
    <3>5. QED BY <2>2, <3>3, <3>4 DEF Marked
  <2>3. QED BY <2>1, <2>2
<1>4. u.guid.tag = Untagged \/ Earlier(u.guid.tag, loop, begins)
  BY DEF MarkHolds, Past
<1> DEFINE x == Released(u)
<1>5. /\ x \in Encoders /\ (x.guid.tag = Untagged \/ Earlier(x.guid.tag, loop, begins))
      /\ t.steady /\ c.flags = {} => /\ ~x.need_header => Named(x)
                                     /\ ok /\ ~c.bcast_active => ~Named(x)
  BY <1>2, <1>3, <1>4 DEF Named
<1> HIDE DEF x
<1>6. MarkHolds(c, <<>>, x, t, Untagged, loop, ok, begins)
  BY <1>5, EmptyMark
<1>7. QED BY <1>6 DEF x

(* The steps.  They are LocalUpload's, of which UploadInv holds.           *)
LEMMA MarkStarts == VideoInit => MarkInv
<1>1. SUFFICES ASSUME VideoInit PROVE MarkInv
  OBVIOUS
<1>2. /\ loopcnt = 0 /\ loopcnt \in 0 .. MaxLoop /\ audio.at = "idle" /\ conn = "on"
      /\ spoke = [ch \in Local |-> Untagged]
  BY <1>1, UploadAssumption DEF VideoInit, Init, Idle
<1>3. ASSUME NEW ch \in Local
      PROVE  MarkHolds(lc[ch], bq[ch], up[ch], server[ch], spoke[ch], loopcnt,
                       conn # "crashed", audio.at # "idle")
  <2>1. bq[ch] = <<>> /\ up[ch] = NewUpload /\ spoke[ch] = Untagged
    BY <1>1, <1>2 DEF VideoInit, Init
  <2>2. NewUpload \in Encoders /\ NewUpload.guid = ZeroGuid /\ NewUpload.need_header
    BY NewIs DEF NewUpload
  <2>3. ZeroGuid.tag = Untagged
    BY DEF ZeroGuid
  <2> DEFINE ok == conn # "crashed"
  <2> DEFINE u == NewUpload
  <2> DEFINE begins == audio.at # "idle"
  <2>4. /\ ok \in BOOLEAN /\ u \in Encoders /\ u.guid.tag = Untagged /\ u.need_header /\ ~Named(u)
    BY <2>2, <2>3 DEF Named
  <2> HIDE DEF ok, u, begins
  <2>5. MarkHolds(lc[ch], <<>>, u, server[ch], Untagged, loopcnt, ok, begins)
    BY <1>2, <2>4, EmptyMark
  <2>6. QED BY <2>1, <2>5 DEF ok, u, begins
<1>4. QED BY <1>2, <1>3 DEF MarkInv

LEMMA MarkEases ==
  ASSUME NEW c, NEW q, NEW u, NEW s, NEW k, NEW loop, NEW ok, NEW begins, NEW begun, begun => begins,
         MarkHolds(c, q, u, s, k, loop, ok, begins)
  PROVE  MarkHolds(c, q, u, s, k, loop, ok, begun)
<1>1. Past(q, u.guid.tag, loop, begins) => Past(q, u.guid.tag, loop, begun)
  BY DEF Past, Earlier
<1>2. QED BY <1>1 DEF MarkHolds

LEMMA MarkStays ==
  ASSUME MarkInv, UNCHANGED <<loopcnt, lc, bq, up, server, spoke>>,
         conn' # "crashed" <=> conn # "crashed", audio'.at # "idle" => audio.at # "idle"
  PROVE  MarkInv'
<1>1. (conn' # "crashed") = (conn # "crashed")
  OBVIOUS
<1>2. ASSUME NEW ch \in Local
      PROVE  MarkHolds(lc'[ch], bq'[ch], up'[ch], server'[ch], spoke'[ch], loopcnt',
                       conn' # "crashed", audio'.at # "idle")
  <2> DEFINE begins == audio.at # "idle"
  <2> DEFINE begun == audio'.at # "idle"
  <2> DEFINE ok == conn # "crashed"
  <2>1. MarkHolds(lc[ch], bq[ch], up[ch], server[ch], spoke[ch], loopcnt, ok, begins)
    BY DEF MarkInv
  <2>2. begun => begins
    OBVIOUS
  <2> HIDE DEF begins, begun, ok
  <2>3. MarkHolds(lc[ch], bq[ch], up[ch], server[ch], spoke[ch], loopcnt, ok, begun)
    BY <2>1, <2>2, MarkEases
  <2>4. MarkHolds(lc'[ch], bq'[ch], up'[ch], server'[ch], spoke'[ch], loopcnt', ok, begun)
    BY <2>3
  <2>5. QED BY <1>1, <2>4 DEF begun, ok
<1>3. QED BY <1>2 DEF MarkInv

LEMMA BoundaryMarks == ASSUME UploadInv, MarkInv, VideoBoundary PROVE MarkInv'
<1>1. /\ conn = "on" /\ conn' = conn /\ loopcnt' = loopcnt + 1 /\ loopcnt < MaxLoop
      /\ up' = up /\ server' = server /\ spoke' = spoke /\ audio.at = "idle"
      /\ lc' = [ch \in Local |-> IF Interval(lc[ch])
                                 THEN [lc[ch] EXCEPT !.bcast_active = lc[ch].broadcasting]
                                 ELSE lc[ch]]
      /\ bq' = [ch \in Local |-> IF Interval(lc[ch]) THEN AddMark(bq[ch], Cut(lc[ch])) ELSE bq[ch]]
  BY DEF VideoBoundary, Boundary
<1>2. audio'.at # "idle"
  BY DEF VideoBoundary, Idle
<1>3. loopcnt \in Nat /\ pos \in Nat /\ loopcnt \in 0 .. MaxLoop /\ DOMAIN spoke = Local
  BY DEF UploadInv, MarkInv
<1>4. (conn # "crashed") = TRUE /\ (conn' # "crashed") = TRUE
      /\ (audio.at # "idle") = FALSE /\ (audio'.at # "idle") = TRUE
  BY <1>1, <1>2
<1>5. ASSUME NEW ch \in Local
      PROVE  MarkHolds(lc'[ch], bq'[ch], up'[ch], server'[ch], spoke'[ch], loopcnt',
                       conn' # "crashed", audio'.at # "idle")
  <2> DEFINE c == lc[ch]
  <2> DEFINE q == bq[ch]
  <2> DEFINE d == lc'[ch]
  <2> DEFINE r == bq'[ch]
  <2>1. ChannelInv(c, q, up[ch], server[ch], pos, loopcnt, TRUE)
    BY <1>4 DEF UploadInv
  <2>2. MarkHolds(c, q, up[ch], server[ch], spoke[ch], loopcnt, TRUE, FALSE)
    BY <1>4 DEF MarkInv
  <2>3. /\ d = (IF Interval(c) THEN [c EXCEPT !.bcast_active = c.broadcasting] ELSE c)
        /\ r = (IF Interval(c) THEN AddMark(q, Cut(c)) ELSE q)
    BY <1>1
  <2> HIDE DEF c, q, d, r
  <2>4. MarkHolds(d, r, up[ch], server[ch], spoke[ch], loopcnt + 1, TRUE, TRUE)
    BY <1>1, <1>3, <2>1, <2>2, <2>3, BoundaryMark
  <2>5. QED BY <1>1, <1>4, <2>4 DEF d, r
<1>6. loopcnt' \in 0 .. MaxLoop /\ DOMAIN spoke' = Local
  BY <1>1, <1>3, UploadAssumption
<1>7. QED BY <1>5, <1>6 DEF MarkInv

LEMMA SamplesMarks ==
  ASSUME UploadInv, MarkInv, NEW long \in SUBSET Local, VideoSamples(long)
  PROVE  MarkInv'
<1>1. /\ ProcessSamples(long, FALSE, FALSE) /\ audio' = audio /\ audio.at = "idle"
      /\ spoke' = [ch \in Local |->
                    IF bq'[ch] # <<>> /\ bq'[ch] # bq[ch] /\ bq'[ch][Len(bq'[ch])].kind = "audio"
                    THEN loopcnt ELSE spoke[ch]]
  BY DEF VideoSamples
<1>2. /\ conn = "on" /\ conn' = conn /\ loopcnt' = loopcnt /\ up' = up
  BY <1>1 DEF ProcessSamples
<1>3. loopcnt \in Nat /\ pos \in Nat /\ loopcnt \in 0 .. MaxLoop
  BY DEF UploadInv, MarkInv
<1>4. (conn # "crashed") = TRUE /\ (conn' # "crashed") = TRUE
      /\ (audio.at # "idle") = FALSE /\ (audio'.at # "idle") = FALSE
  BY <1>1, <1>2
<1>5. ASSUME NEW ch \in Local
      PROVE  MarkHolds(lc'[ch], bq'[ch], up'[ch], server'[ch], spoke'[ch], loopcnt',
                       conn' # "crashed", audio'.at # "idle")
  <2> DEFINE c == lc[ch]
  <2> DEFINE q == bq[ch]
  <2> DEFINE s == server[ch]
  <2> DEFINE far == ch \in long
  <2> DEFINE m == Marks(c, far, FALSE, FALSE)
  <2> DEFINE on == Broadcasts(c, far, FALSE, FALSE)
  <2> DEFINE a == AddMark(q, m)
  <2> DEFINE keep == on /\ Room(a)
  <2> DEFINE b == [kind |-> "audio", at |-> loopcnt, as |-> c.flags]
  <2> DEFINE d == lc'[ch]
  <2> DEFINE r == bq'[ch]
  <2> DEFINE t == server'[ch]
  <2> DEFINE k == spoke[ch]
  <2> DEFINE l == spoke'[ch]
  <2>1. ChannelInv(c, q, up[ch], s, pos, loopcnt, TRUE)
    BY <1>4 DEF UploadInv
  <2>2. MarkHolds(c, q, up[ch], s, k, loopcnt, TRUE, FALSE)
    BY <1>4 DEF MarkInv
  <2>3. c \in Channels /\ q \in Seq(Blocks) /\ far \in BOOLEAN /\ s \in Servers
    <3>1. c \in Channels /\ q \in Seq(Blocks) /\ s \in Servers
      BY <2>1, ChannelParts
    <3>2. far \in BOOLEAN
      OBVIOUS
    <3>3. QED BY <3>1, <3>2
  <2>4. d = [c EXCEPT !.bcast_active = on,
                      !.curbuflen = IF on THEN 1 ELSE IF c.bcast_active \/ Interval(c) THEN 0 ELSE @]
    BY <1>1, Zenon DEF ProcessSamples
  <2>5. r = IF keep THEN Append(a, b) ELSE a
    BY <1>1, Zenon DEF ProcessSamples
  <2>6. t = IF ~on THEN s
            ELSE [s EXCEPT !.recorded = @ + 1, !.dropped = IF keep THEN @ ELSE @ + 1]
    BY <1>1, Zenon DEF ProcessSamples
  <2>7. SpokenIn(q, r, k, loopcnt, l)
    BY <1>1 DEF SpokenIn
  <2> HIDE DEF far, m, on, c
  <2>8. CutsOff(c, m, on)
    BY <2>3, SampleMarks DEF m, on
  <2>9. Joined(q, m, a) /\ on \in BOOLEAN
    BY <2>3, <2>8 DEF Joined, AddMark, CutsOff
  <2>10. keep \in BOOLEAN /\ (keep => on)
    BY <2>9
  <2>11. b \in Blocks /\ b.kind = "audio" /\ b.at = loopcnt
    BY <1>3, <2>3 DEF Blocks, Channels
  <2>12. d.flags = c.flags /\ d.bcast_active = on
    <3> DEFINE n == IF on THEN 1 ELSE IF c.bcast_active \/ Interval(c) THEN 0 ELSE c.curbuflen
    <3>1. d = [c EXCEPT !.bcast_active = on, !.curbuflen = n]
      BY <2>4
    <3> HIDE DEF n, d
    <3>2. QED BY <2>3, <3>1 DEF Channels
  <2>13. Kept(a, keep, b, r)
    BY <2>5 DEF Kept
  <2>14. t.steady = s.steady
    <3>1. Recorded(s, on, keep, t)
      BY <2>6 DEF Recorded
    <3> HIDE DEF s, keep, t
    <3>2. QED BY <2>3, <2>9, <2>10, <3>1, RecordedIs
  <2> HIDE DEF q, s, a, keep, b, d, r, t, k, l
  <2>15. MarkHolds(d, r, up[ch], t, l, loopcnt, TRUE, FALSE)
    <3>1. Joined(q, m, a) /\ keep \in BOOLEAN /\ (keep => on) /\ b \in Blocks
      BY <2>9, <2>10, <2>11
    <3>2. QED BY <1>3, <2>1, <2>2, <2>7, <2>8, <2>11, <2>12, <2>13, <2>14, <3>1, SamplesMark
  <2>16. QED BY <1>2, <1>4, <2>15 DEF d, r, t, l
<1>6. DOMAIN spoke' = Local
  BY <1>1
<1>7. QED BY <1>2, <1>3, <1>5, <1>6 DEF MarkInv

(* A step of Run changes one channel's queue, upload and server.           *)
LEMMA RunMarks ==
  ASSUME UploadInv, MarkInv, run \in Local, NEW r, NEW w, NEW t,
         bq' = [bq EXCEPT ![run] = r], up' = [up EXCEPT ![run] = w],
         server'[run] = t, \A ch \in Local : ch # run => server'[ch] = server[ch],
         UNCHANGED <<shared, lc, spoke, audio>>,
         MarkHolds(lc[run], r, w, t, spoke[run], loopcnt, conn # "crashed", audio.at # "idle")
  PROVE  MarkInv'
<1>1. /\ loopcnt \in 0 .. MaxLoop /\ DOMAIN spoke = Local
      /\ \A ch \in Local :
           MarkHolds(lc[ch], bq[ch], up[ch], server[ch], spoke[ch], loopcnt,
                     conn # "crashed", audio.at # "idle")
  BY DEF MarkInv
<1>2. conn' = conn /\ loopcnt' = loopcnt /\ lc' = lc /\ spoke' = spoke /\ audio' = audio
  BY DEF shared
<1>3. DOMAIN bq = Local /\ DOMAIN up = Local
  BY DEF UploadInv
<1>4. ASSUME NEW ch \in Local
      PROVE  MarkHolds(lc'[ch], bq'[ch], up'[ch], server'[ch], spoke'[ch], loopcnt',
                       conn' # "crashed", audio'.at # "idle")
  <2>1. CASE ch = run
    <3>1. bq'[ch] = r /\ up'[ch] = w /\ server'[ch] = t
      BY <1>3, <2>1
    <3>2. QED BY <1>2, <2>1, <3>1, Zenon
  <2>2. CASE ch # run
    <3>1. bq'[ch] = bq[ch] /\ up'[ch] = up[ch] /\ server'[ch] = server[ch]
      BY <1>3, <2>2
    <3>2. QED BY <1>1, <1>2, <3>1, Zenon
  <2>3. QED BY <2>1, <2>2
<1>5. QED BY <1>1, <1>2, <1>4 DEF MarkInv

LEMMA SteadyStays ==
  ASSUME NEW s \in Servers, NEW u, NEW m
  PROVE  /\ SendWrite(s, u, m).steady = s.steady
         /\ OnEnd(SendWrite(s, u, m), u.guid).steady = s.steady
<1>1. ASSUME NEW g PROVE OnBegin(s, g).steady = s.steady /\ DOMAIN OnBegin(s, g) = DOMAIN s
  BY DEF OnBegin, Servers
<1>2. ASSUME NEW o, o.steady = s.steady, DOMAIN o = DOMAIN s, NEW g
      PROVE  OnWrite(o, g, m).steady = s.steady /\ DOMAIN OnWrite(o, g, m) = DOMAIN s
  BY <1>2 DEF OnWrite, Servers
<1>3. ASSUME NEW o, o.steady = s.steady, DOMAIN o = DOMAIN s, NEW g
      PROVE  OnEnd(o, g).steady = s.steady
  BY <1>3 DEF OnEnd, Servers
<1>4. SendWrite(s, u, m).steady = s.steady /\ DOMAIN SendWrite(s, u, m) = DOMAIN s
  BY <1>1, <1>2 DEF SendWrite
<1>5. QED BY <1>3, <1>4

LEMMA AudioMarks == ASSUME UploadInv, MarkInv, EncodeAudio, UNCHANGED <<spoke, audio>> PROVE MarkInv'
<1> DEFINE q == bq[run]
<1> DEFINE b == bq[run][1]
<1> DEFINE c == lc[run]
<1> DEFINE u == up[run]
<1> DEFINE s == server[run]
<1> DEFINE k == spoke[run]
<1> DEFINE ok == conn # "crashed"
<1> DEFINE begins == audio.at # "idle"
<1>1. /\ run \in Local /\ UNCHANGED <<shared, run, lc>>
      /\ q \in Seq(Blocks) /\ Popped(q, Tail(q)) /\ b.kind = "audio"
      /\ Head(q) = b /\ b \in Blocks
      /\ bq' = [bq EXCEPT ![run] = Tail(q)]
      /\ ChannelInv(c, q, u, s, pos, loopcnt, ok)
      /\ loopcnt \in Nat /\ ok \in BOOLEAN /\ u \in Encoders
  BY EncodeParts DEF EncodeAudio
<1>2. /\ MarkHolds(c, q, u, s, k, loopcnt, ok, begins) /\ begins \in BOOLEAN
      /\ c \in Channels /\ s \in Servers /\ DOMAIN server = Local
  BY <1>1, ChannelParts DEF MarkInv, UploadInv
<1> DEFINE v == NewHeader(u, c.flags, b)
<1> DEFINE e == Append(v.pending, PieceOf(b))
<1>3. PICK ready \in 0 .. Len(e) :
        /\ up' = [up EXCEPT ![run] =
                   [v EXCEPT !.m_enc = TRUE, !.pending = SubSeq(e, ready + 1, Len(e)),
                             !.header = IF ready > 0 THEN ZeroGuid ELSE @]]
        /\ server' = IF ready = 0 THEN server
                     ELSE [server EXCEPT ![run] = SendWrite(s, v, SubSeq(e, 1, ready))]
  BY <1>1 DEF EncodeAudio, PieceOf
<1> DEFINE w == [v EXCEPT !.m_enc = TRUE, !.pending = SubSeq(e, ready + 1, Len(e)),
                          !.header = IF ready > 0 THEN ZeroGuid ELSE @]
<1> DEFINE t == server'[run]
<1>4. Headed(u, c.flags, b, v)
  BY DEF Headed
<1>5. w.guid = v.guid /\ w.need_header = v.need_header
  BY <1>1 DEF NewHeader, Encoders
<1>6. up' = [up EXCEPT ![run] = w]
  BY <1>3
<1>7. t.steady = s.steady /\ \A ch \in Local : ch # run => server'[ch] = server[ch]
  <2>1. SendWrite(s, v, SubSeq(e, 1, ready)).steady = s.steady
    BY <1>2, SteadyStays
  <2>2. QED BY <1>1, <1>2, <1>3, <2>1
<1>8. b = q[1]
  OBVIOUS
<1> HIDE DEF v, e, w, t, q, b, c, u, s, k, ok, begins
<1>9. MarkHolds(c, Tail(q), w, t, k, loopcnt, ok, begins)
  <2>1. Headed(u, c.flags, q[1], v) /\ q[1].kind = "audio"
    BY <1>1, <1>4, <1>8
  <2>2. QED BY <1>1, <1>2, <1>5, <1>7, <2>1, AudioMark
<1>10. QED BY <1>1, <1>6, <1>7, <1>9, RunMarks DEF q, c, k, t, ok, begins

LEMMA EndMarks == ASSUME UploadInv, MarkInv, EncodeEnd, UNCHANGED <<spoke, audio>> PROVE MarkInv'
<1> DEFINE q == bq[run]
<1> DEFINE c == lc[run]
<1> DEFINE u == up[run]
<1> DEFINE s == server[run]
<1> DEFINE k == spoke[run]
<1> DEFINE ok == conn # "crashed"
<1> DEFINE begins == audio.at # "idle"
<1>1. /\ run \in Local /\ UNCHANGED <<shared, run, lc>>
      /\ q \in Seq(Blocks) /\ Popped(q, Tail(q)) /\ q[1].kind = "end"
      /\ bq' = [bq EXCEPT ![run] = Tail(q)]
      /\ ChannelInv(c, q, u, s, pos, loopcnt, ok)
      /\ loopcnt \in Nat /\ ok \in BOOLEAN /\ u \in Encoders
  BY EncodeParts DEF EncodeEnd
<1>2. /\ MarkHolds(c, q, u, s, k, loopcnt, ok, begins) /\ begins \in BOOLEAN
      /\ s \in Servers /\ DOMAIN server = Local
  BY <1>1, ChannelParts DEF MarkInv, UploadInv
<1>3. PICK fresh \in BOOLEAN : up' = [up EXCEPT ![run] = Finish(u, fresh)]
  BY DEF EncodeEnd
<1> DEFINE w == Finish(u, fresh)
<1> DEFINE t == server'[run]
<1>4. Finished(u, fresh, w)
  BY DEF Finished
<1>5. up' = [up EXCEPT ![run] = w]
  BY <1>3
<1>6. t.steady = s.steady /\ \A ch \in Local : ch # run => server'[ch] = server[ch]
  <2>1. OnEnd(SendWrite(s, u, u.pending), u.guid).steady = s.steady
    BY <1>2, SteadyStays
  <2>2. server' = IF ~SendsEnd(u) THEN server
                  ELSE [server EXCEPT ![run] = OnEnd(SendWrite(s, u, u.pending), u.guid)]
    BY DEF EncodeEnd
  <2>3. QED BY <1>1, <1>2, <2>1, <2>2
<1> HIDE DEF w, t, q, c, u, s, k, ok, begins
<1>7. w.guid = u.guid /\ w.need_header /\ w.need_header \in BOOLEAN
  BY <1>1, <1>4, FinishedIs, EncoderIs
<1>8. MarkHolds(c, Tail(q), w, t, k, loopcnt, ok, begins)
  <2>1. EndPopped(c, q, u, s, pos, loopcnt, ok, begins, k, Tail(q), w, t)
    BY <1>1, <1>2, <1>6, <1>7 DEF EndPopped
  <2>2. QED BY <2>1, EndMark
<1>9. QED BY <1>1, <1>5, <1>6, <1>8, RunMarks DEF q, c, k, t, ok, begins

LEMMA SilenceMarks == ASSUME UploadInv, MarkInv, EncodeSilence, UNCHANGED <<spoke, audio>> PROVE MarkInv'
<1> DEFINE q == bq[run]
<1> DEFINE c == lc[run]
<1> DEFINE u == up[run]
<1> DEFINE s == server[run]
<1> DEFINE k == spoke[run]
<1> DEFINE ok == conn # "crashed"
<1> DEFINE begins == audio.at # "idle"
<1>1. /\ run \in Local /\ UNCHANGED <<shared, run, lc>>
      /\ q \in Seq(Blocks) /\ Popped(q, Tail(q)) /\ q[1].kind = "silence"
      /\ bq' = [bq EXCEPT ![run] = Tail(q)]
      /\ ChannelInv(c, q, u, s, pos, loopcnt, ok)
      /\ loopcnt \in Nat /\ ok \in BOOLEAN /\ u \in Encoders
  BY EncodeParts DEF EncodeSilence
<1>2. MarkHolds(c, q, u, s, k, loopcnt, ok, begins) /\ begins \in BOOLEAN
  BY <1>1 DEF MarkInv
<1> DEFINE w == [u EXCEPT !.guid = ZeroGuid]
<1>3. Muted(u, w)
  BY DEF Muted
<1>4. DOMAIN up = Local
  BY DEF UploadInv
<1>5. up' = [up EXCEPT ![run] = w]
  BY <1>1, <1>4 DEF EncodeSilence
<1>6. server'[run] = s /\ \A ch \in Local : ch # run => server'[ch] = server[ch]
  BY <1>1 DEF EncodeSilence
<1> HIDE DEF w, q, c, u, s, k, ok, begins
<1>7. MarkHolds(c, Tail(q), w, s, k, loopcnt, ok, begins)
  BY <1>1, <1>2, <1>3, SilenceMark
<1>8. QED BY <1>1, <1>5, <1>6, <1>7, RunMarks DEF q, c, s, k, ok, begins

LEMMA ChangeMarks ==
  ASSUME UploadInv, MarkInv, NEW l \in Local, NEW broadcast \in BOOLEAN, NEW f \in LocalModes,
         SetLocalChannelInfo(l, broadcast, f), UNCHANGED <<spoke, audio>>
  PROVE  MarkInv'
<1>1. /\ conn' = conn /\ loopcnt' = loopcnt /\ bq' = bq /\ up' = up /\ spoke' = spoke /\ audio' = audio
      /\ lc' = [lc EXCEPT ![l].broadcasting = broadcast, ![l].flags = f]
      /\ server' = [server EXCEPT ![l].steady = @ /\ f = lc[l].flags]
  BY DEF SetLocalChannelInfo, shared
<1>2. /\ loopcnt \in 0 .. MaxLoop /\ DOMAIN spoke = Local
      /\ DOMAIN lc = Local /\ DOMAIN server = Local
  BY DEF MarkInv, UploadInv
<1>3. ASSUME NEW ch \in Local
      PROVE  MarkHolds(lc'[ch], bq'[ch], up'[ch], server'[ch], spoke'[ch], loopcnt',
                       conn' # "crashed", audio'.at # "idle")
  <2>1. MarkHolds(lc[ch], bq[ch], up[ch], server[ch], spoke[ch], loopcnt,
                  conn # "crashed", audio.at # "idle")
    BY DEF MarkInv
  <2>2. CASE ch # l
    <3>1. lc'[ch] = lc[ch] /\ server'[ch] = server[ch]
      BY <1>1, <1>2, <2>2
    <3>2. QED BY <1>1, <2>1, <3>1, Zenon
  <2>3. CASE ch = l
    <3> DEFINE c == lc[ch]
    <3> DEFINE s == server[ch]
    <3> DEFINE d == lc'[ch]
    <3> DEFINE t == server'[ch]
    <3> DEFINE ok == conn # "crashed"
    <3> DEFINE begins == audio.at # "idle"
    <3>1. c \in Channels /\ s \in Servers
      BY ChannelParts DEF UploadInv
    <3>2. d = [c EXCEPT !.broadcasting = broadcast, !.flags = f]
      BY <1>1, <1>2, <2>3
    <3>3. t = [s EXCEPT !.steady = @ /\ f = c.flags]
      BY <1>1, <1>2, <2>3
    <3> HIDE DEF c, s, d, t
    <3>4. d.bcast_active = c.bcast_active /\ d.flags = f
      BY <3>1, <3>2 DEF Channels
    <3>5. t.steady => s.steady /\ f = c.flags
      BY <3>1, <3>3 DEF Servers
    <3>6. MarkHolds(c, bq[ch], up[ch], s, spoke[ch], loopcnt, ok, begins)
      BY <2>1 DEF c, s
    <3> HIDE DEF ok, begins
    <3>7. MarkHolds(d, bq[ch], up[ch], t, spoke[ch], loopcnt, ok, begins)
      BY <3>4, <3>5, <3>6, ChangeMark
    <3>8. QED BY <1>1, <3>7 DEF d, t, ok, begins
  <2>4. QED BY <2>2, <2>3
<1>4. QED BY <1>1, <1>2, <1>3 DEF MarkInv

LEMMA DeleteMarks ==
  ASSUME UploadInv, MarkInv, NEW l \in Local, DeleteLocalChannel(l), audio' = audio,
         spoke' = [spoke EXCEPT ![l] = Untagged]
  PROVE  MarkInv'
<1> DEFINE w == [NewUpload EXCEPT !.n = up[l].n]
<1> DEFINE t == [Lost(server[l]) EXCEPT !.steady = TRUE]
<1>1. /\ conn' = conn /\ loopcnt' = loopcnt /\ audio' = audio
      /\ lc' = [lc EXCEPT ![l] = NewChannel] /\ bq' = [bq EXCEPT ![l] = <<>>]
      /\ up' = [up EXCEPT ![l] = w] /\ server' = [server EXCEPT ![l] = t]
  BY DEF DeleteLocalChannel, shared
<1>2. /\ loopcnt \in 0 .. MaxLoop /\ DOMAIN spoke = Local
      /\ DOMAIN lc = Local /\ DOMAIN bq = Local /\ DOMAIN up = Local /\ DOMAIN server = Local
  BY DEF MarkInv, UploadInv
<1>3. ASSUME NEW ch \in Local
      PROVE  MarkHolds(lc'[ch], bq'[ch], up'[ch], server'[ch], spoke'[ch], loopcnt',
                       conn' # "crashed", audio'.at # "idle")
  <2>1. MarkHolds(lc[ch], bq[ch], up[ch], server[ch], spoke[ch], loopcnt,
                  conn # "crashed", audio.at # "idle")
    BY DEF MarkInv
  <2>2. CASE ch # l
    <3>1. /\ lc'[ch] = lc[ch] /\ bq'[ch] = bq[ch] /\ up'[ch] = up[ch] /\ server'[ch] = server[ch]
          /\ spoke'[ch] = spoke[ch]
      BY <1>1, <1>2, <2>2
    <3>2. QED BY <1>1, <2>1, <3>1, Zenon
  <2>3. CASE ch = l
    <3>1. up[ch] \in Encoders
      BY ChannelParts DEF UploadInv
    <3>2. /\ lc'[ch] = NewChannel /\ bq'[ch] = <<>> /\ up'[ch] = w /\ server'[ch] = t
          /\ spoke'[ch] = Untagged
      BY <1>1, <1>2, <2>3
    <3>3. /\ w \in Encoders /\ w.guid = ZeroGuid /\ w.need_header
      <4>1. up[l].n \in Nat
        BY <2>3, <3>1, EncoderIs
      <4>2. /\ NewUpload \in Encoders /\ NewUpload.guid = ZeroGuid /\ NewUpload.need_header
        BY NewIs DEF NewUpload
      <4>3. QED BY <4>1, <4>2 DEF Encoders
    <3> DEFINE ok == conn # "crashed"
    <3> DEFINE begins == audio.at # "idle"
    <3> DEFINE c == NewChannel
    <3>4. ok \in BOOLEAN /\ ~Named(w) /\ w.guid.tag = Untagged
      BY <3>3 DEF Named, ZeroGuid
    <3> HIDE DEF w, t, ok, begins, c
    <3>5. MarkHolds(c, <<>>, w, t, Untagged, loopcnt, ok, begins)
      BY <1>2, <3>3, <3>4, EmptyMark
    <3>6. QED BY <1>1, <3>2, <3>5 DEF ok, begins, c
  <2>4. QED BY <2>2, <2>3
<1>4. DOMAIN spoke' = Local
  BY <1>2
<1>5. QED BY <1>1, <1>2, <1>3, <1>4 DEF MarkInv

LEMMA LeaveMarks == ASSUME UploadInv, MarkInv, Leave PROVE MarkInv'
<1>1. /\ conn # "crashed" /\ loopcnt' = loopcnt /\ lc' = lc /\ audio' = audio
      /\ conn' = IF \E ch \in Local : Marked(bq[ch]) THEN "crashed" ELSE "off"
      /\ bq' = [ch \in Local |-> <<>>] /\ up' = [ch \in Local |-> Released(up[ch])]
      /\ server' = [ch \in Local |-> Lost(server[ch])]
      /\ spoke' = [ch \in Local |-> Untagged]
  BY DEF Leave, Disconnect
<1>2. loopcnt \in 0 .. MaxLoop
  BY DEF MarkInv
<1>3. ASSUME NEW ch \in Local
      PROVE  MarkHolds(lc'[ch], bq'[ch], up'[ch], server'[ch], spoke'[ch], loopcnt',
                       conn' # "crashed", audio'.at # "idle")
  <2> DEFINE ok == conn' # "crashed"
  <2> DEFINE begins == audio.at # "idle"
  <2> DEFINE t == Lost(server[ch])
  <2>1. (conn # "crashed") = TRUE
    BY <1>1
  <2>2. /\ ChannelInv(lc[ch], bq[ch], up[ch], server[ch], pos, loopcnt, TRUE)
        /\ MarkHolds(lc[ch], bq[ch], up[ch], server[ch], spoke[ch], loopcnt, TRUE, begins)
    BY <2>1 DEF UploadInv, MarkInv
  <2>3. ok \in BOOLEAN /\ (ok => ~Marked(bq[ch]))
    BY <1>1
  <2>4. t.steady = server[ch].steady
    BY <2>2, ChannelParts, LostIs
  <2> HIDE DEF ok, begins, t
  <2>5. MarkHolds(lc[ch], <<>>, Released(up[ch]), t, Untagged, loopcnt, ok, begins)
    BY <1>2, <2>2, <2>3, <2>4, LeaveMark
  <2>6. QED BY <1>1, <2>5 DEF ok, begins, t
<1>4. DOMAIN spoke' = Local
  BY <1>1
<1>5. QED BY <1>1, <1>2, <1>3, <1>4 DEF MarkInv

(* The steps that touch none of it: of the threads of the video, the last  *)
(* of the audio thread ends the boundary.                                  *)
LEMMA MarkSteps == ASSUME UploadInv, MarkInv, [VideoNext]_vvars PROVE MarkInv'
<1>1. ASSUME UNCHANGED <<vars, spoke>>, audio'.at # "idle" => audio.at # "idle" PROVE MarkInv'
  <2>1. UNCHANGED <<loopcnt, lc, bq, up, server, spoke>> /\ (conn' # "crashed" <=> conn # "crashed")
    BY <1>1 DEF vars
  <2>2. QED BY <1>1, <2>1, MarkStays
<1>2. CASE VideoBoundary
  BY <1>2, BoundaryMarks
<1>3. CASE \E long \in SUBSET Local : VideoSamples(long)
  BY <1>3, SamplesMarks
<1>4. CASE RunAudio \/ RunEnds
  <2>1. UNCHANGED <<spoke, audio>>
    BY <1>4 DEF RunAudio, RunEnds
  <2>2. CASE RunStart \/ RunNextChannel
    <3>1. UNCHANGED <<loopcnt, lc, bq, up, server, spoke>> /\ (conn' # "crashed" <=> conn # "crashed")
      BY <2>1, <2>2 DEF RunStart, RunNextChannel, shared
    <3>2. QED BY <2>1, <3>1, MarkStays
  <2>3. CASE EncodeSilence \/ EncodeAudio \/ EncodeEnd
    BY <2>1, <2>3, SilenceMarks, AudioMarks, EndMarks
  <2>4. QED BY <1>4, <2>2, <2>3 DEF RunAudio, RunEnds
<1>5. CASE Controls
  <2>1. UNCHANGED <<spoke, audio>>
    BY <1>5 DEF Controls
  <2>2. CASE Reconnect
    <3>1. UNCHANGED <<loopcnt, lc, bq, up, server, spoke>> /\ (conn' # "crashed" <=> conn # "crashed")
      BY <2>1, <2>2 DEF Reconnect
    <3>2. QED BY <2>1, <3>1, MarkStays
  <2>3. CASE \E ch \in Local, broadcast \in BOOLEAN, f \in LocalModes :
               SetLocalChannelInfo(ch, broadcast, f)
    BY <2>1, <2>3, ChangeMarks
  <2>4. QED BY <1>5, <2>2, <2>3 DEF Controls
<1>6. CASE Leave
  BY <1>6, LeaveMarks
<1>7. CASE \E ch \in Local : RemoveChannel(ch)
  <2>1. PICK ch \in Local : RemoveChannel(ch)
    BY <1>7
  <2>2. /\ DeleteLocalChannel(ch) /\ audio' = audio /\ spoke' = [spoke EXCEPT ![ch] = Untagged]
    BY <2>1 DEF RemoveChannel
  <2>3. QED BY <2>2, DeleteMarks
<1>8. CASE \/ AudioActive \/ AudioEnd \/ AudioDraw \/ AudioBegin \/ AudioMarker \/ AudioSetup
           \/ AudioClose
  <2>1. UNCHANGED <<vars, spoke>> /\ audio.at # "idle"
    BY <1>8 DEF AudioActive, AudioEnd, AudioDraw, AudioBegin, AudioMarker, AudioSetup, AudioClose
  <2>2. QED BY <1>1, <2>1
<1>9. CASE \/ SetVideoChannel \/ AppCheck \/ AppDraw \/ AppBegin \/ AppSetup \/ StopVideoChannel
           \/ (\E there \in BOOLEAN : SetVideoSPSPPS(there)) \/ FrameCheck \/ FrameQueue \/ RunVideo
  <2>1. UNCHANGED <<vars, spoke, audio>>
    BY <1>9 DEF SetVideoChannel, AppCheck, AppDraw, AppBegin, AppSetup, StopVideoChannel,
         SetVideoSPSPPS, FrameCheck, FrameQueue, RunVideo
  <2>2. QED BY <1>1, <2>1
<1>10. CASE UNCHANGED vvars
  <2>1. UNCHANGED <<vars, spoke, audio>>
    BY <1>10 DEF vvars, video
  <2>2. QED BY <1>1, <2>1
<1>11. QED BY <1>2, <1>3, <1>4, <1>5, <1>6, <1>7, <1>8, <1>9, <1>10 DEF VideoNext

(* What the marker names.                                                  *)
LEMMA LeastOf == ASSUME NEW T, T \subseteq Nat, T # {} PROVE Min(T) \in T
<1>1. PICK x \in T : \A y \in T : ~ (<<y, x>> \in OpToRel(<, Nat))
  BY NatLessThanWellFounded, WFMin
<1>2. \A y \in T : x <= y
  <2>1. ASSUME NEW y \in T, y < x PROVE FALSE
    <3>1. <<y, x>> \in OpToRel(<, Nat)
      BY <2>1 DEF OpToRel
    <3>2. QED BY <1>1, <3>1
  <2>2. QED BY <2>1
<1>3. QED BY <1>1, <1>2 DEF Min

LEMMA MarkerIs ==
  ASSUME NEW guid \in Marker
  PROVE  \/ guid = ZeroGuid /\ \A ch \in Local : ~(Interval(lc[ch]) /\ up[ch].guid # ZeroGuid)
         \/ \E ch \in Local : Interval(lc[ch]) /\ up[ch].guid # ZeroGuid /\ guid = up[ch].guid
         \/ guid = TornGuid /\ \E ch \in Local : BeingWritten(ch)
<1> DEFINE uploading == {ch \in Local : Interval(lc[ch]) /\ up[ch].guid # ZeroGuid}
<1>1. guid = MarkerOf(Local) \/ (guid = TornGuid /\ \E ch \in Local : BeingWritten(ch))
  BY DEF Marker
<1>2. CASE guid = MarkerOf(Local) /\ uploading = {}
  BY <1>2 DEF MarkerOf
<1>3. CASE guid = MarkerOf(Local) /\ uploading # {}
  <2>1. uploading \subseteq Nat
    BY UploadAssumption DEF Local
  <2>2. Min(uploading) \in uploading
    BY <1>3, <2>1, LeastOf
  <2>3. guid = up[Min(uploading)].guid
    BY <1>3 DEF MarkerOf
  <2>4. QED BY <2>2, <2>3
<1>4. QED BY <1>1, <1>2, <1>3

(* A queue that Run has done with holds an end at most.                    *)
LEMMA KeptUpSays ==
  ASSUME NEW q, q \in {<<>>, <<END>>}, NEW w \in BOOLEAN, NEW tag, NEW k
  PROVE  /\ Sounds(q, w) => w
         /\ FallsSilent(q, w) => ~w
         /\ EndsWith(q, w, tag, k) /\ w => tag = k
<1>1. /\ Len(q) \in Nat /\ \A i \in 1 .. Len(q) : q[i].kind = "end"
  BY DEF END
<1>2. ASSUME NEW i \in 0 .. Len(q), Live(q, w, i) PROVE i = 0 /\ w
  BY <1>1, <1>2 DEF Live
<1>3. Sounds(q, w) => w
  BY <1>2 DEF Sounds
<1>4. ASSUME w = TRUE PROVE 0 \in 0 .. Len(q) /\ Live(q, w, 0)
  BY <1>1, <1>4 DEF Live
<1>5. ASSUME FallsSilent(q, w), w = TRUE PROVE FALSE
  <2>1. \E j \in 0 + 1 .. Len(q) : q[j].kind = "silence"
    BY <1>4, <1>5 DEF FallsSilent
  <2>2. QED BY <1>1, <2>1
<1>6. ASSUME EndsWith(q, w, tag, k), w = TRUE PROVE tag = k
  <2>1. \A j \in 0 + 1 .. Len(q) : q[j].kind # "audio"
    BY <1>1
  <2>2. At(q, tag, 0) = k
    BY <1>4, <1>6, <2>1 DEF EndsWith
  <2>3. QED BY <2>2 DEF At
<1>7. QED BY <1>3, <1>5, <1>6

LEMMA MarkerTells ==
  ASSUME UploadInv, MarkInv, audio.at = "marker", NEW guid \in Marker
  PROVE  /\ guid.tag < loopcnt \/ guid.tag = Untagged
         /\ KeptUp /\ (\E ch \in Local : GoesOn(ch) /\ Spoke(ch)) /\ ~(\E ch \in Local : Missed(ch))
              => guid.tag = loopcnt - 1
<1>1. (audio.at # "idle") = TRUE /\ loopcnt \in Nat /\ loopcnt \in 0 .. MaxLoop
  BY DEF MarkInv, UploadInv
<1>2. ZeroGuid.tag = Untagged /\ TornGuid.tag = Untagged /\ MaxLoop \in Nat /\ Untagged = MaxLoop + 1
  BY UploadAssumption DEF ZeroGuid, TornGuid, Untagged
<1>3. ASSUME NEW ch \in Local
      PROVE  /\ ChannelInv(lc[ch], bq[ch], up[ch], server[ch], pos, loopcnt, conn # "crashed")
             /\ MarkHolds(lc[ch], bq[ch], up[ch], server[ch], spoke[ch], loopcnt, conn # "crashed", TRUE)
             /\ lc[ch].bcast_active \in BOOLEAN /\ Named(up[ch]) \in BOOLEAN
  <2>1. ChannelInv(lc[ch], bq[ch], up[ch], server[ch], pos, loopcnt, conn # "crashed")
    BY DEF UploadInv
  <2>2. MarkHolds(lc[ch], bq[ch], up[ch], server[ch], spoke[ch], loopcnt, conn # "crashed", TRUE)
    BY <1>1 DEF MarkInv
  <2>3. lc[ch] \in Channels
    BY <2>1, ChannelParts
  <2>4. QED BY <2>1, <2>2, <2>3 DEF Channels, Named
<1>4. guid.tag < loopcnt \/ guid.tag = Untagged
  <2>1. ASSUME NEW ch \in Local PROVE up[ch].guid.tag < loopcnt \/ up[ch].guid.tag = Untagged
    <3>1. Past(bq[ch], up[ch].guid.tag, loopcnt, TRUE)
      BY <1>3 DEF MarkHolds
    <3>2. QED BY <3>1 DEF Past, Earlier
  <2>2. QED BY <1>2, <2>1, MarkerIs
<1>5. ASSUME KeptUp, NEW l \in Local, GoesOn(l), Spoke(l), \A ch \in Local : ~Missed(ch)
      PROVE  guid.tag = loopcnt - 1
  <2>1. /\ \A ch \in Local : bq[ch] \in {<<>>, <<END>>} /\ server[ch].steady
        /\ spoke[l] = loopcnt - 1 /\ lc[l].flags = {} /\ lc[l].bcast_active
    BY <1>5 DEF KeptUp, GoesOn, Spoke, Interval
  <2>2. loopcnt - 1 # Untagged
    BY <1>1, <1>2
  <2>3. (conn # "crashed") = TRUE
    BY <1>3, <2>1, <2>2 DEF MarkHolds
  <2>4. ASSUME NEW ch \in Local, Interval(lc[ch])
        PROVE  Tells(lc[ch].bcast_active, up[ch].need_header, bq[ch], Named(up[ch]),
                     up[ch].guid.tag, spoke[ch], loopcnt, TRUE)
    BY <1>3, <2>1, <2>3, <2>4 DEF MarkHolds, Interval
  <2>5. Named(up[l])
    <3>1. Sounds(bq[l], Named(up[l]))
      BY <2>1, <2>4 DEF Tells, Interval
    <3>2. QED BY <1>3, <2>1, <3>1, KeptUpSays
  <2>6. ASSUME NEW ch \in Local, BeingWritten(ch) PROVE FALSE
    <3>1. bq[ch] = <<END>>
      BY <2>1, <2>6 DEF BeingWritten
    <3>2. Head(bq[ch]) = END
      BY <3>1
    <3>3. QED BY <2>6, <3>2 DEF BeingWritten, END, SILENCE
  <2>7. ASSUME NEW ch \in Local, Interval(lc[ch]), up[ch].guid # ZeroGuid
        PROVE  up[ch].guid.tag = loopcnt - 1
    <3> DEFINE w == Named(up[ch])
    <3> DEFINE q == bq[ch]
    <3> DEFINE tag == up[ch].guid.tag
    <3>1. w = TRUE /\ w \in BOOLEAN /\ q \in {<<>>, <<END>>}
      BY <2>1, <2>7 DEF Named
    <3>2. Tells(lc[ch].bcast_active, up[ch].need_header, q, w, tag, spoke[ch], loopcnt, TRUE)
      BY <2>4, <2>7
    <3> HIDE DEF w, q, tag
    <3>3. lc[ch].bcast_active
      <4>1. ~FallsSilent(q, w)
        BY <3>1, KeptUpSays
      <4>2. QED BY <3>2, <4>1 DEF Tells
    <3>4. spoke[ch] = loopcnt - 1
      BY <1>5, <2>7, <3>3 DEF Missed, GoesOn, Spoke
    <3>5. EndsWith(q, w, tag, loopcnt - 1)
      BY <2>2, <3>2, <3>4 DEF Tells
    <3>6. tag = loopcnt - 1
      BY <3>1, <3>5, KeptUpSays
    <3>7. QED BY <3>6 DEF tag
  <2>8. QED BY <2>1, <2>5, <2>6, <2>7, MarkerIs DEF Named, Interval
<1>6. QED BY <1>4, <1>5

LEMMA MarkerStep ==
  ASSUME UploadInv, MarkInv, OrderInv, AudioMarker
  PROVE  LET names == sendq'[Len(sendq')].names.tag IN
         /\ names < loopcnt \/ names = Untagged
         /\ KeptUp /\ (\E ch \in Local : GoesOn(ch) /\ Spoke(ch)) /\ ~(\E ch \in Local : Missed(ch))
              => names = loopcnt - 1
<1>1. PICK guid \in Marker :
        audio.at = "marker" /\ sendq' = Append(sendq, [kind |-> "marker", guid |-> vid.guid, names |-> guid])
  BY DEF AudioMarker, Queue
<1>2. PICK S : sendq \in Seq(S)
  BY DEF OrderInv, Listed
<1> DEFINE m == [kind |-> "marker", guid |-> vid.guid, names |-> guid]
<1>3. sendq \in Seq(S \union {m}) /\ m \in S \union {m} /\ m.names = guid
  BY <1>2
<1> HIDE DEF m
<1>4. sendq'[Len(sendq')] = m
  <2>1. sendq' = Append(sendq, m)
    BY <1>1 DEF m
  <2>2. QED BY <1>3, <2>1, AppendProperties
<1>5. sendq'[Len(sendq')].names.tag = guid.tag
  BY <1>3, <1>4
<1>6. QED BY <1>1, <1>5, MarkerTells

(* The marker of a video interval never names audio of an interval later   *)
(* than the one that has just ended; and it names the upload of that one   *)
(* when Run has kept up, a channel that spoke in it goes on, and none that *)
(* goes on was silenced by a full queue (on_new_interval, for any number   *)
(* of channels, boundaries, modes and connections).                        *)
THEOREM MarkersNameTheLast == VideoSpec => MarkerNamesLast
<1> DEFINE IInv == UploadInv /\ OpenInv /\ OrderInv /\ MarkInv
<1>1. VideoInit => IInv
  BY UploadStarts, OpenInitially, OrderInitially, MarkStarts DEF VideoInit
<1>2. IInv /\ [VideoNext]_vvars => IInv'
  <2>1. SUFFICES ASSUME IInv, [VideoNext]_vvars PROVE IInv'
    OBVIOUS
  <2>2. [Next]_vars
    BY <2>1, VideoStepUploads DEF vvars
  <2>3. UploadInv' /\ OpenInv'
    BY <2>1, <2>2, UploadSteps, OpenSteps
  <2>4. QED BY <2>1, <2>3, OrderSteps, MarkSteps
<1>3. IInv /\ [VideoNext]_vvars =>
        [AudioMarker =>
           LET names == sendq'[Len(sendq')].names.tag IN
           /\ names < loopcnt \/ names = Untagged
           /\ KeptUp /\ (\E ch \in Local : GoesOn(ch) /\ Spoke(ch)) /\ ~(\E ch \in Local : Missed(ch))
                => names = loopcnt - 1]_vvars
  BY MarkerStep
<1> HIDE DEF IInv
<1>4. QED BY <1>1, <1>2, <1>3, PTL DEF VideoSpec, MarkerNamesLast
=============================================================================
