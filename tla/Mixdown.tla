------------------------------ MODULE Mixdown -------------------------------
(***************************************************************************)
(* A block of audio from the hardware through the client and back: the     *)
(* adapter's processAudio family, NinjamClient::audiostreamOnSamples,      *)
(* NJClient::AudioProc, which cuts the block at the interval's end, and    *)
(* process_samples, which mixes the local channels, the remote channels at *)
(* their own sample rate (mixFloatsNIOutput), the master and the           *)
(* metronome.  The app changes the mix and the connection comes and goes   *)
(* while blocks are under way.                                             *)
(*                                                                         *)
(* A sample is the bag of the sounds in it, each with its source, the      *)
(* frame of the block or of the download it is taken from, and the number  *)
(* of times the master has scaled it.  Levels, pans, effects and meters    *)
(* are left out.  A channel's download always has data here (what happens  *)
(* when it has not is in Playout).                                         *)
(***************************************************************************)
EXTENDS Integers, FiniteSetsExt, Bags

CONSTANTS
  Ports,      \* how the hardware calls: call, ins, outs, engine
  Mixes,      \* what the app may set: enabled, locals, remote, click
  MaxIO,      \* kMaxIOChannels
  SamplesPerInterval,
  SourceRate, \* of the downloads
  OutputRate, \* of the hardware
  Lengths,    \* of blocks
  MaxMixed,   \* bound: blocks
  MaxSettings \* bound: changes of the mix and of the connection

(* The local channels and the remote one, told apart by name.              *)
Locals  == [name : STRING \ {"remote", "click"}, src : Nat, wide : BOOLEAN, out : Nat, mono : BOOLEAN,
            active : BOOLEAN, allowed : BOOLEAN, video : BOOLEAN]
Remotes == [name : {"remote"}, wide : BOOLEAN, out : Nat, mono : BOOLEAN, active : BOOLEAN]
Clickers == [out : Nat, mono : BOOLEAN]

ASSUME MixAssumption ==
  /\ {SamplesPerInterval, SourceRate, OutputRate} \subseteq Nat \ {0}
  /\ MaxIO \in Nat /\ MaxIO >= 2
  /\ Lengths \subseteq Nat \ {0} /\ \E most \in Lengths : \A len \in Lengths : len <= most
  /\ Ports \subseteq [call : {"stereo", "metro", "outs"}, ins : Nat, outs : Nat \ {0}, engine : {1, 2}]
  /\ \A p \in Ports : p.call # "outs" /\ p.engine = 2 => p.outs >= (IF p.call = "metro" THEN 3 ELSE 2)
  /\ Mixes \subseteq [enabled : BOOLEAN, locals : SUBSET Locals, remote : Remotes, click : Clickers]

VARIABLES
  port,       \* the calls of this hardware
  mix,        \* the settings the audio thread reads
  online,     \* connected of the adapter
  up,         \* connected of the client
  phase,      \* of the audio thread: "away", "called", "checked", "mixing", "mixed"
  piece,      \* the block: its frames, the frames mixed, its number
  inputs,     \* what the staging of the inputs holds
  outputs,    \* what the staging of the outputs holds
  hardware,   \* what the last call gave back
  mixPos,     \* m_interval_pos
  reader,     \* of a channel's download: samples taken, resample_state (in 1 / OutputRate)
  way,        \* history: how the block went: "silent", "torn" or "mixed"
  changed,    \* history: the mix was changed during the block
  drifted,    \* history: the remote channel was muted in this interval
  settings    \* history

mixVars == <<port, mix, online, up, phase, piece, inputs, outputs, hardware, mixPos, reader,
             way, changed, drifted, settings>>

Frames    == 0 .. Max(Lengths) - 1
Staging   == 0 .. MaxIO
Silent    == [f \in Frames |-> EmptyBag]
Cleared(o, outs, len) ==
  [c \in Staging |-> [f \in Frames |-> IF c < outs /\ f < len THEN EmptyBag ELSE o[c][f]]]

MixInit ==
  /\ port \in Ports /\ mix \in Mixes
  /\ online \in BOOLEAN /\ up \in BOOLEAN
  /\ phase = "away" /\ piece = [len |-> 0, done |-> 0, block |-> 0]
  /\ inputs = [c \in Staging |-> 0]
  /\ outputs = [c \in Staging |-> Silent] /\ hardware = <<>>
  /\ mixPos = 0 /\ reader = [taken |-> 0, state |-> 0]
  /\ way = "silent" /\ changed = FALSE /\ drifted = FALSE /\ settings = 0
-----------------------------------------------------------------------------
(* The adapter.  A stereo engine is given two inputs and two outputs, and a*)
(* third one for the metronome; processAudioN has more inputs, and         *)
(* processAudioOutN more of both, as many as there is staging for.  A mono *)
(* engine has one output in every call but that.                           *)
InsOf(p) == IF p.ins = 0 THEN p.engine ELSE Min({Max({p.ins, 1}), MaxIO})
OutsOf(p) ==
  CASE p.call = "outs"                     -> Min({p.outs, MaxIO + 1})
    [] p.call = "metro" /\ p.engine = 2    -> 3
    [] OTHER                               -> p.engine

(* What the hardware gets: silence on the outputs that have no staging, and*)
(* the right output of a mono engine as it is.                             *)
Given(p, o) ==
  [c \in {k \in 0 .. p.outs - 1 : p.call = "outs" \/ p.engine = 2 \/ k # 1} |->
     IF c < OutsOf(p) THEN o[c] ELSE Silent]

CallBlock(len) ==
  /\ phase = "away" /\ piece.block < MaxMixed
  /\ piece' = [len |-> len, done |-> 0, block |-> piece.block + 1]
  /\ changed' = FALSE /\ way' = "silent"
  /\ IF online
       THEN /\ phase' = "called"
            /\ inputs' = [c \in Staging |->
                 IF c < InsOf(port) THEN piece.block + 1 ELSE inputs[c]]
            /\ outputs' = CASE port.call = "outs"  -> Cleared(outputs, OutsOf(port), len)
                            [] port.call = "metro" -> [outputs EXCEPT ![2] = Cleared(outputs, 3, len)[2]]
                            [] OTHER               -> outputs
            /\ UNCHANGED hardware
       ELSE /\ hardware' = [c \in 0 .. port.outs - 1 |-> Silent]
            /\ UNCHANGED <<phase, inputs, outputs>>
  /\ UNCHANGED <<port, mix, online, up, mixPos, reader, settings, drifted>>

Return ==
  /\ phase = "mixed" /\ phase' = "away"
  /\ hardware' = Given(port, outputs)
  /\ UNCHANGED <<port, mix, online, up, piece, inputs, outputs, mixPos, reader, settings,
                 way, changed, drifted>>
-----------------------------------------------------------------------------
(* audiostreamOnSamples looks at the flag twice.                           *)
CheckOffline ==
  /\ phase = "called" /\ phase' = "checked"
  /\ outputs' = IF up THEN outputs ELSE Cleared(outputs, OutsOf(port), piece.len)
  /\ way' = IF up THEN "torn" ELSE "silent"
  /\ UNCHANGED <<port, mix, online, up, piece, inputs, hardware, mixPos, reader, settings,
                 changed, drifted>>

CheckOnline ==
  /\ phase = "checked"
  /\ IF up THEN /\ phase' = "mixing" /\ way' = "mixed"
                /\ outputs' = Cleared(outputs, OutsOf(port), piece.len)
           ELSE phase' = "mixed" /\ UNCHANGED <<way, outputs>>
  /\ UNCHANGED <<port, mix, online, up, piece, inputs, hardware, mixPos, reader, settings,
                 changed, drifted>>
-----------------------------------------------------------------------------
(* Where a channel goes: to one output or to two, the last ones if it asks *)
(* for more than there are.                                                *)
FirstOutMutant(outs, want, width) == want
FirstOut(outs, want, width) ==
  Max({IF want + width > outs THEN outs - width ELSE want, 0})
Width(outs, mono) == IF outs < 2 \/ mono THEN 1 ELSE 2

(* The sounds of a source of two sides on output c.                        *)
Sides(outs, r, c, left, right) ==
  LET n == Width(outs, r.mono)
      k == FirstOut(outs, r.out, n)
  IN IF n = 1 THEN IF c = k THEN left \union right ELSE {}
     ELSE IF c = k THEN left ELSE IF c = k + 1 THEN right ELSE {}

(* A local channel of one input, or of two if the second one is there.  A  *)
(* frame of the piece is read at the piece's place in the block.           *)
InputOf(l, c, f) ==
  IF c < InsOf(port) THEN {[who |-> <<l.name, c>>, from |-> f, block |-> inputs[c], scaled |-> 0]}
  ELSE {}
LocalSounds(l, c, f) ==
  LET left  == InputOf(l, l.src, f)
      right == IF l.wide /\ l.src < InsOf(port) /\ l.src + 1 < InsOf(port)
                 THEN InputOf(l, l.src + 1, f) ELSE left
  IN Sides(OutsOf(port), l, c, left, right)

MixedLocals(begun) == {l \in mix.locals : ~l.video /\ (begun => l.allowed)}
FromLocals(begun, c, f) ==
  UNION {LocalSounds(l, c, f) : l \in {k \in MixedLocals(begun) : k.active}}

(* A remote channel: its download is read at its own rate, from where the  *)
(* last piece left.  A muted one is skipped, and its fraction stays.       *)
Needed(len)  == (SourceRate * len + reader.state) \div OutputRate
ReadAt(x)    == reader.taken + (reader.state + SourceRate * x) \div OutputRate
RemoteSounds(r, c, x) ==
  LET side(s) == {[who |-> <<r.name, s>>, from |-> ReadAt(x), block |-> 0, scaled |-> 0]}
  IN Sides(OutsOf(port), r, c, side("left"), side(IF r.wide THEN "right" ELSE "left"))

FromRemote(c, x) == IF mix.remote.active THEN RemoteSounds(mix.remote, c, x) ELSE {}

(* The reader advances by what was needed, whether it is heard or not; the *)
(* fraction only when it is.                                               *)
NextReader(len) ==
  [taken |-> reader.taken + Needed(len),
   state |-> IF mix.remote.active THEN (reader.state + SourceRate * len) % OutputRate
             ELSE reader.state]

(* The master scales the first two outputs.                                *)
Scaled(s)   == [s EXCEPT !.scaled = @ + 1]
Unscaled(s) == [s EXCEPT !.scaled = @ - 1]
Mastered(c, b) ==
  IF c < 2 THEN [s \in {Scaled(x) : x \in DOMAIN b} |-> b[Unscaled(s)]] ELSE b

(* The metronome: on one output, or on two if the second one is there.     *)
ClickPlaceMutant(f) == f - piece.done   \* the outputs are not moved to the piece
ClickPlace(f) == f
Clicks(c, f) ==
  LET k == mix.click
  IN IF c < OutsOf(port) /\ (c = k.out \/ (c = k.out + 1 /\ ~k.mono))
       THEN {[who |-> <<"click", c>>, from |-> ClickPlace(f), block |-> 0, scaled |-> 0]}
       ELSE {}

(* process_samples on len frames: each output, frame by frame.             *)
Processed(len, begun) ==
  [c \in Staging |-> [f \in Frames |->
     IF c >= OutsOf(port) \/ f \notin piece.done .. piece.done + len - 1 THEN outputs[c][f]
     ELSE LET music == FromLocals(begun, c, f)
                         \union IF begun THEN FromRemote(c, f - piece.done) ELSE {}
          IN Mastered(c, outputs[c][f] (+) SetToBag(music))
             (+) SetToBag(IF begun THEN Clicks(c, f) ELSE {})]]

(* AudioProc before the room's tempo is known: the local channels only.    *)
Monitor ==
  /\ phase = "mixing" /\ piece.done = 0 /\ ~mix.enabled
  /\ outputs' = Processed(piece.len, FALSE)
  /\ piece' = [piece EXCEPT !.done = piece.len] /\ phase' = "mixed"
  /\ UNCHANGED <<port, mix, online, up, inputs, hardware, mixPos, reader, settings, way, changed, drifted>>

(* AudioProc, piece by piece; with a new interval the next download plays. *)
NextInterval ==
  /\ phase = "mixing" /\ (mix.enabled \/ piece.done > 0) /\ mixPos = SamplesPerInterval
  /\ mixPos' = 0 /\ reader' = [taken |-> 0, state |-> 0] /\ drifted' = FALSE
  /\ UNCHANGED <<port, mix, online, up, phase, piece, inputs, outputs, hardware, settings,
                 way, changed>>

MixPiece ==
  /\ phase = "mixing" /\ (mix.enabled \/ piece.done > 0) /\ mixPos < SamplesPerInterval
  /\ LET len == Min({piece.len - piece.done, SamplesPerInterval - mixPos}) IN
     /\ outputs' = Processed(len, TRUE)
     /\ reader' = NextReader(len)
     /\ drifted' = (drifted \/ ~mix.remote.active)
     /\ piece' = [piece EXCEPT !.done = @ + len]
     /\ phase' = IF piece'.done = piece.len THEN "mixed" ELSE "mixing"
     /\ mixPos' = mixPos + len
  /\ UNCHANGED <<port, mix, online, up, inputs, hardware, settings, way, changed>>
-----------------------------------------------------------------------------
(* The app and the connection, at any time.                                *)
Change ==
  /\ settings < MaxSettings /\ settings' = settings + 1
  /\ \/ mix' \in Mixes \ {mix} /\ changed' = TRUE /\ UNCHANGED <<online, up>>
     \/ online' = ~online /\ UNCHANGED <<mix, up, changed>>
     \/ up' = ~up /\ UNCHANGED <<mix, online, changed>>
  /\ UNCHANGED <<port, phase, piece, inputs, outputs, hardware, mixPos, reader, way, drifted>>

MixNext ==
  \/ \E len \in Lengths : CallBlock(len)
  \/ CheckOffline \/ CheckOnline \/ Monitor \/ NextInterval \/ MixPiece \/ Return
  \/ Change

MixSpec == MixInit /\ [][MixNext]_mixVars
-----------------------------------------------------------------------------
(* What the hardware gets is this block, mixed once.  Each sound is there  *)
(* once, at its own frame, of this call's input and not of an earlier one; *)
(* the master has scaled the music, on the first two outputs, and not the  *)
(* metronome; and a remote channel goes on, at its own rate, where it would*)
(* be had the interval been one piece.  Every channel that is to be heard  *)
(* is, and a channel heard in one frame is heard in all, on the same       *)
(* outputs, however the interval's end cuts the block.                     *)
(*                                                                         *)
(* Not so: what was in the staging comes again when the connection goes    *)
(* down between the two looks at the flag (way = "torn"); and a channel    *)
(* that was muted is late by the fractions it did not count.               *)
HeardBy(c, f)   == {s.who : s \in DOMAIN hardware[c][f]}
PosOf(f)        == mixPos - piece.len + f
InPlace(s, c, f) ==
  CASE s.who[1] = "click"        -> s.scaled = 0 /\ s.from = f
    [] s.who[1] = mix.remote.name -> /\ s.scaled = IF c < 2 THEN 1 ELSE 0
                                     /\ PosOf(f) >= 0 /\ ~drifted =>
                                          s.from = (SourceRate * PosOf(f)) \div OutputRate
    [] OTHER -> s.scaled = (IF c < 2 THEN 1 ELSE 0) /\ s.from = f /\ s.block = piece.block

MixedOnce ==
  phase = "away" /\ way # "torn" =>
    LET Now == 0 .. piece.len - 1 IN
    /\ \A c \in DOMAIN hardware, f \in Now : \A s \in DOMAIN hardware[c][f] :
         hardware[c][f][s] = 1 /\ InPlace(s, c, f)
    /\ way = "mixed" /\ ~changed =>
         /\ \A c \in DOMAIN hardware, f \in Now : HeardBy(c, f) = HeardBy(c, 0)
         /\ \A r \in {l \in MixedLocals(mix.enabled) : l.active /\ l.src < InsOf(port)}
                    \union {q \in {mix.remote} : q.active /\ mix.enabled} :
              \E c \in DOMAIN hardware : \E w \in HeardBy(c, 0) : w[1] = r.name
=============================================================================
