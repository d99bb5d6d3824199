--------------------------- MODULE IntervalClock ---------------------------
(***************************************************************************)
(* The interval and the metronome (njclient.cpp): the server's tempo takes *)
(* effect at the next boundary, the audio thread cuts its blocks there and *)
(* starts a click on every beat.  Lengths are in samples.                  *)
(*                                                                         *)
(* Three threads meet here.  Run stores a new tempo under m_misc_cs, which *)
(* the audio thread takes at the boundary; Disconnect and Connect reset    *)
(* the clock (_reinit) store by store, without that lock, while a block may*)
(* be under way.  m_interval_pos += x is a read and a write.  How long a   *)
(* click sounds and the session clock are left out.                        *)
(***************************************************************************)
EXTENDS Integers

CONSTANTS Minute,      \* samples in a minute
          Bpms, Bpis,  \* values of a tempo message
          MaxLength,   \* INT_MAX
          ResetLength, \* 1000: m_interval_length before there is a tempo
          ResetTempo,  \* 120 and 32
          BlockSizes,  \* of the sound card
          MaxPlayed,   \* bound: samples played
          MaxTempos    \* bound: tempo messages and resets

ASSUME ClockAssumption ==
  /\ Minute \in Nat /\ MaxLength \in Nat /\ ResetLength \in 1 .. MaxLength
  /\ Bpms \subseteq Nat /\ Bpis \subseteq Nat /\ BlockSizes \subseteq Nat \ {0}
  /\ ResetTempo \in [bpm : Nat \ {0}, bpi : Nat \ {0}]

VARIABLES enabled,  \* m_audio_enable
          tempo,    \* m_bpm, m_bpi
          updated,  \* m_beatinfo_updated
          active,   \* m_active_bpm, m_active_bpi
          length,   \* m_interval_length
          at,       \* m_interval_pos, -1 before the first boundary
          beat,     \* m_metronome_interval, m_metronome_pos
          block,    \* the audio thread in AudioProc: what is left of its block, the piece x,
                    \* the position it has read
          resetting,\* where the UI thread is in _reinit
          played,   \* history: samples played
          tempos,   \* history: tempo messages and resets
          clicks,   \* history: clicks of this interval: where, and accented
          torn      \* history: a reset came while a block was under way

clockVars == <<enabled, tempo, updated, active, length, at, beat, block, resetting, played, tempos,
               clicks, torn>>

NoBlock == [step |-> "idle", left |-> 0, x |-> 0, seen |-> 0]

ClockInit ==
  /\ enabled = FALSE /\ tempo = ResetTempo /\ updated = TRUE /\ active = ResetTempo
  /\ length = ResetLength /\ at = -1 /\ beat = [interval |-> 0, pos |-> 0]
  /\ block = NoBlock /\ resetting = 0
  /\ played = 0 /\ tempos = 0 /\ clicks = {} /\ torn = FALSE
-----------------------------------------------------------------------------
(* Run: a tempo message enables the audio, also if its tempo is refused.   *)
ConfigChange(bpm, bpi) ==
  /\ tempos < MaxTempos /\ tempos' = tempos + 1 /\ resetting = 0
  /\ enabled' = TRUE
  /\ IF bpm = 0 \/ bpi = 0 THEN UNCHANGED <<tempo, updated>>
     ELSE tempo' = [bpm |-> bpm, bpi |-> bpi] /\ updated' = TRUE
  /\ UNCHANGED <<active, length, at, beat, block, resetting, played, clicks, torn>>

(* _reinit.                                                                *)
Resets ==
  torn' = (torn \/ block.step # "idle")

ResetTempoInfo ==
  /\ resetting = 0 /\ resetting' = 1 /\ tempos < MaxTempos /\ tempos' = tempos + 1
  /\ tempo' = ResetTempo /\ updated' = TRUE /\ enabled' = FALSE
  /\ Resets /\ UNCHANGED <<active, length, at, beat, block, played, clicks>>

ResetInterval ==
  /\ resetting = 1 /\ resetting' = 2
  /\ active' = ResetTempo /\ length' = ResetLength
  /\ Resets /\ UNCHANGED <<enabled, tempo, updated, at, beat, block, played, tempos, clicks>>

ResetPosition ==
  /\ resetting = 2 /\ resetting' = 0
  /\ at' = -1 /\ beat' = [interval |-> 0, pos |-> 0] /\ clicks' = {}
  /\ Resets /\ UNCHANGED <<enabled, tempo, updated, active, length, block, played, tempos>>
-----------------------------------------------------------------------------
(* The audio thread.                                                       *)

AudioProc(len) ==
  /\ block.step = "idle" /\ enabled /\ played + len <= MaxPlayed
  /\ block' = [NoBlock EXCEPT !.step = "loop", !.left = len]
  /\ UNCHANGED <<enabled, tempo, updated, active, length, at, beat, resetting, played, tempos, clicks, torn>>

Min2(a, b) == IF a < b THEN a ELSE b
Piece(x) == block' = [block EXCEPT !.step = "play", !.x = Min2(x, block.left), !.seen = at']

Continue ==
  /\ block.step = "loop" /\ block.left > 0
  /\ at >= 0 /\ at # length
  /\ at' = at /\ Piece(length - at)
  /\ UNCHANGED <<enabled, tempo, updated, active, length, beat, resetting, played, tempos, clicks, torn>>

(* The tempo that has arrived, if its interval has a length that fits;     *)
(* then on_new_interval.                                                   *)
Fits(t)     == t.bpm <= t.bpi * Minute /\ t.bpi * Minute <= MaxLength * t.bpm
LengthOf(t) == (t.bpi * Minute) \div t.bpm

BoundaryMutant ==
  /\ block.step = "loop" /\ block.left > 0
  /\ at < 0 \/ at = length
  /\ updated' = FALSE
  /\ IF updated /\ Fits(tempo)
       THEN /\ active' = tempo /\ length' = LengthOf(tempo)
            /\ beat' = [beat EXCEPT !.interval = length' \div tempo.bpi]
            /\ tempo' = tempo
       ELSE /\ tempo' = IF updated THEN active ELSE tempo
            /\ UNCHANGED <<active, length, beat>>
  /\ at' = 0 /\ Piece(length')
  /\ clicks' = {}
  /\ UNCHANGED <<enabled, resetting, played, tempos, torn>>
Boundary ==
  /\ block.step = "loop" /\ block.left > 0
  /\ at < 0 \/ at = length
  /\ updated' = FALSE
  /\ IF updated /\ Fits(tempo)
       THEN /\ active' = tempo /\ length' = LengthOf(tempo)
            /\ beat' = [interval |-> length' \div tempo.bpi, pos |-> 0]
            /\ tempo' = tempo
       ELSE /\ tempo' = IF updated THEN active ELSE tempo
            /\ beat' = [beat EXCEPT !.pos = 0]
            /\ UNCHANGED <<active, length>>
  /\ at' = 0 /\ Piece(length')
  /\ clicks' = {}
  /\ UNCHANGED <<enabled, resetting, played, tempos, torn>>

(* process_samples, the metronome: a click whenever m_metronome_pos is out,*)
(* accented within the first beat.  With p samples to go and n to play,    *)
(* clicks fall on p, p + interval, ...; an interval of no sample clicks on *)
(* each.                                                                   *)
Period == IF beat.interval = 0 THEN 1 ELSE beat.interval
Starts == {i \in 0 .. block.x - 1 : i >= beat.pos /\ (i - beat.pos) % Period = 0}

ProcessSamples ==
  /\ block.step = "play" /\ block' = [block EXCEPT !.step = "advance"]
  /\ clicks' = clicks \union {[where |-> at + i, accent |-> at + i < beat.interval] : i \in Starts}
  /\ beat' = [beat EXCEPT !.pos =
       IF block.x <= beat.pos THEN beat.pos - block.x
       ELSE (Period - ((block.x - beat.pos) % Period)) % Period]
  /\ UNCHANGED <<enabled, tempo, updated, active, length, at, resetting, played, tempos, torn>>

(* m_interval_pos += x: what it adds to may be older than a reset.         *)
Advance ==
  /\ block.step = "advance"
  /\ \E from \in {at, block.seen} : at' = from + block.x
  /\ block' = IF block.left = block.x THEN NoBlock
              ELSE [NoBlock EXCEPT !.step = "loop", !.left = block.left - block.x]
  /\ played' = played + block.x
  /\ UNCHANGED <<enabled, tempo, updated, active, length, beat, resetting, tempos, clicks, torn>>

ClockNext ==
  \/ \E bpm \in Bpms, bpi \in Bpis : ConfigChange(bpm, bpi)
  \/ ResetTempoInfo \/ ResetInterval \/ ResetPosition
  \/ \E len \in BlockSizes : AudioProc(len)
  \/ Continue \/ Boundary \/ ProcessSamples \/ Advance

ClockSpec == ClockInit /\ [][ClockNext]_clockVars
-----------------------------------------------------------------------------
(* However blocks and tempo messages fall, a block is cut into pieces that *)
(* are not empty and do not cross the boundary, the interval under way has *)
(* the length of one tempo, the one announced, and its clicks so far are   *)
(* the beats of that tempo, counted from the boundary, the first alone     *)
(* accented.  Before the first tempo whose interval fits there is no beat. *)
(* A reset in the middle of a block is excepted: nothing keeps _reinit away*)
(* from AudioProc.                                                         *)
BeatsOnTheGrid ==
  ~torn /\ resetting = 0 /\ at >= 0 =>
    /\ block.step \in {"play", "advance"} => 0 < block.x /\ block.x <= block.left /\ at + block.x <= length
    /\ beat.interval > 0 =>
         /\ length = LengthOf(active) /\ beat.interval = length \div active.bpi
         /\ block.step # "advance" =>
              clicks = {[where |-> i, accent |-> i = 0] :
                          i \in {j \in 0 .. at - 1 : j % beat.interval = 0}}
=============================================================================
