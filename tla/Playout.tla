------------------------------- MODULE Playout -------------------------------
(***************************************************************************)
(* The audio of one remote channel on its way out: mixInChannel and the    *)
(* part of on_new_interval that changes what it plays (njclient.cpp).  The *)
(* decoder reads a download that may still be coming in.  On the interval  *)
(* grid what comes too late is dropped, so that the rest is heard at its   *)
(* place in the interval; in voice chat the downloads follow each other.   *)
(* Time is counted in samples of one rate.  The decoder is external: it    *)
(* gives some of what it could, and all of it when it is asked often       *)
(* enough.  Which interval the grid plays at a swap is told by module      *)
(* IntervalQueue; here it is any choice.                                   *)
(***************************************************************************)
EXTENDS Integers, Sequences, FiniteSetsExt

CONSTANTS Length,        \* m_interval_length
          Prebuffer,     \* samples before a download is queued
          VoiceBuffer,   \* three quarters of a second
          VoiceSlack,    \* more than that by no more than this is left alone
          MaxIntervals   \* bound: downloads in a run

ASSUME PlayoutAssumption ==
  /\ {Length, MaxIntervals} \subseteq Nat \ {0}
  /\ {Prebuffer, VoiceBuffer, VoiceSlack} \subseteq Nat

Intervals == 1 .. MaxIntervals

VARIABLES
  position,     \* m_interval_pos
  voice,        \* the channel is in voice chat
  playing,      \* ds: its interval (0 for none), samples taken and decoded, is_voice_firstchk
  upcoming,     \* next_ds
  dump_samples,
  hold_swaps,
  owed,         \* samples that the block being mixed still wants, in voice chat
  come,         \* samples of each interval that have come
  ended,        \* intervals whose END has come
  newest,       \* the interval that comes in
  heard,        \* history: what the last block played on the grid, and when
  cut           \* history: a voice download gave way before its end

playVars == <<position, voice, playing, upcoming, dump_samples, hold_swaps, owed,
              come, ended, newest, heard, cut>>

NoDecoder == [iv |-> 0, taken |-> 0, decoded |-> 0, first |-> FALSE]
Silence   == [from |-> 0, at |-> 0]

PlayoutInit ==
  /\ position = 0 /\ voice \in BOOLEAN
  /\ playing = NoDecoder /\ upcoming = <<>> /\ dump_samples = 0 /\ hold_swaps = 0 /\ owed = 0
  /\ come = [iv \in Intervals |-> 0] /\ ended = {} /\ newest = 1
  /\ heard = Silence /\ cut = FALSE
-----------------------------------------------------------------------------
(* The network thread.  The intervals of a sender come one after the other;*)
(* each is queued once, when enough of it is there or it is whole, with its *)
(* first samples decoded.                                                  *)
Queue(iv, came) ==
  /\ owed = 0
  /\ \E d \in Min({1, came}) .. came :
       upcoming' = Append(IF upcoming = <<>> THEN <<>> ELSE <<Head(upcoming)>>,
                          [iv |-> iv, taken |-> 0, decoded |-> d, first |-> voice])

Arrive ==
  /\ newest \notin ended /\ come[newest] < Length
  /\ come' = [come EXCEPT ![newest] = @ + 1]
  /\ IF come'[newest] = Prebuffer + 1
       THEN Queue(newest, Prebuffer + 1) ELSE UNCHANGED upcoming
  /\ UNCHANGED <<position, voice, playing, dump_samples, hold_swaps, owed, ended, newest, heard, cut>>

End ==
  /\ newest \notin ended /\ ended' = ended \union {newest}
  /\ IF come[newest] <= Prebuffer
       THEN Queue(newest, come[newest]) ELSE UNCHANGED upcoming
  /\ newest' = IF newest < MaxIntervals THEN newest + 1 ELSE newest
  /\ UNCHANGED <<position, voice, playing, dump_samples, hold_swaps, owed, come, heard, cut>>

(* USERINFO puts the channel in voice chat or back on the grid.            *)
ChangeMode ==
  /\ owed = 0 /\ voice' = ~voice
  /\ playing' = NoDecoder /\ upcoming' = <<>> /\ hold_swaps' = 0 /\ heard' = Silence
  /\ UNCHANGED <<position, dump_samples, owed, come, ended, newest, cut>>
-----------------------------------------------------------------------------
(* The decoding loop: more is decoded until need samples are there, beyond *)
(* those to be dropped, or no more has come.                               *)
Dropped(upto)  == Min({dump_samples, upto - playing.taken})
Ready(upto)    == upto - playing.taken - Dropped(upto)
DecodedMutant(need) == playing.decoded .. come[playing.iv]     \* the loop stops anywhere
Decoded(need) ==
  IF Ready(playing.decoded) > need THEN {playing.decoded}
  ELSE {d \in playing.decoded .. come[playing.iv] : d = come[playing.iv] \/ Ready(d) > need}

(* A block on the grid.  Without enough to play, its samples are owed: they*)
(* are dropped when they come.                                             *)
MixInterval(need) ==
  \E d \in Decoded(need) :
    LET begin == playing.taken + Dropped(d) IN
    IF Ready(d) > 0 /\ Ready(d) >= need
      THEN /\ playing' = [playing EXCEPT !.decoded = d, !.taken = begin + need]
           /\ dump_samples' = dump_samples - Dropped(d)
           /\ heard' = [from |-> begin, at |-> position]
      ELSE /\ playing' = [playing EXCEPT !.decoded = d, !.taken = d]
           /\ dump_samples' = dump_samples - Dropped(d) + need - Ready(d)
           /\ heard' = Silence

GridBlock(len) ==
  /\ ~voice /\ position + len <= Length
  /\ IF hold_swaps > 0 \/ playing.iv = 0
       THEN heard' = Silence /\ UNCHANGED <<playing, dump_samples>>
       ELSE MixInterval(len)
  /\ position' = position + len
  /\ UNCHANGED <<voice, upcoming, hold_swaps, owed, come, ended, newest, cut>>

(* on_new_interval: a held decoder stays; when the next one comes in too   *)
(* late the channel rests for an interval; or the next one plays, which the*)
(* alignment may skip or hold.                                             *)
FreshDumpMutant == dump_samples      \* what was owed stays owed
FreshDump == 0
SwapGrid ==
  \/ /\ hold_swaps > 0 /\ hold_swaps' = 0 /\ UNCHANGED <<playing, upcoming, dump_samples>>
  \/ /\ hold_swaps = 0 /\ playing' = NoDecoder /\ UNCHANGED <<upcoming, dump_samples, hold_swaps>>
  \/ /\ hold_swaps = 0 /\ dump_samples' = FreshDump
     /\ \E skip \in 0 .. Len(upcoming) :
          LET rest == SubSeq(upcoming, skip + 1, Len(upcoming)) IN
          /\ playing' = IF rest = <<>> THEN NoDecoder ELSE Head(rest)
          /\ upcoming' = IF rest = <<>> THEN <<>> ELSE Tail(rest)
     /\ hold_swaps' \in IF playing'.iv # 0 /\ upcoming' = <<>> THEN {0, 1} ELSE {0}

NewInterval ==
  /\ position = Length /\ owed = 0 /\ position' = 0 /\ heard' = Silence
  /\ IF voice THEN UNCHANGED <<playing, upcoming, dump_samples, hold_swaps>> ELSE SwapGrid
  /\ UNCHANGED <<voice, owed, come, ended, newest, cut>>
-----------------------------------------------------------------------------
(* Voice chat.  A block begins ...                                         *)
VoiceBlock(len) ==
  /\ voice /\ owed = 0 /\ position + len <= Length
  /\ position' = position + len /\ owed' = len
  /\ UNCHANGED <<voice, playing, upcoming, dump_samples, hold_swaps, come, ended, newest, heard, cut>>

(* ... with the next download if none plays ...                            *)
TakeNext ==
  /\ owed > 0 /\ playing.iv = 0
  /\ IF upcoming = <<>> THEN owed' = 0 /\ UNCHANGED <<playing, upcoming>>
     ELSE playing' = Head(upcoming) /\ upcoming' = Tail(upcoming) /\ UNCHANGED owed
  /\ UNCHANGED <<position, voice, dump_samples, hold_swaps, come, ended, newest, heard, cut>>

(* ... and takes what there is of it; the first time something is decoded, *)
(* all of it is, and what is more than VoiceBuffer is dropped.  What is    *)
(* still owed comes from the next download, if there is one.               *)
MixVoice ==
  /\ owed > 0 /\ playing.iv # 0
  /\ \E more \in Decoded(owed) :
       LET check == playing.first /\ Ready(playing.decoded) <= owed /\ more > playing.taken
           d     == IF check THEN come[playing.iv] ELSE more
           late  == d - playing.taken - dump_samples - VoiceBuffer - owed
           drop  == dump_samples + (IF check /\ late > VoiceSlack THEN late ELSE 0)
           begin == playing.taken + Min({drop, d - playing.taken})
           n     == Min({owed, d - begin})
           left  == owed - n
       IN /\ dump_samples' = drop - (begin - playing.taken)
          /\ owed' = IF upcoming = <<>> THEN 0 ELSE left
          /\ IF left > 0 /\ upcoming # <<>>
               THEN /\ playing' = Head(upcoming) /\ upcoming' = Tail(upcoming)
                    /\ cut' = (cut \/ playing.iv \notin ended \/ d # come[playing.iv])
               ELSE /\ playing' = [playing EXCEPT !.taken = begin + n, !.decoded = d,
                                                  !.first = @ /\ ~check]
                    /\ UNCHANGED <<upcoming, cut>>
  /\ UNCHANGED <<position, voice, hold_swaps, come, ended, newest, heard>>
-----------------------------------------------------------------------------
PlayoutNext ==
  \/ Arrive \/ End \/ ChangeMode
  \/ \E len \in 1 .. Length : GridBlock(len) \/ VoiceBlock(len)
  \/ NewInterval \/ TakeNext \/ MixVoice

PlayoutSpec == PlayoutInit /\ [][PlayoutNext]_playVars
-----------------------------------------------------------------------------
(* Properties.                                                             *)

(* On the grid what is heard is heard at its place in the interval: after a*)
(* gap, in a download that came in late, the music goes on where it would  *)
(* be without the gap, whatever was held, skipped or played before.  In    *)
(* voice chat a download gives way to the next one only when all of it has *)
(* been heard, or dropped to catch up.                                     *)
HeardInPlace == heard.from = heard.at /\ ~cut
=============================================================================
