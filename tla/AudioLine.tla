------------------------------ MODULE AudioLine ------------------------------
(***************************************************************************)
(* One interval-mode audio channel of a remote user, seen alone: what the  *)
(* video receive path can rely on.  The other channels of the user appear  *)
(* as choices: a swap may wait, skip or start nothing because of them.     *)
(* IntervalQueue implements this specification for each of its channels.   *)
(***************************************************************************)
EXTENDS AudioSlots

CONSTANTS MayPostpone,   \* a swap may start nothing (late-start guard)
          MayHold,        \* a swap may make the channel wait
          MaySkip         \* a swap may skip what waits

ASSUME ChoiceAssumption == {MayPostpone, MayHold, MaySkip} \subseteq BOOLEAN

VARIABLES line,      \* ds, next_ds[0], next_ds[1]
          hold       \* hold_swaps

lineVars == <<line, hold>>

LineTypeOK == line \in Slots /\ hold \in 0 .. 1

LineInit == line = NoSlots /\ hold = 0

(* What a channel with these slots and this hold sounds.                   *)
Heard(q, h) == IF h = 0 THEN q[0] ELSE None

Receive(e) == line' = Deliver(line, e) /\ UNCHANGED hold
Mute       == line' = Silence(line) /\ UNCHANGED hold
Flush      == line' = NoSlots /\ hold' = 0

(* A swap between the two steps of a subscribe call may make the channel   *)
(* wait; the second step ends the wait, inside the interval.               *)
Release    == hold' = 0 /\ UNCHANGED line

(* At an interval boundary the line advances, unless it was waiting or     *)
(* nothing may start; then a sibling may make it skip, or wait if one more *)
(* arrival fits.                                                           *)
Advanced(listening) ==
  IF hold > 0 THEN {line}
  ELSE {Advance(line, listening)} \union
       (IF MayPostpone THEN {[line EXCEPT ![0] = None]} ELSE {})
Aligned(s) == {s} \union (IF MaySkip THEN {SkipTo(s, t) : t \in Intervals} ELSE {})
CanHold(s) == MayHold /\ s[0] # None /\ s[2] = None

Boundary(listening) ==
  \E a \in Advanced(listening) : \E s \in Aligned(a) :
    /\ line' = AgeAll(s)
    /\ hold' \in IF CanHold(s) THEN {0, 1} ELSE {0}

LineNext == (\E e \in Entry : Receive(e)) \/ Mute \/ Flush \/ Release
            \/ \E listening \in BOOLEAN : Boundary(listening)

LineSpec == LineInit /\ [][LineNext]_lineVars
=============================================================================
