----------------------------- MODULE AudioSlots -----------------------------
(***************************************************************************)
(* The three decode slots of one remote channel: slot 0 is the interval    *)
(* being played (RemoteUser_Channel::ds), slots 1 and 2 are the ones       *)
(* waiting (next_ds[0], next_ds[1]).  The code walks them in that order    *)
(* itself: DecodeState *q[3] = { ds, next_ds[0], next_ds[1] }.             *)
(*                                                                         *)
(* An entry stands for a DecodeState.  Of the 16 bytes of its GUID it      *)
(* keeps what the code reads back: whether they carry an interval tag, the *)
(* tag's session and its interval number.  An untagged entry (voice chat,  *)
(* a sender that does not tag) has the interval it was recorded in too,    *)
(* but the code cannot see it.  "fresh" says that the download began less  *)
(* than the late-start guard before the coming swap.                       *)
(***************************************************************************)
EXTENDS Integers

CONSTANTS None,       \* an empty slot
          Sessions,   \* sender connections, in the order they are made
          Intervals   \* interval numbers of the sender

ASSUME SessionsAssumption  == Sessions \subseteq Nat
ASSUME IntervalsAssumption == Intervals \subseteq Nat

Entry == [sess : Sessions, iv : Intervals, tagged : BOOLEAN, fresh : BOOLEAN]

ASSUME NoneAssumption == None \notin Entry

SlotIdx   == 0 .. 2
Slots     == [SlotIdx -> Entry \union {None}]
NoSlots   == [i \in SlotIdx |-> None]

(* The guid of e was tagged with interval t (intervalGuidTag).             *)
IsTagged(e)     == e # None /\ e.tagged
HasTag(e, t)    == IsTagged(e) /\ e.iv = t

(* e was recorded after d by the same sender.  A voice chat chunk may      *)
(* start in the interval another upload of the channel started in.         *)
After(e, d) == \/ e.sess > d.sess
               \/ e.sess = d.sess /\ e.iv > d.iv
               \/ e.sess = d.sess /\ e.iv = d.iv /\ ~e.tagged

NotLater(d, e) == d.sess <= e.sess /\ (d.sess = e.sess => d.iv <= e.iv)

(* The slot a new download goes to: useidx = !!next_ds[0].  A full queue   *)
(* loses its last entry.                                                   *)
FreeSlot(q)   == IF q[1] = None THEN 1 ELSE 2
Deliver(q, e) == [q EXCEPT ![FreeSlot(q)] = e]

(* A zero GUID announces silence: what waits in the free slot is deleted.  *)
Silence(q) == [q EXCEPT ![FreeSlot(q)] = None]

(* Drop slot 0 and move the others up, k times.                            *)
Shift(q, k) == [i \in SlotIdx |-> IF i + k \in SlotIdx THEN q[i + k] ELSE None]

(* The swap of a channel the user does not listen to throws its head away. *)
Advance(q, listening) == [Shift(q, 1) EXCEPT ![0] = IF listening THEN q[1] ELSE None]

(* How many entries the skip of alignUserChannels drops: those before the  *)
(* first slot that is empty, untagged or not older than the target.        *)
Stale(e, target) == IsTagged(e) /\ e.iv < target
SkipCount(q, target) ==
  CHOOSE k \in 0 .. 3 : /\ \A i \in 0 .. k - 1 : Stale(q[i], target)
                        /\ k = 3 \/ ~Stale(q[k], target)
SkipTo(q, target) == Shift(q, SkipCount(q, target))

(* Entries wait in recording order and without a hole between them.        *)
NoGap(q)   == q[1] = None => q[2] = None
Ordered(q) == \A i, j \in SlotIdx :
                i < j /\ q[i] # None /\ q[j] # None => After(q[j], q[i])

(* A whole interval later nothing that waits is within the guard any more. *)
Aged(e) == IF e = None THEN None ELSE [e EXCEPT !.fresh = FALSE]
AgeAll(q) == [i \in SlotIdx |-> Aged(q[i])]
=============================================================================
