------------------------------- MODULE LockStep -------------------------------
(***************************************************************************)
(* What CHANNEL_ALIGNMENT.md promises a listener of one user: "interval k  *)
(* of every channel at the same swap".  At an interval boundary some of    *)
(* the channels start to sound, all of them the same interval, and it is   *)
(* later than any interval they have sounded before.                       *)
(***************************************************************************)
EXTENDS Integers

CONSTANTS Channels, Intervals

VARIABLES sounding,   \* the channels that sound
          latest      \* the last interval each channel has started, 0 for none

TypeOK == /\ sounding \subseteq Channels
          /\ latest \in [Channels -> Intervals \union {0}]

Init == sounding = {} /\ latest = [ch \in Channels |-> 0]

Boundary(S, t) ==
  /\ \A ch \in S : latest[ch] < t
  /\ sounding' = S
  /\ latest' = [ch \in Channels |-> IF ch \in S THEN t ELSE latest[ch]]

Next == \E S \in SUBSET Channels, t \in Intervals : Boundary(S, t)

Spec == Init /\ [][Next]_<<sounding, latest>>
=============================================================================
