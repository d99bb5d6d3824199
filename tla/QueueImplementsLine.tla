------------------------ MODULE QueueImplementsLine ------------------------
(***************************************************************************)
(* Every channel of IntervalQueue is an AudioLine, as long as its queue    *)
(* goes by the swaps (it is not in voice chat or session mode): whatever   *)
(* the siblings, the notices and the UI do, the channel itself appends,    *)
(* mutes, flushes, stops waiting or passes a boundary.                     *)
(***************************************************************************)
EXTENDS IntervalQueue

Line(ch) == INSTANCE AudioLine WITH
              MayPostpone <- LateGuard, MayHold <- TRUE, MaySkip <- AlignChannels,
              line <- q[ch], hold <- hold_swaps[ch]

(* Every channel follows its AudioLine at every step it takes on the grid, *)
(* and comes to the grid with an empty queue: with all channels in interval*)
(* mode, the conjunction over the channels of Line(ch)!LineSpec.           *)
ImplementsLines ==
  /\ \A ch \in Channels : Line(ch)!LineInit
  /\ [][\A ch \in Channels : OnSwap(ch) \/ OnSwap(ch)' =>
          UNCHANGED Line(ch)!lineVars \/ Line(ch)!LineNext]_vars
=============================================================================
