----------------------------- MODULE ChannelGrid -----------------------------
(***************************************************************************)
(* IntervalQueue fed by a sender that plays: from its first interval on,   *)
(* every channel delivers one tagged interval per interval of ours, in     *)
(* order.  Channels differ in how late they do (a quiet or gated input     *)
(* only fills its first upload block when the interval ends): lag[ch] is   *)
(* the number of our swaps a channel is behind, fixed once.  The network   *)
(* may stall: a swap comes before some deliveries, which then come with    *)
(* the next ones.                                                          *)
(***************************************************************************)
EXTENDS IntervalQueue

CONSTANTS MaxLag,      \* largest difference of the channels, in swaps
          MaxStalls,   \* network stalls in a run
          MaxSwaps     \* length of a run

VARIABLES lag, due, window, stalls,
          calm   \* swaps since every channel has started and the last stall

gridVars == <<vars, lag, due, window, stalls, calm>>

TheSession == CHOOSE s \in Sessions : TRUE

NextInterval(ch) == IF arrived[ch] = None THEN 1 ELSE arrived[ch].iv + 1

GridInit ==
  /\ chanpresentmask = Channels /\ submask = Channels
  /\ flags = [ch \in Channels |-> {}]
  /\ q = [ch \in Channels |-> NoSlots]
  /\ hold_swaps = [ch \in Channels |-> 0]
  /\ rejoin_grid = [ch \in Channels |-> 0]
  /\ toggling = Idle
  /\ arrived = [ch \in Channels |-> None]
  /\ heard = [ch \in Channels |-> None]
  /\ lag \in [Channels -> 0 .. MaxLag]
  /\ due = [ch \in Channels |-> IF lag[ch] = 0 THEN 1 ELSE 0]
  /\ window = 0
  /\ stalls = 0
  /\ calm = 0

GridDeliver(ch) ==
  /\ due[ch] > 0
  /\ due' = [due EXCEPT ![ch] = @ - 1]
  /\ Arrive(ch, [sess |-> TheSession, iv |-> NextInterval(ch), tagged |-> TRUE, fresh |-> FALSE])
  /\ UNCHANGED <<lag, window, stalls, calm>>

GridSwap ==
  /\ window < MaxSwaps
  /\ IF \A ch \in Channels : due[ch] = 0
       THEN UNCHANGED stalls /\ calm' = IF window < MaxLag THEN 0 ELSE calm + 1
       ELSE stalls < MaxStalls /\ stalls' = stalls + 1 /\ calm' = 0
  /\ window' = window + 1
  /\ due' = [ch \in Channels |-> due[ch] + IF window' >= lag[ch] THEN 1 ELSE 0]
  /\ Swap
  /\ UNCHANGED lag

GridNext == ((\E ch \in Channels : GridDeliver(ch)) \/ GridSwap) /\ Record

GridSpec == GridInit /\ [][GridNext]_gridVars
-----------------------------------------------------------------------------
SoundingChannels == {ch \in Channels : Sounding(ch)}
HeardInterval(ch) == IF heard[ch] = None THEN 0 ELSE heard[ch].iv

(* CHANNEL_ALIGNMENT.md section 3: "Either way the cost is one interval of *)
(* audio on the channels that move, once."  Once the deliveries have been  *)
(* regular for Settle swaps, every swap moves every channel to its next    *)
(* interval: none waits or is skipped any more.                            *)
Settle == MaxLag + 2
CostIsPaidOnce ==
  [][GridSwap /\ calm >= Settle /\ calm' > calm =>
       \A ch \in Channels : Sounding(ch)' /\ heard'[ch].iv = heard[ch].iv + 1]_gridVars
=============================================================================
