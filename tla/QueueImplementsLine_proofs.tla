--------------------- MODULE QueueImplementsLine_proofs ---------------------
(***************************************************************************)
(* Every channel of the queues implements an AudioLine while it goes by    *)
(* the swaps, for any number of channels, modes, sessions and intervals.   *)
(* Voice chat and session channels advance between the boundaries, which   *)
(* no line does; they come to the swaps with an empty queue.               *)
(***************************************************************************)
EXTENDS QueueImplementsLine, IntervalQueue_proofs

LineStep(ch) == UNCHANGED Line(ch)!lineVars \/ Line(ch)!LineNext

(* The operators of the instances are those of the queues.                 *)
LEMMA SameOperators ==
  ASSUME NEW ch \in Channels
  PROVE  /\ Line(ch)!Entry = Entry /\ Line(ch)!NoSlots = NoSlots
         /\ \A s, e : Line(ch)!Deliver(s, e) = Deliver(s, e)
         /\ \A s : Line(ch)!Silence(s) = Silence(s)
         /\ \A s, l : Line(ch)!Advance(s, l) = Advance(s, l)
         /\ \A s, t : Line(ch)!SkipTo(s, t) = SkipTo(s, t)
         /\ \A s : Line(ch)!AgeAll(s) = AgeAll(s)
<1>1. Line(ch)!Entry = Entry
  BY DEF Entry, Line!Entry
<1>2. Line(ch)!NoSlots = NoSlots
  BY DEF NoSlots, Line!NoSlots, SlotIdx, Line!SlotIdx
<1>3. \A s, e : Line(ch)!Deliver(s, e) = Deliver(s, e)
  BY DEF Deliver, Line!Deliver, FreeSlot, Line!FreeSlot
<1>4. \A s : Line(ch)!Silence(s) = Silence(s)
  BY DEF Silence, Line!Silence, FreeSlot, Line!FreeSlot
<1>5. \A s, k : Line(ch)!Shift(s, k) = Shift(s, k)
  BY DEF Shift, Line!Shift, SlotIdx, Line!SlotIdx
<1>6. \A s, l : Line(ch)!Advance(s, l) = Advance(s, l)
  BY <1>5 DEF Advance, Line!Advance
<1>7. \A s, t : Line(ch)!SkipCount(s, t) = SkipCount(s, t)
  BY DEF SkipCount, Line!SkipCount, Stale, Line!Stale, IsTagged, Line!IsTagged
<1>8. \A s, t : Line(ch)!SkipTo(s, t) = SkipTo(s, t)
  BY <1>5, <1>7 DEF SkipTo, Line!SkipTo
<1>9. \A s : Line(ch)!AgeAll(s) = AgeAll(s)
  BY DEF AgeAll, Line!AgeAll, Aged, Line!Aged, SlotIdx, Line!SlotIdx
<1>10. QED BY <1>1, <1>2, <1>3, <1>4, <1>6, <1>8, <1>9

LEMMA LineSteps ==
  ASSUME NEW ch \in Channels
  PROVE  /\ \A e \in Entry : q'[ch] = Deliver(q[ch], e) /\ hold_swaps'[ch] = hold_swaps[ch] => LineStep(ch)
         /\ q'[ch] = Silence(q[ch]) /\ hold_swaps'[ch] = hold_swaps[ch] => LineStep(ch)
         /\ q'[ch] = NoSlots /\ hold_swaps'[ch] = 0 => LineStep(ch)
         /\ q'[ch] = q[ch] /\ hold_swaps'[ch] = 0 => LineStep(ch)
         /\ q'[ch] = q[ch] /\ hold_swaps'[ch] = hold_swaps[ch] => LineStep(ch)
<1>1. \A e \in Entry : q'[ch] = Deliver(q[ch], e) /\ hold_swaps'[ch] = hold_swaps[ch] => LineStep(ch)
  BY SameOperators DEF LineStep, Line!LineNext, Line!Receive
<1>2. q'[ch] = Silence(q[ch]) /\ hold_swaps'[ch] = hold_swaps[ch] => LineStep(ch)
  BY SameOperators DEF LineStep, Line!LineNext, Line!Mute
<1>3. q'[ch] = NoSlots /\ hold_swaps'[ch] = 0 => LineStep(ch)
  BY SameOperators DEF LineStep, Line!LineNext, Line!Flush
<1>4. q'[ch] = q[ch] /\ hold_swaps'[ch] = 0 => LineStep(ch)
  BY DEF LineStep, Line!LineNext, Line!Release
<1>5. q'[ch] = q[ch] /\ hold_swaps'[ch] = hold_swaps[ch] => LineStep(ch)
  BY DEF LineStep, Line!lineVars
<1>6. QED BY <1>1, <1>2, <1>3, <1>4, <1>5
-----------------------------------------------------------------------------
(* At a boundary a line takes what pass 1 leaves, a skip if channels are   *)
(* aligned, and a wait if it has an interval and room for one more.        *)
LEMMA BoundaryStep ==
  ASSUME NEW ch \in Channels, NEW a, NEW s, NEW listening \in BOOLEAN,
         \/ hold_swaps[ch] > 0 /\ a = q[ch]
         \/ ~(hold_swaps[ch] > 0) /\ a = Advance(q[ch], listening)
         \/ ~(hold_swaps[ch] > 0) /\ LateGuard /\ a = [q[ch] EXCEPT ![0] = None],
         s = a \/ (AlignChannels /\ \E t \in Intervals : s = SkipTo(a, t)),
         q'[ch] = AgeAll(s),
         hold_swaps'[ch] = 0 \/ (hold_swaps'[ch] = 1 /\ s[0] # None /\ s[2] = None)
  PROVE  LineStep(ch)
<1>1. a \in Line(ch)!Advanced(listening)
  BY SameOperators DEF Line!Advanced
<1>2. s \in Line(ch)!Aligned(a)
  BY SameOperators DEF Line!Aligned
<1>3. hold_swaps'[ch] \in IF Line(ch)!CanHold(s) THEN {0, 1} ELSE {0}
  BY DEF Line!CanHold
<1>4. Line(ch)!Boundary(listening)
  BY <1>1, <1>2, <1>3, SameOperators DEF Line!Boundary
<1>5. QED BY <1>4 DEF LineStep, Line!LineNext

LEMMA SwapStep ==
  ASSUME IInv, Swap, NEW ch \in Channels, OnSwap(ch)
  PROVE  LineStep(ch)
<1> DEFINE Q1     == [c \in Channels |-> SwapQueue(c)]
           H1     == [c \in Channels |-> SwapHold(c)]
           C      == IF AlignChannels THEN Comparable(Q1, H1) ELSE {}
           A      == IF OneSession(Q1, C) THEN C ELSE {}
           target == Target(Q1, A, Joined)
           Q2     == [c \in Channels |-> IF c \in A THEN SkipTo(Q1[c], target) ELSE Q1[c]]
           H2     == [c \in Channels |-> IF c \in A /\ WaitsFor(Q1[c], target) THEN 1 ELSE H1[c]]
<1>1. /\ q' = [c \in Channels |-> AgeAll(Q2[c])]
      /\ \/ hold_swaps' = H2
         \/ /\ hold_swaps' \in [Channels -> 0 .. 1]
            /\ \A c \in Channels : Placed(q', H2, c, rejoin_grid', hold_swaps')
  BY DEF Swap
<1>2. \A c \in Channels : Q1[c] \in Slots /\ H1[c] = 0
  BY SwapQueueType, SwapHoldZero DEF IInv
<1>3. OnSwap(ch) /\ Listening(ch) \in BOOLEAN
  BY DEF Listening
<1>4. /\ A # {} => AlignChannels
      /\ A \subseteq Channels
      /\ \A c \in A : Q1[c][0] \in Entry
  <2>1. \A c \in Comparable(Q1, H1) : c \in Channels /\ IsTagged(Q1[c][0])
    BY DEF Comparable
  <2>2. \A c \in Channels : IsTagged(Q1[c][0]) => Q1[c][0] \in Entry
    BY <1>2, SlotsAre DEF SlotIdx, MaybeEntry, IsTagged
  <2>3. QED BY <2>1, <2>2
<1>5. A # {} => target \in Nat /\ target \in Intervals
  <2>1. ASSUME A # {} PROVE target \in Nat /\ target \in {Q1[c][0].iv : c \in A}
    BY <1>4, <2>1, TagsSpec DEF Target
  <2>2. \A c \in A : Q1[c][0].iv \in Intervals
    BY <1>4 DEF Entry
  <2>3. QED BY <2>1, <2>2
(* Pass 1.                                                                 *)
<1>6. \/ hold_swaps[ch] > 0 /\ Q1[ch] = q[ch]
      \/ ~(hold_swaps[ch] > 0) /\ Q1[ch] = Advance(q[ch], Listening(ch))
      \/ ~(hold_swaps[ch] > 0) /\ LateGuard /\ Q1[ch] = [q[ch] EXCEPT ![0] = None]
  BY <1>3 DEF SwapQueue, Advances, Waits, LateStart
(* Pass 2.                                                                 *)
<1>7. Q2[ch] = Q1[ch] \/ (AlignChannels /\ \E t \in Intervals : Q2[ch] = SkipTo(Q1[ch], t))
  BY <1>4, <1>5
<1>8. H2[ch] = 0 \/ (H2[ch] = 1 /\ Q2[ch][0] # None /\ Q2[ch][2] = None)
  <2>1. CASE ch \in A /\ WaitsFor(Q1[ch], target)
    <3>1. Q1[ch][0].iv \in Nat /\ target \in Nat /\ Q1[ch][0] # None
      BY <1>4, <1>5, <2>1, EntryType, NoneAssumption
    <3>2. ~Stale(Q1[ch][0], target) /\ Q1[ch][2] = None
      BY <2>1, <3>1 DEF WaitsFor, Stale
    <3>3. Q2[ch] = Q1[ch]
      BY <1>2, <2>1, <3>2, SkipToKeepsHead
    <3>4. QED BY <2>1, <3>1, <3>2, <3>3
  <2>2. CASE ~(ch \in A /\ WaitsFor(Q1[ch], target))
    BY <1>2, <2>2
  <2>3. QED BY <2>1, <2>2
<1>9. Q2[ch] \in Slots
  BY <1>2, SkipToType
<1> HIDE DEF Q1, H1, C, A, target, Q2, H2
(* Pass 3.                                                                 *)
<1>10. q'[ch] = AgeAll(Q2[ch])
  BY <1>1 DEF Q2
<1>11. \A i \in SlotIdx : q'[ch][i] = None <=> Q2[ch][i] = None
  <2>1. \A i \in SlotIdx : q'[ch][i] = Aged(Q2[ch][i])
    BY <1>10 DEF AgeAll
  <2>2. QED BY <2>1, <1>9, SlotsAre, AgedType
<1>12. hold_swaps'[ch] = 0 \/ (hold_swaps'[ch] = 1 /\ Q2[ch][0] # None /\ Q2[ch][2] = None)
  <2>1. CASE hold_swaps'[ch] = H2[ch]
    BY <1>8, <2>1
  <2>2. CASE hold_swaps'[ch] # H2[ch]
    <3>1. Placed(q', H2, ch, rejoin_grid', hold_swaps') /\ hold_swaps'[ch] \in 0 .. 1
      BY <1>1, <2>2 DEF H2
    <3>2. q'[ch][0] # None /\ (hold_swaps'[ch] = 0 \/ q'[ch][2] = None)
      BY <1>3, <2>2, <3>1 DEF Placed
    <3>3. QED BY <1>11, <3>1, <3>2 DEF SlotIdx
  <2>3. QED BY <2>1, <2>2
<1>13. QED BY <1>3, <1>6, <1>7, <1>10, <1>12, BoundaryStep
-----------------------------------------------------------------------------
(* A channel leaves voice chat or session mode by a notice that flushes its*)
(* queue, or with its user.                                                *)
LEMMA ComesToTheGrid ==
  ASSUME IInv, Next, NEW ch \in Channels, ~OnSwap(ch), OnSwap(ch)'
  PROVE  LineStep(ch)
<1>1. /\ q \in [Channels -> Slots] /\ hold_swaps \in [Channels -> 0 .. 1]
      /\ flags \in [Channels -> Modes \union {{}}]
  BY DEF IInv, TypeOK
<1>2. flags' # flags
  BY DEF OnSwap
<1>3. ASSUME NEW c \in Channels, NEW f \in Modes, ChannelActive(c, f) PROVE LineStep(ch)
  <2>1. c = ch /\ flags'[ch] = f
    BY <1>1, <1>3 DEF ChannelActive, OnSwap
  <2>2. ModeBits(flags[ch]) # {} /\ ModeBits(f) = {}
    BY <2>1 DEF OnSwap, ModeBits
  <2>3. q'[ch] = NoSlots /\ hold_swaps'[ch] = 0
    BY <1>1, <1>3, <2>1, <2>2 DEF ChannelActive
  <2>4. QED BY <2>3, LineSteps
<1>4. ASSUME NEW c \in Channels, ChannelInactive(c) PROVE LineStep(ch)
  <2>1. chanpresentmask \ {c} = {}
    BY <1>1, <1>4 DEF ChannelInactive, OnSwap
  <2>2. q'[ch] = NoSlots /\ hold_swaps'[ch] = 0
    BY <1>4, <2>1 DEF ChannelInactive
  <2>3. QED BY <2>2, LineSteps
<1>5. flags' = flags \/ (\E c \in Channels : ChannelInactive(c) \/ \E f \in Modes : ChannelActive(c, f))
  BY DEF Next, Steps, Arrive, ArriveSilence, Toggle, LiveAdvance, SessionPlay, FinishToggle, Swap
<1>6. QED BY <1>2, <1>3, <1>4, <1>5

LEMMA NextIsLineStep ==
  ASSUME IInv, [Next]_vars, NEW ch \in Channels, OnSwap(ch) \/ OnSwap(ch)'
  PROVE  LineStep(ch)
<1>1. CASE ~OnSwap(ch)
  <2>1. Next
    BY <1>1 DEF OnSwap, vars
  <2>2. QED BY <1>1, <2>1, ComesToTheGrid
<1> SUFFICES ASSUME OnSwap(ch) PROVE LineStep(ch)
  BY <1>1
<1>2. /\ q \in [Channels -> Slots] /\ hold_swaps \in [Channels -> 0 .. 1]
      /\ toggling = Idle \/ (toggling.op \in {"sub", "unsub"} /\ toggling.ch \in Channels)
  BY DEF IInv, TypeOK
<1>3. CASE UNCHANGED vars
  BY <1>3, LineSteps DEF vars
<1>4. ASSUME NEW c \in Channels, NEW e \in Entry, Arrive(c, e) PROVE LineStep(ch)
  BY <1>2, <1>4, LineSteps DEF Arrive
<1>5. ASSUME NEW c \in Channels, ArriveSilence(c) PROVE LineStep(ch)
  BY <1>2, <1>5, LineSteps DEF ArriveSilence
<1>6. ASSUME NEW c \in Channels, NEW f \in Modes, ChannelActive(c, f) PROVE LineStep(ch)
  <2>1. \/ q'[ch] = NoSlots /\ hold_swaps'[ch] = 0
        \/ q'[ch] = q[ch] /\ hold_swaps'[ch] = hold_swaps[ch]
    BY <1>2, <1>6 DEF ChannelActive
  <2>2. QED BY <2>1, LineSteps
<1>7. ASSUME NEW c \in Channels, ChannelInactive(c) PROVE LineStep(ch)
  <2>1. \/ q'[ch] = NoSlots /\ hold_swaps'[ch] = 0
        \/ q'[ch] = q[ch] /\ hold_swaps'[ch] = hold_swaps[ch]
    BY <1>7 DEF ChannelInactive
  <2>2. QED BY <2>1, LineSteps
<1>8. ASSUME NEW c \in Channels, Toggle(c) PROVE LineStep(ch)
  BY <1>8, LineSteps DEF Toggle
<1>9. CASE FinishToggle
  <2>1. \/ q'[ch] = NoSlots /\ hold_swaps'[ch] = 0
        \/ q'[ch] = q[ch] /\ hold_swaps'[ch] = 0
        \/ q'[ch] = q[ch] /\ hold_swaps'[ch] = hold_swaps[ch]
    BY <1>2, <1>9 DEF FinishToggle
  <2>2. QED BY <2>1, LineSteps
<1>10. ASSUME NEW c \in Channels, LiveAdvance(c) \/ SessionPlay(c) PROVE LineStep(ch)
  <2>1. q'[ch] = q[ch] /\ hold_swaps'[ch] = hold_swaps[ch]
    BY <1>2, <1>10 DEF LiveAdvance, SessionPlay, OnSwap
  <2>2. QED BY <2>1, LineSteps
<1>11. CASE Swap
  BY <1>11, SwapStep
<1>12. QED
  BY <1>3, <1>4, <1>5, <1>6, <1>7, <1>8, <1>9, <1>10, <1>11 DEF Next, Steps

(* Each channel of the queues is an AudioLine while it goes by the swaps:  *)
(* arrivals, silence, notices, the two-step subscribe calls, the late-start*)
(* guard, holds and skips of on_new_interval are each one step of the line,*)
(* or none, whatever modes its siblings are in; and a channel that comes   *)
(* from voice chat or a session starts an empty line.                      *)
THEOREM QueuesAreLines == Spec => ImplementsLines
<1>1. ASSUME Init, NEW ch \in Channels PROVE Line(ch)!LineInit
  BY <1>1, SameOperators DEF Init, Line!LineInit
<1>2. Init => \A ch \in Channels : Line(ch)!LineInit
  BY <1>1
<1>3. ASSUME IInv, [Next]_vars
      PROVE  [\A ch \in Channels : OnSwap(ch) \/ OnSwap(ch)' =>
                UNCHANGED Line(ch)!lineVars \/ Line(ch)!LineNext]_vars
  BY <1>3, NextIsLineStep DEF LineStep
<1>4. QED BY <1>2, <1>3, Invariance, PTL DEF Spec, ImplementsLines
=============================================================================
