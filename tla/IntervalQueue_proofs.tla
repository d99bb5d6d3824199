------------------------ MODULE IntervalQueue_proofs ------------------------
(***************************************************************************)
(* Theorems about IntervalQueue, for any number of channels, sessions and  *)
(* intervals, every mode, tagged or not, aligned or not.  IInv is the      *)
(* inductive invariant: none of its three parts is inductive alone.  That  *)
(* a hold is at most one swap and that the swap leaves no negative one     *)
(* needs HoldHasAudio (only a channel on the swap counts its hold down),   *)
(* and that a waiting channel keeps its interval while its siblings skip   *)
(* needs the type of the target.  ForwardInv relates the queues to what    *)
(* has been heard, for the theorem that nothing is played twice.           *)
(***************************************************************************)
EXTENDS IntervalQueue, AudioSlots_proofs, WellFoundedInduction

(* A set of naturals has a least element.                                  *)
LEMMA LeastNat ==
  ASSUME NEW S, S \subseteq Nat, S # {} PROVE \E m \in S : \A k \in S : m <= k
<1> DEFINE R == {ss \in Nat \X Nat : ss[1] < ss[2]}
<1>1. OpToRel(<, Nat) = R
  BY DEF OpToRel
<1>2. IsWellFoundedOn(R, Nat)
  BY <1>1, NatLessThanWellFounded
<1>3. \A k, m \in Nat : k < m => <<k, m>> \in R
  OBVIOUS
<1> HIDE DEF R
<1>4. \E m \in S : \A k \in S : ~ (<<k, m>> \in R)
  BY <1>2, WFMin
<1>5. PICK m \in S : \A k \in S : ~ (<<k, m>> \in R)
  BY <1>4
<1>6. \A k \in S : ~ (k < m)
  BY <1>3, <1>5
<1>7. QED BY <1>6

(* A function on a set of channels takes a largest value: the first prefix *)
(* of the channels on which it had none would not be the first.            *)
LEMMA GreatestValue ==
  ASSUME NEW A, A \subseteq Channels, A # {}, NEW f \in [A -> Nat]
  PROVE  \E m \in A : \A c \in A : f[c] <= f[m]
<1> DEFINE Tops(k) == {m \in A : \A c \in A : c < k => f[c] <= f[m]}
           Bad     == {k \in Nat : Tops(k) = {}}
<1>1. A \subseteq Nat /\ \A c \in A : c < NumChannels
  BY NumChannelsAssumption DEF Channels
<1>2. ASSUME Bad # {} PROVE FALSE
  <2>1. PICK k \in Bad : \A j \in Bad : k <= j
    BY <1>2, LeastNat
  <2>2. k # 0
    BY <2>1, <1>1
  <2>3. k - 1 \in Nat /\ k - 1 \notin Bad
    BY <2>1, <2>2
  <2>4. PICK m \in A : \A c \in A : c < k - 1 => f[c] <= f[m]
    BY <2>3
  <2>5. \A c \in A : c < k => c < k - 1 \/ c = k - 1
    BY <1>1, <2>1
  <2>6. CASE k - 1 \in A /\ f[k - 1] > f[m]
    <3>1. k - 1 \in Tops(k)
      BY <2>4, <2>5, <2>6
    <3>2. QED BY <3>1, <2>1
  <2>7. CASE ~(k - 1 \in A /\ f[k - 1] > f[m])
    <3>1. m \in Tops(k)
      BY <2>4, <2>5, <2>7
    <3>2. QED BY <3>1, <2>1
  <2>8. QED BY <2>6, <2>7
<1>3. Tops(NumChannels) # {}
  BY <1>2, NumChannelsAssumption
<1>4. QED BY <1>1, <1>3
-----------------------------------------------------------------------------
IInv == TypeOK /\ HoldHasAudio /\ QueueOrdered

Queues == [Channels -> Slots]

LEMMA OrderedQueues ==
  QueueOrdered <=> \A ch \in Channels : "session" \notin flags[ch] => InOrder(q[ch], arrived[ch])
  BY DEF QueueOrdered, InOrder

LEMMA InitIInv == Init => IInv
<1> SUFFICES ASSUME Init PROVE IInv
  OBVIOUS
<1>1. NoSlots \in Slots
  BY DEF NoSlots, Slots
<1>2. TypeOK
  BY <1>1 DEF Init, TypeOK, Idle
<1>3. HoldHasAudio
  BY DEF Init, HoldHasAudio
<1>4. QueueOrdered
  BY EmptyInOrder, OrderedQueues DEF Init
<1>5. QED BY <1>2, <1>3, <1>4 DEF IInv

LEMMA RecordType ==
  ASSUME TypeOK, q' \in Queues, Record
  PROVE  heard' \in [Channels -> Entry \union {None}]
<1>1. \A ch \in Channels : q'[ch][0] \in MaybeEntry
  BY SlotsAre DEF Queues, SlotIdx
<1>2. \A ch \in Channels : Aged(q'[ch][0]) \in MaybeEntry
  BY <1>1, AgedType
<1>3. QED BY <1>2 DEF Record, TypeOK, MaybeEntry

(* The network thread appends to one queue.                                *)
LEMMA ArriveIInv ==
  ASSUME IInv, NEW ch \in Channels, NEW e \in Entry, Arrive(ch, e), Record
  PROVE  IInv'
<1>1. q \in Queues /\ q[ch] \in Slots /\ arrived[ch] \in MaybeEntry /\ e \in MaybeEntry
  BY DEF IInv, TypeOK, Queues, MaybeEntry
<1>2. q' \in Queues
  BY <1>1, DeliverType DEF Arrive, Queues
<1>3. TypeOK'
  BY <1>2, RecordType DEF Arrive, IInv, TypeOK, Queues
<1>4. HoldHasAudio'
  <2>1. Deliver(q[ch], e)[0] = q[ch][0]
    BY <1>1 DEF Deliver, FreeSlot, Slots, SlotIdx
  <2>2. \A c \in Channels : q'[c][0] = q[c][0]
    BY <1>1, <2>1 DEF Arrive, Queues
  <2>3. QED BY <2>2 DEF Arrive, IInv, HoldHasAudio, OnSwap
<1>5. QueueOrdered'
  <2>1. InOrder(q[ch], arrived[ch]) /\ (arrived[ch] # None => After(e, arrived[ch]))
    BY OrderedQueues DEF Arrive, IInv
  <2>2. InOrder(q'[ch], arrived'[ch])
    BY <1>1, <2>1, DeliverInOrder DEF Arrive, Queues, IInv, TypeOK
  <2>3. \A c \in Channels \ {ch} : q'[c] = q[c] /\ arrived'[c] = arrived[c]
    BY <1>1 DEF Arrive, Queues, IInv, TypeOK
  <2>4. QED BY <2>2, <2>3, OrderedQueues DEF Arrive, IInv, QueueOrdered, InOrder
<1>6. QED BY <1>3, <1>4, <1>5 DEF IInv

LEMMA ArriveSilenceIInv ==
  ASSUME IInv, NEW ch \in Channels, ArriveSilence(ch), Record
  PROVE  IInv'
<1>1. q \in Queues /\ q[ch] \in Slots
  BY DEF IInv, TypeOK, Queues
<1>2. q' \in Queues
  BY <1>1, SilenceType DEF ArriveSilence, Queues
<1>3. TypeOK'
  BY <1>2, RecordType DEF ArriveSilence, IInv, TypeOK, Queues
<1>4. HoldHasAudio'
  <2>1. Silence(q[ch])[0] = q[ch][0]
    BY <1>1 DEF Silence, FreeSlot, Slots, SlotIdx
  <2>2. \A c \in Channels : q'[c][0] = q[c][0]
    BY <1>1, <2>1 DEF ArriveSilence, Queues
  <2>3. QED BY <2>2 DEF ArriveSilence, IInv, HoldHasAudio, OnSwap
<1>5. QueueOrdered'
  <2>1. "session" \notin flags[ch] => InOrder(q[ch], arrived[ch])
    BY OrderedQueues DEF IInv
  <2>2. "session" \notin flags[ch] => InOrder(q'[ch], arrived'[ch])
    BY <1>1, <2>1, SilenceInOrder DEF ArriveSilence, Queues
  <2>3. \A c \in Channels \ {ch} : q'[c] = q[c] /\ arrived'[c] = arrived[c]
    BY <1>1 DEF ArriveSilence, Queues
  <2>4. QED BY <2>2, <2>3, OrderedQueues DEF ArriveSilence, IInv, QueueOrdered, InOrder
<1>6. QED BY <1>3, <1>4, <1>5 DEF IInv

(* A notice that changes the mode of a channel flushes it, any other keeps *)
(* what the mode says of its queue.                                        *)
LEMMA ChannelActiveIInv ==
  ASSUME IInv, NEW ch \in Channels, NEW f \in Modes, ChannelActive(ch, f), Record
  PROVE  IInv'
<1>1. q \in Queues /\ flags \in [Channels -> Modes \union {{}}] /\ NoSlots \in Slots
  BY DEF IInv, TypeOK, Queues, NoSlots, Slots
<1>2. \A c \in Channels \ {ch} : /\ flags'[c] = flags[c] /\ q'[c] = q[c]
                                 /\ hold_swaps'[c] = hold_swaps[c]
  BY <1>1 DEF ChannelActive, IInv, TypeOK, Queues
<1>3. arrived' = arrived /\ flags'[ch] = f
  BY <1>1 DEF ChannelActive
<1>4. CASE ModeBits(flags[ch]) # ModeBits(f)
  <2>1. q'[ch] = NoSlots /\ hold_swaps'[ch] = 0
    BY <1>1, <1>4 DEF ChannelActive, IInv, TypeOK, Queues
  <2>2. q' \in Queues
    BY <1>1, <1>4 DEF ChannelActive, Queues
  <2>3. TypeOK'
    BY <1>4, <2>2, RecordType DEF ChannelActive, IInv, TypeOK, Queues
  <2>4. HoldHasAudio'
    BY <1>2, <2>1 DEF IInv, HoldHasAudio, OnSwap
  <2>5. QueueOrdered'
    BY <1>2, <1>3, <2>1, EmptyInOrder, OrderedQueues DEF IInv, QueueOrdered, InOrder
  <2>6. QED BY <2>3, <2>4, <2>5 DEF IInv
<1>5. CASE ModeBits(flags[ch]) = ModeBits(f)
  <2>1. q' = q /\ hold_swaps' = hold_swaps
    BY <1>5 DEF ChannelActive
  <2>2. TypeOK'
    BY <1>1, <1>5, <2>1, RecordType DEF ChannelActive, IInv, TypeOK, Queues
  <2>3. \A c \in Channels : /\ "session" \in flags'[c] <=> "session" \in flags[c]
                            /\ OnSwap(c)' <=> OnSwap(c)
    <3>1. ("session" \in f <=> "session" \in flags[ch])
      BY <1>5 DEF ModeBits
    <3>2. f \intersect {"live", "session"} = flags[ch] \intersect {"live", "session"}
      BY <1>5 DEF ModeBits
    <3>3. QED BY <1>2, <1>3, <3>1, <3>2 DEF OnSwap
  <2>4. HoldHasAudio'
    BY <2>1, <2>3 DEF IInv, HoldHasAudio
  <2>5. QueueOrdered'
    BY <1>3, <2>1, <2>3 DEF IInv, QueueOrdered
  <2>6. QED BY <2>2, <2>4, <2>5 DEF IInv
<1>6. QED BY <1>4, <1>5

LEMMA ChannelInactiveIInv ==
  ASSUME IInv, NEW ch \in Channels, ChannelInactive(ch), Record
  PROVE  IInv'
<1> DEFINE left == chanpresentmask \ {ch}
           gone == IF left = {} THEN Channels ELSE {ch}
<1>1. q \in Queues /\ NoSlots \in Slots /\ arrived' = arrived
  BY DEF IInv, TypeOK, Queues, NoSlots, Slots, ChannelInactive
<1>2. q' = [c \in Channels |-> IF c \in gone THEN NoSlots ELSE q[c]]
  BY DEF ChannelInactive
<1>3. hold_swaps' = [c \in Channels |-> IF c \in gone THEN 0 ELSE hold_swaps[c]]
  BY DEF ChannelInactive
<1>4. \A c \in Channels \ gone : flags'[c] = flags[c]
  BY DEF ChannelInactive
<1>5. q' \in Queues
  BY <1>1, <1>2 DEF Queues
<1>6. TypeOK'
  BY <1>3, <1>5, RecordType DEF ChannelInactive, IInv, TypeOK, Queues
<1> HIDE DEF gone
<1>7. HoldHasAudio'
  BY <1>2, <1>3, <1>4 DEF IInv, HoldHasAudio, OnSwap
<1>8. QueueOrdered'
  <2>1. \A c \in Channels : c \in gone => InOrder(q'[c], arrived'[c])
    BY <1>2, EmptyInOrder
  <2>2. \A c \in Channels : c \notin gone => q'[c] = q[c] /\ flags'[c] = flags[c]
    BY <1>2, <1>4
  <2>3. QED BY <1>1, <2>1, <2>2, OrderedQueues DEF IInv, QueueOrdered, InOrder
<1>9. QED BY <1>6, <1>7, <1>8 DEF IInv

(* The mask changes first: nothing about the queues depends on it.         *)
LEMMA ToggleIInv ==
  ASSUME IInv, NEW ch \in Channels, Toggle(ch), Record
  PROVE  IInv'
<1>1. q' \in Queues
  BY DEF Toggle, IInv, TypeOK, Queues
<1>2. TypeOK'
  BY <1>1, RecordType DEF Toggle, IInv, TypeOK
<1>3. HoldHasAudio' /\ QueueOrdered'
  BY DEF Toggle, IInv, HoldHasAudio, OnSwap, QueueOrdered
<1>4. QED BY <1>2, <1>3 DEF IInv

LEMMA FinishToggleIInv ==
  ASSUME IInv, FinishToggle, Record
  PROVE  IInv'
<1> DEFINE ch == toggling.ch
<1>1. q \in Queues /\ NoSlots \in Slots /\ ch \in Channels
  BY DEF IInv, TypeOK, Queues, NoSlots, Slots, FinishToggle
<1>2. hold_swaps' = [hold_swaps EXCEPT ![ch] = 0] /\ flags' = flags /\ arrived' = arrived
  BY DEF FinishToggle
<1>3. \A c \in Channels : q'[c] = q[c] \/ (c = ch /\ q'[c] = NoSlots)
  BY <1>1 DEF FinishToggle, Queues
<1>4. q' \in Queues
  BY <1>1 DEF FinishToggle, Queues
<1>5. TypeOK'
  BY <1>1, <1>4, RecordType DEF FinishToggle, IInv, TypeOK, Queues
<1> HIDE DEF ch
<1>6. HoldHasAudio'
  BY <1>1, <1>2, <1>3 DEF IInv, TypeOK, HoldHasAudio, OnSwap
<1>7. QueueOrdered'
  BY <1>2, <1>3, EmptyInOrder, OrderedQueues DEF IInv, QueueOrdered, InOrder
<1>8. QED BY <1>5, <1>6, <1>7 DEF IInv

LEMMA LiveAdvanceIInv ==
  ASSUME IInv, NEW ch \in Channels, LiveAdvance(ch), Record
  PROVE  IInv'
<1>1. q \in Queues /\ q[ch] \in Slots /\ hold_swaps[ch] = 0
  BY DEF IInv, TypeOK, Queues, LiveAdvance
<1>2. q' = [q EXCEPT ![ch] = Shift(q[ch], 1)] /\ arrived' = arrived /\ flags' = flags
  BY DEF LiveAdvance
<1>3. q' \in Queues
  BY <1>1, <1>2, ShiftType DEF Queues
<1>4. TypeOK'
  BY <1>3, RecordType DEF LiveAdvance, IInv, TypeOK, Queues
<1>5. HoldHasAudio'
  BY <1>1, <1>2 DEF LiveAdvance, IInv, Queues, HoldHasAudio, OnSwap
<1>6. QueueOrdered'
  <2>1. InOrder(q[ch], arrived[ch]) => InOrder(Shift(q[ch], 1), arrived[ch])
    BY <1>1, ShiftInOrder
  <2>2. q'[ch] = Shift(q[ch], 1) /\ \A c \in Channels \ {ch} : q'[c] = q[c]
    BY <1>1, <1>2 DEF Queues
  <2>3. QED BY <1>2, <2>1, <2>2, OrderedQueues DEF IInv, QueueOrdered, InOrder
<1>7. QED BY <1>4, <1>5, <1>6 DEF IInv

LEMMA SessionPlayIInv ==
  ASSUME IInv, NEW ch \in Channels, SessionPlay(ch), Record
  PROVE  IInv'
<1>1. q \in Queues /\ hold_swaps[ch] = 0 /\ "session" \in flags[ch]
  BY DEF IInv, TypeOK, Queues, SessionPlay
<1>2. PICK e \in Entry \union {None} : q' = [q EXCEPT ![ch][0] = e]
  BY DEF SessionPlay
<1>3. q' \in Queues
  BY <1>1, <1>2 DEF Queues, Slots, SlotIdx
<1>4. TypeOK'
  BY <1>3, RecordType DEF SessionPlay, IInv, TypeOK, Queues
<1>5. \A c \in Channels \ {ch} : q'[c] = q[c]
  BY <1>1, <1>2 DEF Queues
<1>6. HoldHasAudio' /\ QueueOrdered'
  BY <1>1, <1>5 DEF SessionPlay, IInv, HoldHasAudio, OnSwap, QueueOrdered
<1>7. QED BY <1>4, <1>6 DEF IInv
-----------------------------------------------------------------------------
(* The swap.  The channels alignUserChannels compares have tags, so there  *)
(* is an earliest and a latest one.                                        *)
LEMMA TagsSpec ==
  ASSUME NEW Q, NEW A, A \subseteq Channels, A # {}, \A ch \in A : Q[ch][0] \in Entry
  PROVE  /\ Earliest(Q, A) \in Nat /\ \A ch \in A : Earliest(Q, A) <= Q[ch][0].iv
         /\ Latest(Q, A) \in Nat   /\ \A ch \in A : Latest(Q, A) >= Q[ch][0].iv
         /\ {Earliest(Q, A), Latest(Q, A)} \subseteq {Q[ch][0].iv : ch \in A}
<1> DEFINE S == {Q[ch][0].iv : ch \in A}
           f == [ch \in A |-> Q[ch][0].iv]
<1>1. \A ch \in A : Q[ch][0].iv \in Nat
  BY EntryType
<1>2. S \subseteq Nat /\ S # {} /\ f \in [A -> Nat]
  BY <1>1
<1>3. \E t \in S : \A ch \in A : t <= Q[ch][0].iv
  <2>1. PICK t \in S : \A k \in S : t <= k
    BY <1>2, LeastNat
  <2>2. QED BY <2>1
<1>4. \E t \in S : \A ch \in A : t >= Q[ch][0].iv
  <2>1. PICK m \in A : \A ch \in A : f[ch] <= f[m]
    BY <1>2, GreatestValue
  <2>2. QED BY <2>1, <1>1
<1>5. Earliest(Q, A) \in S /\ \A ch \in A : Earliest(Q, A) <= Q[ch][0].iv
  BY <1>3 DEF Earliest
<1>6. Latest(Q, A) \in S /\ \A ch \in A : Latest(Q, A) >= Q[ch][0].iv
  BY <1>4 DEF Latest
<1>7. QED BY <1>2, <1>5, <1>6

(* Pass 1 yields queues, in order if they were, and ends every wait.       *)
LEMMA SwapQueueType ==
  ASSUME TypeOK, NEW ch \in Channels PROVE SwapQueue(ch) \in Slots
<1>1. q[ch] \in Slots
  BY DEF TypeOK
<1>2. [q[ch] EXCEPT ![0] = None] \in Slots
  BY <1>1 DEF Slots, SlotIdx
<1>3. QED BY <1>1, <1>2, AdvanceType DEF SwapQueue

LEMMA SwapQueueInOrder ==
  ASSUME TypeOK, NEW ch \in Channels, InOrder(q[ch], arrived[ch])
  PROVE  InOrder(SwapQueue(ch), arrived[ch])
<1>1. q[ch] \in Slots /\ Listening(ch) \in BOOLEAN
  BY DEF TypeOK, Listening
<1>2. QED BY <1>1, AdvanceInOrder, DropHeadInOrder DEF SwapQueue

LEMMA SwapHoldZero ==
  ASSUME TypeOK, HoldHasAudio, NEW ch \in Channels PROVE SwapHold(ch) = 0
<1>1. hold_swaps[ch] \in 0 .. 1
  BY DEF TypeOK
<1>2. hold_swaps[ch] > 0 => Waits(ch)
  BY DEF HoldHasAudio, Waits
<1>3. QED BY <1>1, <1>2 DEF SwapHold, Waits

(* Passes 2 and 3: a channel is only told to wait when it is compared, and *)
(* one that waits is not behind, so the skip leaves its interval alone.    *)
LEMMA SwapIInv ==
  ASSUME IInv, Swap, Record
  PROVE  IInv'
<1> DEFINE Q1     == [ch \in Channels |-> SwapQueue(ch)]
           H1     == [ch \in Channels |-> SwapHold(ch)]
           C      == IF AlignChannels THEN Comparable(Q1, H1) ELSE {}
           A      == IF OneSession(Q1, C) THEN C ELSE {}
           target == Target(Q1, A, Joined)
           Q2     == [ch \in Channels |-> IF ch \in A THEN SkipTo(Q1[ch], target) ELSE Q1[ch]]
           H2     == [ch \in Channels |-> IF ch \in A /\ WaitsFor(Q1[ch], target) THEN 1 ELSE H1[ch]]
<1>1. /\ flags' = flags /\ chanpresentmask' = chanpresentmask /\ submask' = submask
      /\ toggling' = toggling /\ arrived' = arrived
      /\ q' = [ch \in Channels |-> AgeAll(Q2[ch])]
      /\ \/ hold_swaps' = H2 /\ rejoin_grid' = rejoin_grid
         \/ /\ rejoin_grid' \in [Channels -> 0 .. 2]
            /\ hold_swaps' \in [Channels -> 0 .. 1]
            /\ \A ch \in Channels : Placed(q', H2, ch, rejoin_grid', hold_swaps')
  BY DEF Swap
<1>2. \A ch \in Channels : Q1[ch] \in Slots /\ H1[ch] = 0
  BY SwapQueueType, SwapHoldZero DEF IInv
<1>3. A \subseteq Channels /\ \A ch \in A : OnSwap(ch) /\ Q1[ch][0] \in Entry
  <2>1. \A ch \in Comparable(Q1, H1) : ch \in Channels /\ IsInterval(ch) /\ IsTagged(Q1[ch][0])
    BY DEF Comparable
  <2>2. \A ch \in Channels : IsTagged(Q1[ch][0]) => Q1[ch][0] \in Entry
    BY <1>2, SlotsAre DEF SlotIdx, MaybeEntry, IsTagged
  <2>3. \A ch \in A : ch \in Channels /\ IsInterval(ch) /\ IsTagged(Q1[ch][0])
    BY <2>1
  <2>4. \A ch \in Channels : IsInterval(ch) => OnSwap(ch)
    BY DEF IsInterval, OnSwap
  <2>5. QED BY <2>2, <2>3, <2>4
<1>4. \A ch \in Channels : Q2[ch] \in Slots
  BY <1>2, SkipToType
<1>5. A # {} => target \in Nat
  BY <1>3, TagsSpec DEF Target
<1>6. H2 \in [Channels -> 0 .. 1]
  BY <1>2
<1>7. ASSUME NEW ch \in Channels, H2[ch] > 0 PROVE OnSwap(ch) /\ Q2[ch][0] # None
  <2>1. ch \in A /\ WaitsFor(Q1[ch], target)
    BY <1>2, <1>7
  <2>2. Q1[ch][0].iv \in Nat /\ target \in Nat /\ Q1[ch][0] # None
    BY <1>3, <1>5, <2>1, EntryType, NoneAssumption
  <2>3. ~Stale(Q1[ch][0], target)
    BY <2>1, <2>2 DEF WaitsFor, Stale
  <2>4. Q2[ch] = Q1[ch]
    BY <1>2, <2>1, <2>3, SkipToKeepsHead
  <2>5. QED BY <1>3, <2>1, <2>2, <2>4
<1> HIDE DEF Q1, H1, C, A, target
<1>8. q' \in Queues
  BY <1>1, <1>4, AgeAllType DEF Queues
<1>9. \A ch \in Channels : q'[ch][0] = None <=> Q2[ch][0] = None
  <2>1. \A ch \in Channels : q'[ch][0] = Aged(Q2[ch][0])
    BY <1>1 DEF AgeAll, SlotIdx
  <2>2. QED BY <2>1, <1>4, SlotsAre, AgedType DEF SlotIdx
<1> HIDE DEF Q2
<1>10. TypeOK'
  BY <1>1, <1>6, <1>8, RecordType DEF IInv, TypeOK, Queues
<1>11. HoldHasAudio'
  <2>1. SUFFICES ASSUME NEW ch \in Channels, hold_swaps'[ch] > 0
                 PROVE  OnSwap(ch) /\ q'[ch][0] # None
    BY <1>1 DEF HoldHasAudio, OnSwap
  <2>2. CASE hold_swaps'[ch] = H2[ch]
    BY <1>7, <1>9, <2>1, <2>2
  <2>3. CASE hold_swaps'[ch] # H2[ch]
    <3>1. Placed(q', H2, ch, rejoin_grid', hold_swaps')
      BY <1>1, <2>3
    <3>2. OnSwap(ch)
      BY <2>3, <3>1 DEF Placed
    <3>3. q'[ch][0] # None
      BY <2>3, <3>1, <3>2 DEF Placed
    <3>4. QED BY <3>2, <3>3
  <2>4. QED BY <2>2, <2>3
<1>12. QueueOrdered'
  <2>1. SUFFICES ASSUME NEW ch \in Channels, "session" \notin flags[ch]
                 PROVE  InOrder(q'[ch], arrived[ch])
    BY <1>1, OrderedQueues DEF QueueOrdered, InOrder
  <2>2. InOrder(SwapQueue(ch), arrived[ch])
    BY <2>1, SwapQueueInOrder, OrderedQueues DEF IInv
  <2>3. InOrder(Q2[ch], arrived[ch])
    BY <1>2, <2>2, SkipToInOrder DEF Q2, Q1
  <2>4. QED BY <1>1, <1>4, <2>3, AgeAllInOrder
<1>13. QED BY <1>10, <1>11, <1>12 DEF IInv
-----------------------------------------------------------------------------
LEMMA NextIInv == IInv /\ [Next]_vars => IInv'
<1> SUFFICES ASSUME IInv, [Next]_vars PROVE IInv'
  OBVIOUS
<1>1. CASE Next
  <2>1. Record
    BY <1>1 DEF Next, Steps
  <2>2. ASSUME NEW ch \in Channels, NEW e \in Entry, Arrive(ch, e) PROVE IInv'
    BY <2>1, <2>2, ArriveIInv
  <2>3. ASSUME NEW ch \in Channels, ArriveSilence(ch) PROVE IInv'
    BY <2>1, <2>3, ArriveSilenceIInv
  <2>4. ASSUME NEW ch \in Channels, NEW f \in Modes, ChannelActive(ch, f) PROVE IInv'
    BY <2>1, <2>4, ChannelActiveIInv
  <2>5. ASSUME NEW ch \in Channels, ChannelInactive(ch) PROVE IInv'
    BY <2>1, <2>5, ChannelInactiveIInv
  <2>6. ASSUME NEW ch \in Channels, Toggle(ch) PROVE IInv'
    BY <2>1, <2>6, ToggleIInv
  <2>7. ASSUME NEW ch \in Channels, LiveAdvance(ch) PROVE IInv'
    BY <2>1, <2>7, LiveAdvanceIInv
  <2>8. ASSUME NEW ch \in Channels, SessionPlay(ch) PROVE IInv'
    BY <2>1, <2>8, SessionPlayIInv
  <2>9. CASE FinishToggle
    BY <2>1, <2>9, FinishToggleIInv
  <2>10. CASE Swap
    BY <2>1, <2>10, SwapIInv
  <2>11. QED
    BY <1>1, <2>2, <2>3, <2>4, <2>5, <2>6, <2>7, <2>8, <2>9, <2>10 DEF Next, Steps
<1>2. CASE UNCHANGED vars
  BY <1>2 DEF vars, IInv, TypeOK, HoldHasAudio, OnSwap, QueueOrdered
<1>3. QED BY <1>1, <1>2

THEOREM Invariance == Spec => []IInv
  BY InitIInv, NextIInv, PTL DEF Spec

(* Every behaviour of the queues keeps the types, whatever the constants.  *)
THEOREM TypeCorrect == Spec => []TypeOK
<1>1. IInv => TypeOK
  BY DEF IInv
<1>2. QED BY <1>1, Invariance, PTL

(* A channel that waits always has the interval it waits to start, and is  *)
(* on the interval grid: no flush, notice, toggle or skip leaves a hold    *)
(* behind that would mute it.                                              *)
THEOREM HoldsHaveAudio == Spec => []HoldHasAudio
<1>1. IInv => HoldHasAudio
  BY DEF IInv
<1>2. QED BY <1>1, Invariance, PTL

(* A channel's queue is in recording order and without a hole, and holds   *)
(* nothing later than its last arrival, however deliveries, silence,       *)
(* flushes, swaps and skips interleave.                                    *)
THEOREM QueuesOrdered == Spec => []QueueOrdered
<1>1. IInv => QueueOrdered
  BY DEF IInv
<1>2. QED BY <1>1, Invariance, PTL
-----------------------------------------------------------------------------
(* Nothing is played twice.  What a channel has still to start is ahead of *)
(* what it has heard, and what it has heard is not later than its last     *)
(* arrival; so what arrives next is ahead of it too, even when everything  *)
(* in between was flushed.                                                 *)
ToStart(s, h) == IF h > 0 THEN s ELSE Waiting(s)

Forward(ch) ==
  /\ heard[ch] # None => arrived[ch] # None /\ NotLater(heard[ch], arrived[ch])
  /\ "session" \notin flags[ch] => Ahead(ToStart(q[ch], hold_swaps[ch]), heard[ch])

LEMMA InitForward == ASSUME Init, NEW ch \in Channels PROVE Forward(ch)
  BY DEF Init, Forward, Ahead

(* It is enough to look at what a step leaves, with what was heard before: *)
(* what the step makes sound is the head of a queue in order.              *)
LEMMA RecordForward ==
  ASSUME IInv', Record, NEW ch \in Channels, Forward(ch), arrived[ch] \in MaybeEntry,
         heard[ch] \in MaybeEntry,
         "session" \notin flags'[ch] => Ahead(ToStart(q'[ch], hold_swaps'[ch]), heard[ch]),
         \/ arrived'[ch] = arrived[ch]
         \/ arrived[ch] # None => After(arrived'[ch], arrived[ch]) /\ arrived'[ch] \in Entry
  PROVE  Forward(ch)'
<1>1. /\ q'[ch] \in Slots /\ arrived'[ch] \in MaybeEntry
      /\ "session" \notin flags'[ch] => InOrder(q'[ch], arrived'[ch])
  BY DEF IInv, TypeOK, QueueOrdered, InOrder, MaybeEntry
<1>2. CASE Sounding(ch)'
  <2>1. heard'[ch] = Aged(q'[ch][0])
    BY <1>2 DEF Record
  <2>2. "session" \notin flags'[ch] /\ q'[ch][0] # None /\ hold_swaps'[ch] = 0
    BY <1>2 DEF Sounding
  <2>3. /\ Ahead(Waiting(q'[ch]), heard'[ch])
        /\ NotLater(heard'[ch], arrived'[ch]) /\ arrived'[ch] # None
    BY <1>1, <2>1, <2>2, HeadHeard
  <2>4. QED BY <2>2, <2>3 DEF Forward, ToStart
<1>3. CASE ~Sounding(ch)'
  <2>1. heard'[ch] = heard[ch]
    BY <1>3 DEF Record
  <2>2. heard[ch] # None => arrived'[ch] # None /\ NotLater(heard[ch], arrived'[ch])
    <3>1. CASE arrived'[ch] = arrived[ch]
      BY <3>1 DEF Forward
    <3>2. CASE arrived[ch] # None => After(arrived'[ch], arrived[ch]) /\ arrived'[ch] \in Entry
      BY <3>2, AfterAll, NoneAssumption DEF Forward, MaybeEntry
    <3>3. QED BY <3>1, <3>2
  <2>3. QED BY <2>1, <2>2 DEF Forward
<1>4. QED BY <1>2, <1>3

(* A channel that keeps or loses its queue, and may stop waiting.          *)
LEMMA KeptForward ==
  ASSUME IInv, IInv', Record, NEW ch \in Channels, Forward(ch),
         arrived'[ch] = arrived[ch],
         \/ q'[ch] = NoSlots
         \/ /\ q'[ch] = q[ch] /\ hold_swaps'[ch] \in {hold_swaps[ch], 0}
            /\ "session" \in flags[ch] => "session" \in flags'[ch]
  PROVE  Forward(ch)'
<1>1. arrived[ch] \in MaybeEntry /\ heard[ch] \in MaybeEntry /\ q[ch] \in Slots
  BY DEF IInv, TypeOK, MaybeEntry
<1>2. NoSlots \in Slots
  BY DEF NoSlots, Slots
<1>3. ASSUME "session" \notin flags'[ch]
      PROVE  Ahead(ToStart(q'[ch], hold_swaps'[ch]), heard[ch])
  <2>1. CASE q'[ch] = NoSlots
    BY <1>2, <2>1, EmptyAhead, WaitingAhead DEF ToStart
  <2>2. CASE q'[ch] # NoSlots
    <3>1. Ahead(ToStart(q[ch], hold_swaps[ch]), heard[ch])
      BY <1>3, <2>2 DEF Forward
    <3>2. QED BY <1>1, <2>2, <3>1, WaitingAhead DEF ToStart
  <2>3. QED BY <2>1, <2>2
<1>4. QED BY <1>1, <1>3, RecordForward

LEMMA ArriveForward ==
  ASSUME IInv, IInv', Record, NEW ch \in Channels, Forward(ch), NEW c \in Channels,
         NEW e \in Entry, Arrive(c, e)
  PROVE  Forward(ch)'
<1>1. /\ arrived[ch] \in MaybeEntry /\ heard[ch] \in MaybeEntry /\ q[ch] \in Slots
      /\ q \in Queues /\ arrived \in [Channels -> MaybeEntry]
  BY DEF IInv, TypeOK, MaybeEntry, Queues
<1>2. CASE c # ch
  <2>1. q'[ch] = q[ch] /\ arrived'[ch] = arrived[ch] /\ flags' = flags /\ hold_swaps' = hold_swaps
    BY <1>1, <1>2 DEF Arrive, Queues
  <2>2. QED BY <2>1, KeptForward
<1>3. CASE c = ch
  <2>1. /\ q'[ch] = Deliver(q[ch], e) /\ arrived'[ch] = e /\ hold_swaps' = hold_swaps
        /\ "session" \notin flags[ch]
        /\ arrived[ch] # None => After(e, arrived[ch])
    BY <1>1, <1>3 DEF Arrive, Queues
  <2>2. heard[ch] # None => After(e, heard[ch])
    BY <1>1, <2>1, AfterAll DEF Forward, MaybeEntry
  <2>3. Ahead(ToStart(q[ch], hold_swaps[ch]), heard[ch])
    BY <2>1 DEF Forward
  <2>4. Ahead(ToStart(Deliver(q[ch], e), hold_swaps[ch]), heard[ch])
    <3>1. CASE hold_swaps[ch] > 0
      BY <1>1, <2>2, <2>3, <3>1, DeliverAhead DEF ToStart
    <3>2. CASE ~(hold_swaps[ch] > 0)
      <4>1. /\ Waiting(q[ch]) \in Slots
            /\ Waiting(Deliver(q[ch], e)) = Deliver(Waiting(q[ch]), e)
        BY <1>1 DEF Waiting, Deliver, FreeSlot, Slots, SlotIdx
      <4>2. Ahead(Deliver(Waiting(q[ch]), e), heard[ch])
        BY <2>2, <2>3, <3>2, <4>1, DeliverAhead DEF ToStart
      <4>3. QED BY <3>2, <4>1, <4>2 DEF ToStart
    <3>3. QED BY <3>1, <3>2
  <2>5. QED BY <1>1, <2>1, <2>4, RecordForward
<1>4. QED BY <1>2, <1>3

LEMMA ArriveSilenceForward ==
  ASSUME IInv, IInv', Record, NEW ch \in Channels, Forward(ch), NEW c \in Channels,
         ArriveSilence(c)
  PROVE  Forward(ch)'
<1>1. /\ arrived[ch] \in MaybeEntry /\ heard[ch] \in MaybeEntry /\ q[ch] \in Slots
      /\ q \in Queues /\ UNCHANGED <<flags, arrived, hold_swaps>>
  BY DEF IInv, TypeOK, MaybeEntry, Queues, ArriveSilence
<1>2. CASE c # ch
  <2>1. q'[ch] = q[ch]
    BY <1>1, <1>2 DEF ArriveSilence, Queues
  <2>2. QED BY <1>1, <2>1, KeptForward
<1>3. CASE c = ch
  <2>1. q'[ch] = Silence(q[ch]) /\ "session" \notin flags[ch]
    BY <1>1, <1>3 DEF ArriveSilence, Queues, OnSwap
  <2>2. Ahead(ToStart(q[ch], hold_swaps[ch]), heard[ch])
    BY <2>1 DEF Forward
  <2>3. Ahead(ToStart(Silence(q[ch]), hold_swaps[ch]), heard[ch])
    <3>1. CASE hold_swaps[ch] > 0
      BY <1>1, <2>2, <3>1, SilenceAhead DEF ToStart
    <3>2. CASE ~(hold_swaps[ch] > 0)
      <4>1. /\ Waiting(q[ch]) \in Slots
            /\ Waiting(Silence(q[ch])) = Silence(Waiting(q[ch]))
        BY <1>1 DEF Waiting, Silence, FreeSlot, Slots, SlotIdx
      <4>2. Ahead(Silence(Waiting(q[ch])), heard[ch])
        BY <2>2, <3>2, <4>1, SilenceAhead DEF ToStart
      <4>3. QED BY <3>2, <4>1, <4>2 DEF ToStart
    <3>3. QED BY <3>1, <3>2
  <2>4. QED BY <1>1, <2>1, <2>3, RecordForward
<1>4. QED BY <1>2, <1>3

LEMMA NoticesForward ==
  ASSUME IInv, IInv', Record, NEW ch \in Channels, Forward(ch), NEW c \in Channels,
         (\E f \in Modes : ChannelActive(c, f)) \/ ChannelInactive(c) \/ Toggle(c) \/ FinishToggle
  PROVE  Forward(ch)'
<1>1. /\ q \in Queues /\ NoSlots \in Slots /\ flags \in [Channels -> Modes \union {{}}]
      /\ hold_swaps \in [Channels -> 0 .. 1]
      /\ toggling # Idle => toggling.ch \in Channels
  BY DEF IInv, TypeOK, Queues, NoSlots, Slots
<1>2. ASSUME NEW f \in Modes, ChannelActive(c, f) PROVE Forward(ch)'
  <2>1. arrived' = arrived /\ flags' = [flags EXCEPT ![c] = f]
    BY <1>2 DEF ChannelActive
  <2>2. CASE ModeBits(flags[c]) # ModeBits(f)
    <3>1. q'[ch] = NoSlots \/ (q'[ch] = q[ch] /\ hold_swaps'[ch] = hold_swaps[ch] /\ c # ch)
      BY <1>1, <1>2, <2>2 DEF ChannelActive, Queues
    <3>2. QED BY <1>1, <2>1, <3>1, KeptForward
  <2>3. CASE ModeBits(flags[c]) = ModeBits(f)
    <3>1. q' = q /\ hold_swaps' = hold_swaps
      BY <1>2, <2>3 DEF ChannelActive
    <3>2. "session" \in flags[c] => "session" \in f
      BY <2>3 DEF ModeBits
    <3>3. QED BY <1>1, <2>1, <3>1, <3>2, KeptForward
  <2>4. QED BY <2>2, <2>3
<1>3. CASE ChannelInactive(c)
  <2>1. /\ arrived' = arrived
        /\ \/ q'[ch] = NoSlots
           \/ q'[ch] = q[ch] /\ hold_swaps'[ch] = hold_swaps[ch] /\ flags'[ch] = flags[ch]
    BY <1>3 DEF ChannelInactive
  <2>2. QED BY <2>1, KeptForward
<1>4. CASE Toggle(c)
  BY <1>4, KeptForward DEF Toggle
<1>5. CASE FinishToggle
  <2>1. /\ arrived' = arrived /\ flags' = flags
        /\ \/ q'[ch] = NoSlots
           \/ q'[ch] = q[ch] /\ hold_swaps'[ch] \in {hold_swaps[ch], 0}
    BY <1>1, <1>5 DEF FinishToggle, Queues
  <2>2. QED BY <2>1, KeptForward
<1>6. QED BY <1>2, <1>3, <1>4, <1>5

LEMMA MixingForward ==
  ASSUME IInv, IInv', Record, NEW ch \in Channels, Forward(ch), NEW c \in Channels,
         LiveAdvance(c) \/ SessionPlay(c)
  PROVE  Forward(ch)'
<1>1. /\ arrived[ch] \in MaybeEntry /\ heard[ch] \in MaybeEntry /\ q[ch] \in Slots
      /\ q \in Queues /\ UNCHANGED <<flags, arrived, hold_swaps>>
  BY DEF IInv, TypeOK, MaybeEntry, Queues, LiveAdvance, SessionPlay
<1>2. CASE c # ch
  <2>1. q'[ch] = q[ch]
    BY <1>1, <1>2 DEF LiveAdvance, SessionPlay, Queues
  <2>2. QED BY <1>1, <2>1, KeptForward
<1>3. CASE c = ch /\ SessionPlay(c)
  <2>1. "session" \in flags'[ch]
    BY <1>1, <1>3 DEF SessionPlay
  <2>2. QED BY <1>1, <2>1, RecordForward
<1>4. CASE c = ch /\ LiveAdvance(c)
  <2>1. q'[ch] = Shift(q[ch], 1) /\ hold_swaps'[ch] = 0 /\ hold_swaps[ch] = 0
    BY <1>1, <1>4 DEF LiveAdvance, Queues
  <2>2. ASSUME "session" \notin flags[ch] PROVE Ahead(Waiting(Shift(q[ch], 1)), heard[ch])
    <3>1. Ahead(Waiting(q[ch]), heard[ch])
      BY <2>1, <2>2 DEF Forward, ToStart
    <3>2. Shift(q[ch], 1) = Advance(q[ch], TRUE)
      BY DEF Advance, Shift, SlotIdx
    <3>3. QED BY <1>1, <3>1, <3>2, AdvanceAhead, AdvanceType, WaitingAhead
  <2>3. QED BY <1>1, <2>1, <2>2, RecordForward DEF ToStart
<1>5. QED BY <1>2, <1>3, <1>4

(* What a swap makes of one queue: pass 1, perhaps a skip, and an interval *)
(* of age.  A voice chat or session channel keeps its own.                 *)
LEMMA SwapShape ==
  ASSUME IInv, Swap, NEW ch \in Channels
  PROVE  \E s \in Slots : /\ q'[ch] = AgeAll(s)
                          /\ \/ s = SwapQueue(ch)
                             \/ OnSwap(ch) /\ \E t : s = SkipTo(SwapQueue(ch), t)
<1> DEFINE Q1     == [c \in Channels |-> SwapQueue(c)]
           H1     == [c \in Channels |-> SwapHold(c)]
           C      == IF AlignChannels THEN Comparable(Q1, H1) ELSE {}
           A      == IF OneSession(Q1, C) THEN C ELSE {}
           target == Target(Q1, A, Joined)
           Q2     == [c \in Channels |-> IF c \in A THEN SkipTo(Q1[c], target) ELSE Q1[c]]
<1>1. q' = [c \in Channels |-> AgeAll(Q2[c])]
  BY DEF Swap
<1>2. \A c \in Comparable(Q1, H1) : OnSwap(c)
  BY DEF Comparable, IsInterval, OnSwap
<1>3. Q1[ch] = SwapQueue(ch) /\ Q1[ch] \in Slots
  BY SwapQueueType DEF IInv
<1>4. \/ Q2[ch] = SwapQueue(ch)
      \/ OnSwap(ch) /\ Q2[ch] = SkipTo(SwapQueue(ch), target)
  BY <1>2, <1>3
<1>5. Q2[ch] \in Slots
  BY <1>3, <1>4, SkipToType
<1>6. QED BY <1>1, <1>4, <1>5

(* On the interval grid the swap lets nothing into a queue, the head       *)
(* included, that is not ahead of what the channel has heard.              *)
LEMMA SwapAhead ==
  ASSUME IInv, Swap, NEW ch \in Channels, Forward(ch), "session" \notin flags[ch], OnSwap(ch)
  PROVE  Ahead(q'[ch], heard[ch])
<1>1. q[ch] \in Slots /\ Listening(ch) \in BOOLEAN
  BY DEF IInv, TypeOK, Listening
<1>2. Ahead(ToStart(q[ch], hold_swaps[ch]), heard[ch])
  BY DEF Forward
<1>3. Ahead(SwapQueue(ch), heard[ch])
  <2>1. CASE Waits(ch)
    <3>1. SwapQueue(ch) = q[ch] /\ hold_swaps[ch] > 0
      BY <2>1 DEF SwapQueue, Advances, Waits
    <3>2. QED BY <1>2, <3>1 DEF ToStart
  <2>2. CASE ~Waits(ch)
    <3>1. Ahead(Waiting(q[ch]), heard[ch])
      BY <1>2, <2>2 DEF ToStart, Waits
    <3>2. SwapQueue(ch) \in {Advance(q[ch], Listening(ch)), Waiting(q[ch])}
      BY <2>2 DEF SwapQueue, Waiting
    <3>3. QED BY <1>1, <3>1, <3>2, AdvanceAhead
  <2>3. QED BY <2>1, <2>2
<1>4. PICK s \in Slots : /\ q'[ch] = AgeAll(s)
                         /\ s = SwapQueue(ch) \/ \E t : s = SkipTo(SwapQueue(ch), t)
  BY SwapShape
<1>5. SwapQueue(ch) \in Slots
  BY SwapQueueType DEF IInv
<1>6. Ahead(s, heard[ch])
  BY <1>3, <1>4, <1>5, SkipToAhead
<1>7. QED BY <1>4, <1>6, AgeAllAhead

LEMMA SwapForward ==
  ASSUME IInv, IInv', Record, NEW ch \in Channels, Forward(ch), Swap
  PROVE  Forward(ch)'
<1>1. /\ arrived[ch] \in MaybeEntry /\ heard[ch] \in MaybeEntry
      /\ q[ch] \in Slots /\ q'[ch] \in Slots
      /\ hold_swaps'[ch] \in 0 .. 1
      /\ UNCHANGED <<flags, arrived>>
  BY DEF IInv, TypeOK, MaybeEntry, Swap
<1>2. ASSUME "session" \notin flags[ch]
      PROVE  Ahead(ToStart(q'[ch], hold_swaps'[ch]), heard[ch])
  <2>1. CASE OnSwap(ch)
    BY <1>1, <1>2, <2>1, SwapAhead, WaitingAhead DEF ToStart
  <2>2. CASE ~OnSwap(ch)
    <3>1. hold_swaps[ch] = 0 /\ hold_swaps'[ch] = 0
      BY <1>1, <2>2 DEF IInv, TypeOK, HoldHasAudio, OnSwap
    <3>2. q'[ch] = AgeAll(q[ch])
      BY <2>2, SwapShape DEF SwapQueue, Advances
    <3>3. Waiting(q[ch]) \in Slots /\ Waiting(AgeAll(q[ch])) = AgeAll(Waiting(q[ch]))
      BY <1>1 DEF Waiting, AgeAll, Aged, Slots, SlotIdx
    <3>4. Ahead(AgeAll(Waiting(q[ch])), heard[ch])
      BY <1>2, <3>1, <3>3, AgeAllAhead DEF Forward, ToStart
    <3>5. QED BY <3>1, <3>2, <3>3, <3>4 DEF ToStart
  <2>3. QED BY <2>1, <2>2
<1>3. QED BY <1>1, <1>2, RecordForward

ForwardInv == \A ch \in Channels : Forward(ch)

LEMMA NextForward == ASSUME IInv, IInv', ForwardInv, [Next]_vars PROVE ForwardInv'
<1>1. CASE UNCHANGED vars
  BY <1>1 DEF vars, ForwardInv, Forward
<1>2. CASE Next
  <2>1. Record
    BY <1>2 DEF Next
  <2>2. ASSUME NEW ch \in Channels PROVE Forward(ch)'
    <3>1. Forward(ch)
      BY DEF ForwardInv
    <3>2. ASSUME NEW c \in Channels, \E e \in Entry : Arrive(c, e) PROVE Forward(ch)'
      BY <2>1, <3>1, <3>2, ArriveForward
    <3>3. ASSUME NEW c \in Channels, ArriveSilence(c) PROVE Forward(ch)'
      BY <2>1, <3>1, <3>3, ArriveSilenceForward
    <3>4. ASSUME NEW c \in Channels,
                 (\E f \in Modes : ChannelActive(c, f)) \/ ChannelInactive(c) \/ Toggle(c)
          PROVE  Forward(ch)'
      BY <2>1, <3>1, <3>4, NoticesForward
    <3>5. ASSUME NEW c \in Channels, LiveAdvance(c) \/ SessionPlay(c) PROVE Forward(ch)'
      BY <2>1, <3>1, <3>5, MixingForward
    <3>6. CASE FinishToggle
      BY <2>1, <3>1, <3>6, NoticesForward
    <3>7. CASE Swap
      BY <2>1, <3>1, <3>7, SwapForward
    <3>8. QED BY <1>2, <3>2, <3>3, <3>4, <3>5, <3>6, <3>7 DEF Next, Steps
  <2>3. ForwardInv' <=> \A ch \in Channels : Forward(ch)'
    BY DEF ForwardInv
  <2>4. QED BY <2>2, <2>3
<1>3. QED BY <1>1, <1>2

(* A swap never makes a channel sound an interval twice, nor one older     *)
(* than it has played, for any number of channels, any modes, with and     *)
(* without tags: through holds, skips, flushes, changes of mode and new    *)
(* subscriptions, with whatever arrives in between.                        *)
THEOREM NeverReplays == Spec => PlaysForward
<1>1. Init => ForwardInv
  BY InitForward DEF ForwardInv
<1>2. IInv /\ IInv' /\ ForwardInv /\ [Next]_vars => ForwardInv'
  BY NextForward
<1>3. Spec => []ForwardInv
  BY <1>1, <1>2, Invariance, PTL DEF Spec
<1>4. ASSUME IInv, ForwardInv, [Next]_vars
      PROVE  [Swap => \A ch \in Channels : OnSwap(ch) /\ Sounding(ch)' /\ heard[ch] # None =>
                After(q'[ch][0], heard[ch])]_vars
  <2>1. ASSUME Swap, NEW ch \in Channels, OnSwap(ch), Sounding(ch)', heard[ch] # None
        PROVE  After(q'[ch][0], heard[ch])
    <3>1. Forward(ch) /\ "session" \notin flags[ch]
      BY <1>4, <2>1 DEF ForwardInv, OnSwap
    <3>2. Ahead(q'[ch], heard[ch])
      BY <1>4, <2>1, <3>1, SwapAhead
    <3>3. q'[ch][0] # None
      BY <2>1 DEF Sounding
    <3>4. QED BY <2>1, <3>2, <3>3 DEF Ahead, SlotIdx
  <2>2. QED BY <2>1
<1>5. QED BY <1>3, <1>4, Invariance, PTL DEF PlaysForward, Spec
-----------------------------------------------------------------------------
(* Where a skip stops.                                                     *)
LEMMA SkipStops ==
  ASSUME NEW s \in Slots, NEW target \in Nat, IsTagged(SkipTo(s, target)[0])
  PROVE  /\ SkipTo(s, target)[0].iv >= target
         /\ \E k \in SlotIdx : /\ SkipTo(s, target)[0] = s[k]
                               /\ \A i \in SlotIdx : i < k => Stale(s[i], target)
<1> DEFINE k == SkipCount(s, target)
<1>1. /\ k \in 0 .. 3
      /\ \A i \in 0 .. k - 1 : Stale(s[i], target)
      /\ k = 3 \/ ~Stale(s[k], target)
  BY SkipCountSpec
<1> HIDE DEF k
<1>2. SkipTo(s, target)[0] = IF k \in SlotIdx THEN s[k] ELSE None
  BY <1>1 DEF SkipTo, Shift, SlotIdx, k
<1>3. k \in SlotIdx /\ SkipTo(s, target)[0] = s[k]
  BY <1>2 DEF IsTagged
<1>4. s[k] \in Entry
  BY <1>3, SlotsAre DEF IsTagged, MaybeEntry
<1>5. s[k].iv \in Nat /\ ~Stale(s[k], target)
  BY <1>1, <1>3, <1>4, EntryType DEF SlotIdx
<1>6. s[k].iv >= target
  BY <1>3, <1>5 DEF Stale
<1>7. \A i \in SlotIdx : i < k => Stale(s[i], target)
  BY <1>1, <1>3 DEF SlotIdx
<1>8. QED BY <1>3, <1>6, <1>7

(* A channel that is behind and has the latest interval waiting is brought *)
(* to that interval and not past it: what waits is in recording order.     *)
LEMMA SkipReaches ==
  ASSUME NEW s \in Slots, NEW a, InOrder(s, a), NEW target \in Nat,
         \A i, j \in SlotIdx : s[i] # None /\ s[j] # None => s[i].sess = s[j].sess,
         \E i \in 1 .. 2 : HasTag(s[i], target),
         IsTagged(SkipTo(s, target)[0])
  PROVE  SkipTo(s, target)[0].iv = target
<1>1. PICK i \in 1 .. 2 : s[i] # None /\ s[i].tagged /\ s[i].iv = target
  BY DEF HasTag, IsTagged
<1>2. PICK k \in SlotIdx : /\ SkipTo(s, target)[0] = s[k]
                           /\ \A j \in SlotIdx : j < k => Stale(s[j], target)
  BY SkipStops
<1>3. s[k] # None /\ s[k].tagged /\ s[k].iv >= target
  BY <1>2, SkipStops DEF IsTagged
<1>4. i \in SlotIdx /\ s[k] \in Entry /\ s[i] \in Entry
  BY <1>1, <1>3, SlotsAre DEF SlotIdx, MaybeEntry
<1>5. s[k].iv \in Nat /\ s[k].sess \in Nat /\ s[i].sess \in Nat
  BY <1>4, EntryType
<1>6. ~(i < k)
  BY <1>1, <1>2, <1>4 DEF Stale
<1>7. CASE i = k
  BY <1>1, <1>2, <1>7
<1>8. CASE k < i
  <2>1. After(s[i], s[k]) /\ s[i].sess = s[k].sess
    BY <1>1, <1>3, <1>4, <1>8 DEF InOrder, Ordered
  <2>2. target > s[k].iv
    BY <1>1, <1>5, <2>1 DEF After
  <2>3. QED BY <1>3, <1>5, <2>2
<1>9. QED BY <1>4, <1>6, <1>7, <1>8 DEF SlotIdx

(* Two channels that sound tagged intervals after a swap: the earlier one  *)
(* is only left behind by one whose queue is full.                         *)
LEMMA SwapAligns ==
  ASSUME \A s, t \in Sessions : s = t,
         IInv, Swap, AlignChannels,
         NEW c \in Comparable(q', hold_swaps'), NEW d \in Comparable(q', hold_swaps'),
         q'[c][0].iv > q'[d][0].iv
  PROVE  q'[c][2] # None
<1> DEFINE Q1     == [x \in Channels |-> SwapQueue(x)]
           H1     == [x \in Channels |-> SwapHold(x)]
           C      == IF AlignChannels THEN Comparable(Q1, H1) ELSE {}
           A      == IF OneSession(Q1, C) THEN C ELSE {}
           target == Target(Q1, A, Joined)
           Q2     == [x \in Channels |-> IF x \in A THEN SkipTo(Q1[x], target) ELSE Q1[x]]
           H2     == [x \in Channels |-> IF x \in A /\ WaitsFor(Q1[x], target) THEN 1 ELSE H1[x]]
<1>1. /\ q' = [x \in Channels |-> AgeAll(Q2[x])]
      /\ \/ hold_swaps' = H2
         \/ \A x \in Channels : Placed(q', H2, x, rejoin_grid', hold_swaps')
  BY DEF Swap
<1>2. \A x \in Channels : Q1[x] \in Slots /\ H1[x] = 0
  BY SwapQueueType, SwapHoldZero DEF IInv
<1>3. A = C
  <2>1. \A x \in C : x \in Channels /\ Q1[x][0] \in MaybeEntry /\ Q1[x][0] # None
    BY <1>2, SlotsAre DEF Comparable, SlotIdx, IsTagged
  <2>2. \A x \in C : Q1[x][0].sess \in Sessions
    BY <2>1 DEF MaybeEntry, Entry
  <2>3. OneSession(Q1, C)
    BY <2>2 DEF OneSession
  <2>4. QED BY <2>3
<1>4. \A x \in A : x \in Channels /\ IsTagged(Q1[x][0]) /\ Q1[x][0] \in Entry /\ IsInterval(x)
  <2>1. \A x \in C : x \in Channels /\ IsTagged(Q1[x][0]) /\ IsInterval(x)
    BY DEF Comparable
  <2>2. QED BY <1>2, <1>3, <2>1, SlotsAre DEF SlotIdx, MaybeEntry, IsTagged
<1>5. \A x \in Channels : Q2[x] \in Slots
  BY <1>2, SkipToType
<1>6. \A x \in Channels : /\ q'[x] = AgeAll(Q2[x])
                          /\ Q2[x] = IF x \in A THEN SkipTo(Q1[x], target) ELSE Q1[x]
                          /\ x \in A => H2[x] = IF WaitsFor(Q1[x], target) THEN 1 ELSE H1[x]
  BY <1>1
<1>7. \A x \in Channels : x \in C <=> /\ IsInterval(x) /\ Listening(x)
                                      /\ H1[x] = 0 /\ IsTagged(Q1[x][0])
  BY DEF Comparable
<1>8. \A x \in Channels : Q1[x] = SwapQueue(x)
  OBVIOUS
<1> HIDE DEF Q1, H1, C, A, Q2, H2
<1>9. target = IF SkipsForward(Q1, A, Joined) THEN Latest(Q1, A) ELSE Earliest(Q1, A)
  BY DEF Target
<1> HIDE DEF target
(* What the swap leaves on a channel that sounds a tagged interval.        *)
<1>10. ASSUME NEW x \in Comparable(q', hold_swaps')
      PROVE  /\ x \in Channels /\ IsInterval(x) /\ Listening(x)
             /\ IsTagged(Q2[x][0]) /\ q'[x][0].iv = Q2[x][0].iv
             /\ q'[x][2] = None <=> Q2[x][2] = None
             /\ H2[x] = 0
  <2>1. /\ x \in Channels /\ IsInterval(x) /\ Listening(x) /\ hold_swaps'[x] = 0
        /\ q'[x][0] # None /\ q'[x][0].tagged
    BY DEF Comparable, IsTagged
  <2>2. q'[x][0] = Aged(Q2[x][0]) /\ q'[x][2] = Aged(Q2[x][2])
    <3>1. q'[x] = AgeAll(Q2[x])
      BY <1>6, <2>1
    <3>2. \A i \in SlotIdx : AgeAll(Q2[x])[i] = Aged(Q2[x][i])
      BY DEF AgeAll
    <3>3. QED BY <3>1, <3>2 DEF SlotIdx
  <2>3. Q2[x][0] \in MaybeEntry /\ Q2[x][2] \in MaybeEntry
    BY <1>5, <2>1, SlotsAre DEF SlotIdx
  <2>4. IsTagged(Q2[x][0]) /\ q'[x][0].iv = Q2[x][0].iv /\ (q'[x][2] = None <=> Q2[x][2] = None)
    BY <2>1, <2>2, <2>3, AgedType DEF IsTagged
  <2>5. H2[x] = 0
    <3>1. CASE hold_swaps' = H2
      BY <2>1, <3>1
    <3>2. CASE Placed(q', H2, x, rejoin_grid', hold_swaps')
      BY <2>1, <3>2 DEF Placed
    <3>3. QED BY <1>1, <2>1, <3>1, <3>2
  <2>6. QED BY <2>1, <2>4, <2>5
<1>11. \A x \in Comparable(q', hold_swaps') : x \in A
  <2>1. SUFFICES ASSUME NEW x \in Comparable(q', hold_swaps'), x \notin A PROVE FALSE
    OBVIOUS
  <2>2. IsTagged(Q1[x][0])
    BY <1>10, <1>6, <2>1
  <2>3. x \in C
    BY <1>2, <1>10, <1>7, <2>2
  <2>4. QED BY <1>3, <2>1, <2>3
<1>12. c \in A /\ d \in A /\ A \subseteq Channels /\ A # {}
  BY <1>4, <1>11
<1>13. /\ Earliest(Q1, A) \in Nat /\ \A x \in A : Earliest(Q1, A) <= Q1[x][0].iv
      /\ Latest(Q1, A) \in Nat /\ \A x \in A : Latest(Q1, A) >= Q1[x][0].iv
  BY <1>4, <1>12, TagsSpec
<1>14. \A x \in A : Q1[x][0].iv \in Nat
  BY <1>4, EntryType
<1>15. target \in Nat
  BY <1>13, <1>9
<1>16. \A x \in A : ~(Q1[x][0].iv < target) => Q2[x] = Q1[x]
  BY <1>2, <1>4, <1>6, SkipToKeepsHead DEF Stale
<1>17. ~WaitsFor(Q1[c], target)
  BY <1>10, <1>12, <1>6
<1>18. \A x \in A : InOrder(Q1[x], arrived[x])
  BY <1>4, <1>8, SwapQueueInOrder DEF IInv, QueueOrdered, InOrder, IsInterval
<1>19. CASE ~SkipsForward(Q1, A, Joined)
  <2>1. target = Earliest(Q1, A)
    BY <1>19, <1>9
  <2>2. \A x \in A : Q2[x] = Q1[x]
    BY <1>13, <1>14, <1>16, <2>1
  <2>3. Q1[c][0].iv > target
    <3>1. Q1[c][0].iv > Q1[d][0].iv
      BY <1>10, <1>12, <2>2
    <3>2. QED BY <1>12, <1>13, <1>14, <2>1, <3>1
  <2>4. Q1[c][2] # None
    BY <1>17, <2>3 DEF WaitsFor
  <2>5. QED BY <1>10, <1>12, <2>2, <2>4
<1>20. CASE SkipsForward(Q1, A, Joined)
  <2>1. target = Latest(Q1, A)
    BY <1>20, <1>9
  <2>2. \A x \in A : Q1[x][0].iv = target \/ \E i \in 1 .. 2 : HasTag(Q1[x][i], target)
    BY <1>20, <2>1 DEF SkipsForward
  <2>3. ASSUME NEW x \in Comparable(q', hold_swaps') PROVE Q2[x][0].iv = target
    <3>1. x \in A /\ IsTagged(Q2[x][0])
      BY <1>10, <1>11
    <3>2. CASE Q1[x][0].iv = target
      <4>1. ~(Q1[x][0].iv < target)
        BY <1>15, <3>2
      <4>2. Q2[x] = Q1[x]
        BY <1>16, <3>1, <4>1
      <4>3. QED BY <3>2, <4>2
    <3>3. CASE Q1[x][0].iv # target
      <4>1. Q2[x] = SkipTo(Q1[x], target) /\ Q1[x] \in Slots
        BY <1>2, <1>12, <1>6, <3>1
      <4>2. \A i \in SlotIdx : Q1[x][i] # None => Q1[x][i].sess \in Sessions
        BY <4>1, SlotsAre DEF MaybeEntry, Entry
      <4>3. \A i, j \in SlotIdx : Q1[x][i] # None /\ Q1[x][j] # None =>
              Q1[x][i].sess = Q1[x][j].sess
        BY <4>2
      <4>4. QED BY <1>15, <1>18, <2>2, <3>1, <3>3, <4>1, <4>3, SkipReaches
    <3>4. QED BY <3>2, <3>3
  <2>4. q'[c][0].iv = target /\ q'[d][0].iv = target
    BY <1>10, <2>3
  <2>5. QED BY <1>15, <2>4
<1>21. QED BY <1>19, <1>20

(* After a swap the tagged channels that sound are on one interval, unless *)
(* the one ahead has a full queue: whatever the channels' delays, losses,  *)
(* overwrites, notices and late starts.  It needs that the sender does not *)
(* reconnect while its old intervals wait: the search for the latest       *)
(* interval in the queues does not look at the session.                    *)
THEOREM AlignsAtSwap ==
  ASSUME \A s, t \in Sessions : s = t PROVE Spec => AlignedAtSwap
<1>1. ASSUME IInv, [Next]_vars
      PROVE  [Swap /\ AlignChannels =>
                LET A == Comparable(q', hold_swaps') IN
                OneSession(q', A) =>
                  \A c, d \in A : q'[c][0].iv > q'[d][0].iv => q'[c][2] # None]_vars
  BY <1>1, SwapAligns
<1>2. QED BY <1>1, Invariance, PTL DEF Spec, AlignedAtSwap
-----------------------------------------------------------------------------
(* A present interval channel that is left an interval and no hold sounds, *)
(* unless rejoinIntervalGrid makes it wait; and then it waits for a        *)
(* sibling that sounds: one before it, already placed, or one after it     *)
(* that needs no placing.                                                  *)
LEMMA PlacingLeavesOne ==
  ASSUME NEW H \in [Channels -> 0 .. 1],
         flags' = flags, chanpresentmask' = chanpresentmask,
         \/ hold_swaps' = H
         \/ \A c \in Channels : Placed(q', H, c, rejoin_grid', hold_swaps'),
         NEW x \in Channels, x \in chanpresentmask, IsInterval(x),
         q'[x][0] # None, H[x] = 0
  PROVE  \E c \in Channels : Sounding(c)' /\ IsInterval(c)
<1>1. \A c \in Channels : /\ c \in chanpresentmask /\ IsInterval(c)
                          /\ q'[c][0] # None /\ hold_swaps'[c] = 0
                         => Sounding(c)' /\ IsInterval(c)
  BY DEF Sounding, IsInterval
<1>2. CASE hold_swaps'[x] = 0
  BY <1>1, <1>2
<1>3. CASE hold_swaps'[x] # 0
  <2>1. \A c \in Channels : Placed(q', H, c, rejoin_grid', hold_swaps')
    BY <1>3
  <2>2. SoundingSiblings(q', H, x, rejoin_grid', hold_swaps') # {}
    <3>1. Placed(q', H, x, rejoin_grid', hold_swaps') /\ hold_swaps'[x] # H[x]
      BY <1>3, <2>1
    <3>2. QED BY <3>1 DEF Placed
  <2>3. PICK i \in Channels \ {x} : /\ IsInterval(i) /\ i \in chanpresentmask
                                   /\ Seen(x, i, rejoin_grid, rejoin_grid') = 0
                                   /\ q'[i][0] # None
                                   /\ Seen(x, i, H, hold_swaps') = 0
    BY <2>2 DEF SoundingSiblings, Siblings
  <2>4. hold_swaps'[i] = 0
    <3>1. CASE i < x
      BY <2>3, <3>1 DEF Seen
    <3>2. CASE ~(i < x)
      <4>1. rejoin_grid[i] = 0 /\ H[i] = 0
        BY <2>3, <3>2 DEF Seen
      <4>2. Placed(q', H, i, rejoin_grid', hold_swaps')
        BY <2>1, <2>3
      <4>3. QED BY <4>1, <4>2 DEF Placed
    <3>3. QED BY <3>1, <3>2
  <2>5. QED BY <1>1, <2>3, <2>4
<1>4. QED BY <1>2, <1>3

(* The swap leaves such a channel when one had an interval to start: that  *)
(* channel itself when it is not compared, and the compared one that has   *)
(* the target interval otherwise, which neither waits nor is skipped.      *)
LEMMA SwapLeavesOne ==
  ASSUME IInv, Swap,
         NEW ch \in Channels, SwapQueue(ch)[0] # None, Listening(ch), IsInterval(ch)
  PROVE  \E c \in Channels : Sounding(c)' /\ IsInterval(c)
<1> DEFINE Q1     == [c \in Channels |-> SwapQueue(c)]
           H1     == [c \in Channels |-> SwapHold(c)]
           C      == IF AlignChannels THEN Comparable(Q1, H1) ELSE {}
           A      == IF OneSession(Q1, C) THEN C ELSE {}
           target == Target(Q1, A, Joined)
           Q2     == [c \in Channels |-> IF c \in A THEN SkipTo(Q1[c], target) ELSE Q1[c]]
           H2     == [c \in Channels |-> IF c \in A /\ WaitsFor(Q1[c], target) THEN 1 ELSE H1[c]]
<1>1. /\ flags' = flags /\ chanpresentmask' = chanpresentmask
      /\ q' = [c \in Channels |-> AgeAll(Q2[c])]
      /\ \/ hold_swaps' = H2
         \/ \A c \in Channels : Placed(q', H2, c, rejoin_grid', hold_swaps')
  BY DEF Swap
<1>2. \A c \in Channels : Q1[c] \in Slots /\ H1[c] = 0 /\ Q1[c] = SwapQueue(c)
  BY SwapQueueType, SwapHoldZero DEF IInv
<1>3. /\ A \subseteq Channels
      /\ \A c \in A : IsInterval(c) /\ Listening(c) /\ Q1[c][0] \in Entry
  <2>1. \A c \in A : c \in Channels /\ IsInterval(c) /\ Listening(c) /\ IsTagged(Q1[c][0])
    BY DEF Comparable
  <2>2. QED BY <1>2, <2>1, SlotsAre DEF SlotIdx, MaybeEntry, IsTagged
<1>4. H2 \in [Channels -> 0 .. 1] /\ \A c \in Channels : Q2[c] \in Slots
  BY <1>2, SkipToType
<1>5. \A c \in Channels :
        /\ Q2[c] = IF c \in A THEN SkipTo(Q1[c], target) ELSE Q1[c]
        /\ H2[c] = IF c \in A /\ WaitsFor(Q1[c], target) THEN 1 ELSE H1[c]
  OBVIOUS
<1>6. A # {} => \E m \in A : Q1[m][0].iv = target /\ target \in Nat
  BY <1>3, TagsSpec DEF Target
<1> HIDE DEF Q1, H1, C, A, target
<1>7. \E x \in Channels : /\ IsInterval(x) /\ Listening(x)
                          /\ Q2[x][0] # None /\ H2[x] = 0
  <2>1. CASE ch \notin A
    BY <1>2, <1>5, <2>1
  <2>2. CASE ch \in A
    <3>1. PICK m \in A : Q1[m][0].iv = target /\ target \in Nat
      BY <1>6, <2>2
    <3>2. ~WaitsFor(Q1[m], target) /\ ~Stale(Q1[m][0], target)
      BY <3>1 DEF WaitsFor, Stale
    <3>3. Q2[m] = Q1[m] /\ H2[m] = 0
      BY <1>2, <1>3, <1>5, <3>2, SkipToKeepsHead
    <3>4. QED BY <1>3, <3>3, NoneAssumption
  <2>3. QED BY <2>1, <2>2
<1>8. PICK x \in Channels : IsInterval(x) /\ Listening(x) /\ Q2[x][0] # None /\ H2[x] = 0
  BY <1>7
<1>9. q'[x][0] # None
  <2>1. q'[x][0] = Aged(Q2[x][0])
    BY <1>1 DEF AgeAll, SlotIdx
  <2>2. QED BY <1>4, <1>8, <2>1, SlotsAre, AgedType DEF SlotIdx
<1> HIDE DEF Q2, H2
<1>10. QED BY <1>1, <1>4, <1>8, <1>9, PlacingLeavesOne DEF Listening

(* Whatever waits, skips, joins or is placed at a swap, one channel of the *)
(* user sounds if any of them had an interval to start: the channels never *)
(* all wait for one another.  With and without tags, for any modes, number *)
(* of channels and sender sessions.                                        *)
THEOREM WaitingNeverMutes == Spec => SwapNeverMutes
<1>1. ASSUME IInv, [Next]_vars
      PROVE  [Swap /\ ~LateStart /\ (\E ch \in Channels : SwapQueue(ch)[0] # None /\ Listening(ch)
                                                     /\ IsInterval(ch) /\ SwapHold(ch) = 0)
                => \E ch \in Channels : Sounding(ch)' /\ IsInterval(ch)]_vars
  BY <1>1, SwapLeavesOne
<1>2. QED BY <1>1, Invariance, PTL DEF Spec, SwapNeverMutes
-----------------------------------------------------------------------------
(* What waits has tags if the sender's downloads have.  It is an invariant *)
(* of its own: only a session channel plays what did not arrive, and a     *)
(* change of the session bit flushes the queue.                            *)
Sent(s) == \A i \in SlotIdx : s[i] # None => s[i].tagged \in Tagged
TagsSent == \A ch \in Channels : "session" \notin flags[ch] => Sent(q[ch])

LEMMA SlotsOfSent ==
  ASSUME NEW s, Sent(s), NEW r, \A i \in SlotIdx : r[i] # None => \E j \in SlotIdx : r[i] = s[j]
  PROVE  Sent(r)
  BY DEF Sent

LEMMA ShiftSent == ASSUME NEW s, Sent(s), NEW k \in Nat PROVE Sent(Shift(s, k))
  BY SlotsOfSent DEF Shift

LEMMA AgeAllSent == ASSUME NEW s \in Slots, Sent(s) PROVE Sent(AgeAll(s))
<1>1. \A i \in SlotIdx : AgeAll(s)[i] = Aged(s[i])
  BY DEF AgeAll
<1>2. QED BY <1>1, SlotsAre, AgedType DEF Sent

LEMMA SwapSent ==
  ASSUME IInv, Swap, NEW ch \in Channels, Sent(q[ch])
  PROVE  Sent(q'[ch])
<1>1. q[ch] \in Slots /\ SwapQueue(ch) \in Slots
  BY SwapQueueType DEF IInv, TypeOK
<1>2. Sent(SwapQueue(ch))
  <2>1. Sent(Advance(q[ch], Listening(ch)))
    <3> DEFINE r == Advance(q[ch], Listening(ch))
    <3>1. r[0] \in {q[ch][1], None} /\ r[1] = q[ch][2] /\ r[2] = None
      BY DEF Advance, Shift, SlotIdx
    <3>2. QED BY <3>1 DEF Sent, SlotIdx
  <2>2. Sent([q[ch] EXCEPT ![0] = None])
    BY <1>1, SlotsOfSent DEF Slots, SlotIdx
  <2>3. QED BY <2>1, <2>2 DEF SwapQueue
<1>3. \A t : Sent(SkipTo(SwapQueue(ch), t))
  <2>1. \A t : SkipCount(SwapQueue(ch), t) \in Nat
    BY <1>1, SkipCountSpec
  <2>2. QED BY <1>2, <2>1, ShiftSent DEF SkipTo
<1>4. QED BY <1>2, <1>3, SwapShape, AgeAllSent

LEMMA NextSent == ASSUME IInv, TagsSent, [Next]_vars PROVE TagsSent'
<1>1. CASE UNCHANGED vars
  BY <1>1 DEF vars, TagsSent, Sent
<1>2. CASE Next
  <2>1. SUFFICES ASSUME NEW ch \in Channels, "session" \notin flags'[ch] PROVE Sent(q'[ch])
    BY DEF TagsSent, Sent
  <2>2. /\ q \in Queues /\ flags \in [Channels -> Modes \union {{}}]
        /\ "session" \notin flags[ch] => Sent(q[ch])
    BY DEF IInv, TypeOK, Queues, TagsSent
  <2>3. Sent(NoSlots)
    BY DEF Sent, NoSlots
  <2>4. ASSUME NEW c \in Channels, NEW e \in Entry, Arrive(c, e) PROVE Sent(q'[ch])
    <3>1. "session" \notin flags[ch] /\ e.tagged \in Tagged
      BY <2>1, <2>4 DEF Arrive
    <3>2. Sent(Deliver(q[ch], e))
      BY <2>2, <3>1 DEF Sent, Deliver, Queues, Slots, SlotIdx
    <3>3. q'[ch] \in {q[ch], Deliver(q[ch], e)}
      BY <2>2, <2>4 DEF Arrive, Queues
    <3>4. QED BY <2>2, <3>1, <3>2, <3>3
  <2>5. ASSUME NEW c \in Channels, ArriveSilence(c) PROVE Sent(q'[ch])
    <3>1. "session" \notin flags[ch] /\ q'[ch] \in {q[ch], Silence(q[ch])}
      BY <2>1, <2>2, <2>5 DEF ArriveSilence, Queues
    <3>2. Sent(Silence(q[ch]))
      BY <2>2, <3>1 DEF Sent, Silence, Queues, Slots, SlotIdx
    <3>3. QED BY <2>2, <3>1, <3>2
  <2>6. ASSUME NEW c \in Channels, NEW f \in Modes, ChannelActive(c, f) PROVE Sent(q'[ch])
    <3>1. c # ch => q'[ch] = q[ch] /\ flags'[ch] = flags[ch]
      BY <2>2, <2>6 DEF ChannelActive, Queues
    <3>2. CASE c = ch /\ ModeBits(flags[c]) = ModeBits(f)
      <4>1. q' = q /\ flags'[ch] = f
        BY <2>2, <2>6, <3>2 DEF ChannelActive
      <4>2. "session" \notin flags[ch]
        BY <2>1, <3>2, <4>1 DEF ModeBits
      <4>3. QED BY <2>2, <4>1, <4>2
    <3>3. CASE c = ch /\ ModeBits(flags[c]) # ModeBits(f)
      BY <2>2, <2>3, <2>6, <3>3 DEF ChannelActive, Queues
    <3>4. QED BY <2>1, <2>2, <3>1, <3>2, <3>3
  <2>7. ASSUME NEW c \in Channels, ChannelInactive(c) PROVE Sent(q'[ch])
    BY <2>1, <2>2, <2>3, <2>7 DEF ChannelInactive
  <2>8. ASSUME NEW c \in Channels, Toggle(c) PROVE Sent(q'[ch])
    BY <2>1, <2>2, <2>8 DEF Toggle
  <2>9. ASSUME NEW c \in Channels, LiveAdvance(c) PROVE Sent(q'[ch])
    <3>1. "session" \notin flags[ch] /\ q'[ch] \in {q[ch], Shift(q[ch], 1)}
      BY <2>1, <2>2, <2>9 DEF LiveAdvance, Queues
    <3>2. QED BY <2>2, <3>1, ShiftSent
  <2>10. ASSUME NEW c \in Channels, SessionPlay(c) PROVE Sent(q'[ch])
    <3>1. c # ch /\ flags' = flags /\ "session" \notin flags[ch]
      BY <2>1, <2>10 DEF SessionPlay
    <3>2. q'[ch] = q[ch]
      BY <2>2, <2>10, <3>1 DEF SessionPlay, Queues
    <3>3. QED BY <2>2, <3>1, <3>2
  <2>11. CASE FinishToggle
    <3>1. "session" \notin flags[ch] /\ q'[ch] \in {q[ch], NoSlots}
      BY <2>1, <2>2, <2>11 DEF FinishToggle, Queues
    <3>2. QED BY <2>2, <2>3, <3>1
  <2>12. CASE Swap
    <3>1. "session" \notin flags[ch]
      BY <2>1, <2>12 DEF Swap
    <3>2. QED BY <2>2, <2>12, <3>1, SwapSent
  <2>13. QED BY <1>2, <2>4, <2>5, <2>6, <2>7, <2>8, <2>9, <2>10, <2>11, <2>12 DEF Next, Steps
<1>3. QED BY <1>1, <1>2

LEMMA TagsInvariance == Spec => []TagsSent
<1>1. Init => TagsSent
  BY DEF Init, TagsSent, Sent, NoSlots
<1>2. QED BY <1>1, NextSent, Invariance, PTL DEF Spec

(* A skip that finds the target among what waits stops at a tagged entry:  *)
(* before it there is no hole, and nothing without a tag.                  *)
LEMMA SkipFinds ==
  ASSUME NEW s \in Slots, NEW a, InOrder(s, a), NEW target \in Nat,
         \A i \in SlotIdx : s[i] # None => s[i].tagged, s[0] # None,
         \E i \in 1 .. 2 : HasTag(s[i], target)
  PROVE  IsTagged(SkipTo(s, target)[0])
<1> DEFINE k == SkipCount(s, target)
<1>1. /\ k \in 0 .. 3
      /\ \A i \in 0 .. k - 1 : Stale(s[i], target)
      /\ k = 3 \/ ~Stale(s[k], target)
  BY SkipCountSpec
<1> HIDE DEF k
<1>2. PICK i \in 1 .. 2 : s[i] # None /\ s[i].iv = target
  BY DEF HasTag, IsTagged
<1>3. k <= i
  <2>1. ~Stale(s[i], target)
    BY <1>2 DEF Stale
  <2>2. QED BY <1>1, <2>1
<1>4. SkipTo(s, target)[0] = s[k]
  BY <1>1, <1>3 DEF SkipTo, Shift, SlotIdx, k
<1>5. s[k] # None
  BY <1>1, <1>2, <1>3 DEF InOrder, NoGap
<1>6. QED BY <1>1, <1>3, <1>4, <1>5 DEF IsTagged, SlotIdx

LEMMA SwapFollows ==
  ASSUME \A s, t \in Sessions : s = t, \A s, t \in Tagged : s = t,
         IInv, TagsSent, Swap, ~LateStart,
         NEW ch \in Channels, OnSwap(ch), Listening(ch), hold_swaps[ch] = 0, q[ch][1] # None
  PROVE  \/ q'[ch][0] = Aged(q[ch][1])
         \/ \E d \in Channels \ {ch} : /\ q[d][0] # None /\ q'[d][0] # None
                                       /\ q'[d][0].iv = q'[ch][0].iv
<1> DEFINE Q1     == [x \in Channels |-> SwapQueue(x)]
           H1     == [x \in Channels |-> SwapHold(x)]
           C      == IF AlignChannels THEN Comparable(Q1, H1) ELSE {}
           A      == IF OneSession(Q1, C) THEN C ELSE {}
           target == Target(Q1, A, Joined)
           Q2     == [x \in Channels |-> IF x \in A THEN SkipTo(Q1[x], target) ELSE Q1[x]]
<1>1. q' = [x \in Channels |-> AgeAll(Q2[x])]
  BY DEF Swap
<1>2. \A x \in Channels : Q1[x] \in Slots /\ Q1[x] = SwapQueue(x)
  BY SwapQueueType DEF IInv
<1>3. /\ A \subseteq Channels
      /\ \A x \in A : IsInterval(x) /\ IsTagged(Q1[x][0]) /\ Q1[x][0] \in Entry
  <2>1. \A x \in A : x \in Channels /\ IsInterval(x) /\ IsTagged(Q1[x][0])
    BY DEF Comparable
  <2>2. QED BY <1>2, <2>1, SlotsAre DEF SlotIdx, MaybeEntry, IsTagged
<1>4. \A x \in Channels : Q2[x] = IF x \in A THEN SkipTo(Q1[x], target) ELSE Q1[x]
  OBVIOUS
<1>5. \A x \in Channels : Q2[x] \in Slots /\ q'[x][0] = Aged(Q2[x][0])
  BY <1>1, <1>2, <1>4, SkipToType DEF AgeAll, SlotIdx
<1> HIDE DEF Q1, A, Q2
<1>6. target = IF SkipsForward(Q1, A, Joined) THEN Latest(Q1, A) ELSE Earliest(Q1, A)
  BY DEF Target
<1> HIDE DEF target
(* The channel moves on to the interval that was next.                     *)
<1>7. Q1[ch][0] = q[ch][1] /\ Q1[ch][1] = q[ch][2] /\ Q1[ch][2] = None
  <2>1. Advances(ch)
    BY DEF Advances, Waits
  <2>2. Q1[ch] = Advance(q[ch], Listening(ch))
    BY <1>2, <2>1 DEF SwapQueue
  <2>3. ASSUME NEW l, l PROVE /\ Advance(q[ch], l)[0] = q[ch][1]
                              /\ Advance(q[ch], l)[1] = q[ch][2]
                              /\ Advance(q[ch], l)[2] = None
    BY <2>3 DEF Advance, Shift, SlotIdx
  <2>4. QED BY <2>2, <2>3
<1>8. CASE Q2[ch] = Q1[ch]
  BY <1>5, <1>7, <1>8
(* It is skipped: it is behind the latest interval, which a sibling had    *)
(* before the swap.                                                        *)
<1>9. CASE Q2[ch] # Q1[ch]
  <2>1. ch \in A /\ Q2[ch] = SkipTo(Q1[ch], target) /\ Stale(Q1[ch][0], target)
    BY <1>2, <1>4, <1>9, SkipToKeepsHead
  <2>2. /\ Earliest(Q1, A) \in Nat /\ \A x \in A : Earliest(Q1, A) <= Q1[x][0].iv
        /\ Latest(Q1, A) \in Nat
    BY <1>3, <2>1, TagsSpec
  <2>3. Q1[ch][0].iv \in Nat /\ Q1[ch][0].iv < target
    BY <1>3, <2>1, EntryType DEF Stale
  <2>4. SkipsForward(Q1, A, Joined) /\ target = Latest(Q1, A) /\ target \in Nat
    BY <1>6, <2>1, <2>2, <2>3
  <2>5. PICK d \in A : Q1[d][0].iv = target /\ d \notin Joined
    BY <2>4 DEF SkipsForward
  <2>6. \E i \in 1 .. 2 : HasTag(Q1[ch][i], target)
    BY <2>1, <2>3, <2>4 DEF SkipsForward
  <2>7. d \in Channels /\ d # ch /\ IsInterval(d) /\ IsTagged(Q1[d][0]) /\ Q1[d][0] \in Entry
    BY <1>3, <2>3, <2>5
  <2>8. q'[d][0] # None /\ q'[d][0].iv = target
    <3>1. ~Stale(Q1[d][0], target)
      BY <2>4, <2>5 DEF Stale
    <3>2. Q2[d] = Q1[d]
      BY <1>2, <1>4, <2>5, <2>7, <3>1, SkipToKeepsHead
    <3>3. QED BY <1>5, <2>5, <2>7, <3>2, AgedType, NoneAssumption DEF MaybeEntry
  <2>9. q[d][0] # None
    <3>1. OnSwap(d) /\ ~(IsInterval(d) /\ LateStart)
      BY <2>7 DEF IsInterval, OnSwap
    <3>2. CASE Waits(d)
      BY <2>7, <3>2 DEF Waits, IInv, HoldHasAudio
    <3>3. CASE ~Waits(d)
      <4>1. Advances(d) /\ SwapQueue(d)[0] # None
        BY <1>2, <2>7, <3>1, <3>3 DEF Advances, IsTagged
      <4>2. QED BY <2>5, <2>7, <4>1 DEF Joined
    <3>4. QED BY <3>2, <3>3
  <2>10. Q2[ch][0].iv = target /\ IsTagged(Q2[ch][0])
    <3>1. "session" \notin flags[ch] /\ q[ch] \in Slots
      BY DEF OnSwap, IInv, TypeOK
    <3>2. InOrder(Q1[ch], arrived[ch])
      BY <1>2, <3>1, SwapQueueInOrder, OrderedQueues DEF IInv
    <3>3. \A i \in SlotIdx : Q1[ch][i] # None => Q1[ch][i].tagged \in Tagged
      <4>1. Sent(Q1[ch])
        BY <1>7, <3>1 DEF TagsSent, Sent, SlotIdx
      <4>2. QED BY <4>1 DEF Sent
    <3>4. Q1[ch][0] # None /\ Q1[ch][0].tagged
      BY <1>3, <2>1 DEF IsTagged
    <3>5. 0 \in SlotIdx
      BY DEF SlotIdx
    <3>6. \A i \in SlotIdx : Q1[ch][i] # None => Q1[ch][i].tagged
      BY <3>3, <3>4, <3>5
    <3>7. \A i \in SlotIdx : Q1[ch][i] # None => Q1[ch][i].sess \in Sessions
      BY <1>2, SlotsAre DEF MaybeEntry, Entry
    <3>8. \A i, j \in SlotIdx : Q1[ch][i] # None /\ Q1[ch][j] # None =>
            Q1[ch][i].sess = Q1[ch][j].sess
      BY <3>7
    <3>9. IsTagged(Q2[ch][0])
      BY <1>2, <2>1, <2>4, <2>6, <3>2, <3>4, <3>6, SkipFinds
    <3>10. QED BY <1>2, <2>1, <2>4, <2>6, <3>2, <3>8, <3>9, SkipReaches
  <2>11. q'[ch][0].iv = target
    BY <1>5, <2>10, SlotsAre, AgedType DEF IsTagged, SlotIdx
  <2>12. QED BY <2>7, <2>8, <2>9, <2>11
<1>10. QED BY <1>8, <1>9

(* An interval that was next is thrown away at a swap only to catch up     *)
(* with a sibling that was playing before it: a channel that joins never   *)
(* costs the others audio.  It needs what AlignsAtSwap needs, and a sender *)
(* that tags all of its intervals or none.                                 *)
THEOREM SkipsFollowSiblings ==
  ASSUME \A s, t \in Sessions : s = t, \A s, t \in Tagged : s = t
  PROVE  Spec => SkipFollowsSibling
<1>1. ASSUME IInv, TagsSent, [Next]_vars
      PROVE  [Swap => \A ch \in Channels :
               OnSwap(ch) /\ Listening(ch) /\ hold_swaps[ch] = 0 /\ ~LateStart /\ q[ch][1] # None
               => \/ q'[ch][0] = Aged(q[ch][1])
                  \/ \E d \in Channels \ {ch} : /\ q[d][0] # None /\ q'[d][0] # None
                                                /\ q'[d][0].iv = q'[ch][0].iv]_vars
  BY <1>1, SwapFollows
<1>2. QED BY <1>1, Invariance, TagsInvariance, PTL DEF Spec, SkipFollowsSibling
=============================================================================
