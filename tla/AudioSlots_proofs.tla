-------------------------- MODULE AudioSlots_proofs --------------------------
(***************************************************************************)
(* What the operations on a channel's decode slots preserve: their type,   *)
(* the absence of holes, and recording order.                              *)
(***************************************************************************)
EXTENDS AudioSlots, TLAPS

MaybeEntry == Entry \union {None}

(* Every operation yields three slots of entries.                          *)
LEMMA SlotsAre ==
  ASSUME NEW q \in Slots PROVE \A i \in SlotIdx : q[i] \in MaybeEntry
  BY DEF Slots, MaybeEntry

LEMMA EntryType ==
  ASSUME NEW e \in Entry
  PROVE  e.sess \in Nat /\ e.iv \in Nat /\ e.tagged \in BOOLEAN /\ e.fresh \in BOOLEAN
  BY SessionsAssumption, IntervalsAssumption DEF Entry

LEMMA AgedType ==
  ASSUME NEW e \in MaybeEntry
  PROVE  /\ Aged(e) \in MaybeEntry
         /\ Aged(e) = None <=> e = None
         /\ e # None => /\ Aged(e).sess = e.sess
                        /\ Aged(e).iv = e.iv
                        /\ Aged(e).tagged = e.tagged
  BY NoneAssumption DEF MaybeEntry, Aged, Entry

LEMMA DeliverType ==
  ASSUME NEW q \in Slots, NEW e \in MaybeEntry PROVE Deliver(q, e) \in Slots
  BY DEF Slots, SlotIdx, MaybeEntry, Deliver

LEMMA SilenceType == ASSUME NEW q \in Slots PROVE Silence(q) \in Slots
  BY DEF Slots, SlotIdx, Silence

LEMMA ShiftType == ASSUME NEW q \in Slots, NEW k PROVE Shift(q, k) \in Slots
  BY DEF Slots, SlotIdx, Shift

LEMMA AdvanceType ==
  ASSUME NEW q \in Slots, NEW listening PROVE Advance(q, listening) \in Slots
<1>1. Shift(q, 1) \in Slots
  BY ShiftType
<1>2. q[1] \in MaybeEntry /\ None \in MaybeEntry
  BY SlotsAre DEF SlotIdx, MaybeEntry
<1>3. QED BY <1>1, <1>2 DEF Advance, Slots, SlotIdx, MaybeEntry

LEMMA SkipToType == ASSUME NEW q \in Slots, NEW target PROVE SkipTo(q, target) \in Slots
  BY ShiftType DEF SkipTo

LEMMA AgeAllType == ASSUME NEW q \in Slots PROVE AgeAll(q) \in Slots
<1>1. \A i \in SlotIdx : Aged(q[i]) \in MaybeEntry
  BY SlotsAre, AgedType
<1>2. QED BY <1>1 DEF AgeAll, Slots, MaybeEntry

(* The skip stops: SkipCount is a number of slots, and drops what is       *)
(* stale and nothing else.                                                 *)
LEMMA SkipCountSpec ==
  ASSUME NEW q \in Slots, NEW target
  PROVE  /\ SkipCount(q, target) \in 0 .. 3
         /\ \A i \in 0 .. SkipCount(q, target) - 1 : Stale(q[i], target)
         /\ SkipCount(q, target) = 3 \/ ~Stale(q[SkipCount(q, target)], target)
<1> DEFINE Good(k) == /\ \A i \in 0 .. k - 1 : Stale(q[i], target)
                      /\ k = 3 \/ ~Stale(q[k], target)
<1>1. \E k \in 0 .. 3 : Good(k)
  <2>1. CASE ~Stale(q[0], target)
    <3>1. Good(0)
      BY <2>1
    <3>2. QED BY <3>1
  <2>2. CASE Stale(q[0], target) /\ ~Stale(q[1], target)
    <3>1. Good(1)
      <4>1. \A i \in 0 .. 0 : i = 0
        OBVIOUS
      <4>2. QED BY <2>2, <4>1
    <3>2. QED BY <3>1
  <2>3. CASE Stale(q[0], target) /\ Stale(q[1], target) /\ ~Stale(q[2], target)
    <3>1. Good(2)
      <4>1. \A i \in 0 .. 1 : i = 0 \/ i = 1
        OBVIOUS
      <4>2. QED BY <2>3, <4>1
    <3>2. QED BY <3>1
  <2>4. CASE Stale(q[0], target) /\ Stale(q[1], target) /\ Stale(q[2], target)
    <3>1. Good(3)
      <4>1. \A i \in 0 .. 2 : i = 0 \/ i = 1 \/ i = 2
        OBVIOUS
      <4>2. QED BY <2>4, <4>1
    <3>2. QED BY <3>1
  <2>5. QED BY <2>1, <2>2, <2>3, <2>4
<1>2. SkipCount(q, target) = CHOOSE k \in 0 .. 3 : Good(k)
  BY DEF SkipCount
<1>3. SkipCount(q, target) \in 0 .. 3 /\ Good(SkipCount(q, target))
  BY <1>1, <1>2
<1>4. QED BY <1>3

(* A head that is not stale stays: nothing is dropped.                     *)
LEMMA SkipToKeepsHead ==
  ASSUME NEW q \in Slots, NEW target, ~Stale(q[0], target)
  PROVE  SkipTo(q, target) = q
<1>1. SkipCount(q, target) = 0
  <2>1. SUFFICES ASSUME SkipCount(q, target) > 0 PROVE FALSE
    BY SkipCountSpec
  <2>2. 0 \in 0 .. SkipCount(q, target) - 1
    BY <2>1, SkipCountSpec
  <2>3. QED BY <2>2, SkipCountSpec
<1>2. QED BY <1>1 DEF SkipTo, Shift, Slots, SlotIdx

-----------------------------------------------------------------------------
(* A well-formed queue: no hole, in recording order, nothing in it later   *)
(* than the last arrival a.  QueueOrdered says this of every channel that  *)
(* does not play its session.                                              *)
InOrder(q, a) ==
  /\ NoGap(q) /\ Ordered(q)
  /\ \A i \in SlotIdx : q[i] # None => a # None /\ NotLater(q[i], a)

LEMMA EmptyInOrder == ASSUME NEW a PROVE InOrder(NoSlots, a)
  BY DEF InOrder, NoGap, Ordered, NoSlots, SlotIdx

(* What comes after the last arrival comes after all that waits.           *)
LEMMA AfterAll ==
  ASSUME NEW d \in Entry, NEW a \in Entry, NEW e \in Entry, NotLater(d, a), After(e, a)
  PROVE  After(e, d) /\ NotLater(d, e)
<1>1. d.sess \in Nat /\ a.sess \in Nat /\ e.sess \in Nat
  BY EntryType
<1>2. d.iv \in Nat /\ a.iv \in Nat /\ e.iv \in Nat
  BY EntryType
<1>3. QED BY <1>1, <1>2 DEF After, NotLater

(* A delivery appends to the queue, or replaces its last entry.            *)
LEMMA DeliverInOrder ==
  ASSUME NEW q \in Slots, NEW a \in MaybeEntry, InOrder(q, a), NEW e \in Entry,
         a # None => After(e, a)
  PROVE  InOrder(Deliver(q, e), e)
<1> DEFINE r == Deliver(q, e)
<1>1. ASSUME NEW i \in SlotIdx, q[i] # None PROVE After(e, q[i]) /\ NotLater(q[i], e)
  <2>1. q[i] \in Entry
    BY <1>1, SlotsAre DEF MaybeEntry
  <2>2. a \in Entry /\ NotLater(q[i], a) /\ After(e, a)
    BY <1>1 DEF InOrder, MaybeEntry
  <2>3. QED BY <2>1, <2>2, AfterAll
<1>2. e # None /\ NotLater(e, e)
  BY NoneAssumption, EntryType DEF NotLater
<1>3. CASE q[1] = None
  <2>1. q[2] = None
    BY <1>3 DEF InOrder, NoGap
  <2>2. r[0] = q[0] /\ r[1] = e /\ r[2] = None
    BY <1>3, <2>1 DEF Deliver, FreeSlot, Slots, SlotIdx
  <2>3. QED BY <1>1, <1>2, <2>2 DEF InOrder, NoGap, Ordered, SlotIdx
<1>4. CASE q[1] # None
  <2>1. r[0] = q[0] /\ r[1] = q[1] /\ r[2] = e
    BY <1>4 DEF Deliver, FreeSlot, Slots, SlotIdx
  <2>2. QED BY <1>1, <1>2, <1>4, <2>1 DEF InOrder, NoGap, Ordered, SlotIdx
<1>5. QED BY <1>3, <1>4

LEMMA SilenceInOrder ==
  ASSUME NEW q \in Slots, NEW a, InOrder(q, a)
  PROVE  InOrder(Silence(q), a)
<1> DEFINE r == Silence(q)
<1>1. r[0] = q[0] /\ r[1] = q[1] /\ r[2] = None
  BY DEF Silence, FreeSlot, Slots, SlotIdx, InOrder, NoGap
<1>2. QED BY <1>1 DEF InOrder, NoGap, Ordered, SlotIdx

LEMMA ShiftInOrder ==
  ASSUME NEW q \in Slots, NEW a, InOrder(q, a), NEW k \in 0 .. 3
  PROVE  InOrder(Shift(q, k), a)
<1> DEFINE r == Shift(q, k)
<1>1. CASE k = 0
  <2>1. r[0] = q[0] /\ r[1] = q[1] /\ r[2] = q[2]
    BY <1>1 DEF Shift, SlotIdx
  <2>2. QED BY <2>1 DEF InOrder, NoGap, Ordered, SlotIdx
<1>2. CASE k = 1
  <2>1. r[0] = q[1] /\ r[1] = q[2] /\ r[2] = None
    BY <1>2 DEF Shift, SlotIdx
  <2>2. QED BY <2>1 DEF InOrder, NoGap, Ordered, SlotIdx
<1>3. CASE k = 2
  <2>1. r[0] = q[2] /\ r[1] = None /\ r[2] = None
    BY <1>3 DEF Shift, SlotIdx
  <2>2. QED BY <2>1 DEF InOrder, NoGap, Ordered, SlotIdx
<1>4. CASE k = 3
  <2>1. r[0] = None /\ r[1] = None /\ r[2] = None
    BY <1>4 DEF Shift, SlotIdx
  <2>2. QED BY <2>1 DEF InOrder, NoGap, Ordered, SlotIdx
<1>5. QED BY <1>1, <1>2, <1>3, <1>4

(* The head of a queue may be dropped in place.                            *)
LEMMA DropHeadInOrder ==
  ASSUME NEW q \in Slots, NEW a, InOrder(q, a)
  PROVE  InOrder([q EXCEPT ![0] = None], a)
<1> DEFINE r == [q EXCEPT ![0] = None]
<1>1. r[0] = None /\ r[1] = q[1] /\ r[2] = q[2]
  BY DEF Slots, SlotIdx
<1>2. QED BY <1>1 DEF InOrder, NoGap, Ordered, SlotIdx

LEMMA AdvanceInOrder ==
  ASSUME NEW q \in Slots, NEW a, InOrder(q, a), NEW listening \in BOOLEAN
  PROVE  InOrder(Advance(q, listening), a)
<1>1. Shift(q, 1) \in Slots /\ InOrder(Shift(q, 1), a)
  BY ShiftType, ShiftInOrder
<1>2. CASE listening
  <2>1. Shift(q, 1)[0] = q[1]
    BY DEF Shift, SlotIdx
  <2>2. Advance(q, listening) = [Shift(q, 1) EXCEPT ![0] = Shift(q, 1)[0]]
    BY <1>2, <2>1 DEF Advance
  <2>3. Advance(q, listening) = Shift(q, 1)
    BY <1>1, <2>2 DEF Slots
  <2>4. QED BY <1>1, <2>3
<1>3. CASE ~listening
  <2>1. Advance(q, listening) = [Shift(q, 1) EXCEPT ![0] = None]
    BY <1>3 DEF Advance
  <2>2. QED BY <1>1, <2>1, DropHeadInOrder
<1>4. QED BY <1>2, <1>3

LEMMA SkipToInOrder ==
  ASSUME NEW q \in Slots, NEW a, InOrder(q, a), NEW target
  PROVE  InOrder(SkipTo(q, target), a)
  BY ShiftInOrder, SkipCountSpec DEF SkipTo

(* Order only depends on the tags.                                         *)
SameTags(r, q) ==
  \A i \in SlotIdx :
    /\ r[i] = None <=> q[i] = None
    /\ q[i] # None => r[i].sess = q[i].sess /\ r[i].iv = q[i].iv /\ r[i].tagged = q[i].tagged

LEMMA SameTagsInOrder ==
  ASSUME NEW q, NEW r, SameTags(r, q), NEW a, InOrder(q, a)
  PROVE  InOrder(r, a)
<1>1. NoGap(r)
  BY DEF SameTags, InOrder, NoGap, SlotIdx
<1>2. Ordered(r)
  BY DEF SameTags, InOrder, Ordered, After
<1>3. \A i \in SlotIdx : r[i] # None => a # None /\ NotLater(r[i], a)
  BY DEF SameTags, InOrder, NotLater
<1>4. QED BY <1>1, <1>2, <1>3 DEF InOrder

LEMMA AgeAllInOrder ==
  ASSUME NEW q \in Slots, NEW a, InOrder(q, a)
  PROVE  InOrder(AgeAll(q), a)
<1>1. SameTags(AgeAll(q), q)
  <2>1. \A i \in SlotIdx : AgeAll(q)[i] = Aged(q[i])
    BY DEF AgeAll
  <2>2. QED BY <2>1, SlotsAre, AgedType DEF SameTags
<1>2. QED BY <1>1, SameTagsInOrder
-----------------------------------------------------------------------------
(* Nothing of a queue has been heard: all of it comes after what was heard *)
(* last, h.  Of a channel that sounds this holds of what waits.            *)
Ahead(q, h) == \A i \in SlotIdx : q[i] # None /\ h # None => After(q[i], h)
Waiting(q)  == [q EXCEPT ![0] = None]

LEMMA WaitingSlots ==
  ASSUME NEW q \in Slots
  PROVE  Waiting(q)[0] = None /\ Waiting(q)[1] = q[1] /\ Waiting(q)[2] = q[2]
  BY DEF Waiting, Slots, SlotIdx

LEMMA WaitingAhead ==
  ASSUME NEW q \in Slots, NEW h, Ahead(q, h) PROVE Ahead(Waiting(q), h)
  BY WaitingSlots DEF Ahead, SlotIdx

LEMMA EmptyAhead == ASSUME NEW h PROVE Ahead(NoSlots, h)
  BY DEF Ahead, NoSlots

LEMMA ShiftAhead ==
  ASSUME NEW q \in Slots, NEW h, Ahead(q, h), NEW k \in Nat PROVE Ahead(Shift(q, k), h)
  BY DEF Ahead, Shift, SlotIdx

LEMMA SkipToAhead ==
  ASSUME NEW q \in Slots, NEW h, Ahead(q, h), NEW target PROVE Ahead(SkipTo(q, target), h)
<1>1. SkipCount(q, target) \in Nat
  BY SkipCountSpec
<1>2. QED BY <1>1, ShiftAhead DEF SkipTo

(* A swap takes the head away, and what it starts is what waited.          *)
LEMMA AdvanceAhead ==
  ASSUME NEW q \in Slots, NEW h, Ahead(Waiting(q), h), NEW listening \in BOOLEAN
  PROVE  Ahead(Advance(q, listening), h)
<1> DEFINE r == Advance(q, listening)
<1>1. r[0] \in {q[1], None} /\ r[1] = q[2] /\ r[2] = None
  BY DEF Advance, Shift, SlotIdx
<1>2. QED BY <1>1, WaitingSlots DEF Ahead, SlotIdx

LEMMA DeliverAhead ==
  ASSUME NEW q \in Slots, NEW h, Ahead(q, h), NEW e, h # None => After(e, h)
  PROVE  Ahead(Deliver(q, e), h)
  BY DEF Ahead, Deliver, Slots

LEMMA SilenceAhead ==
  ASSUME NEW q \in Slots, NEW h, Ahead(q, h) PROVE Ahead(Silence(q), h)
  BY DEF Ahead, Silence, Slots

LEMMA AgeAllAhead ==
  ASSUME NEW q \in Slots, NEW h, Ahead(q, h) PROVE Ahead(AgeAll(q), h)
<1>1. \A i \in SlotIdx : AgeAll(q)[i] = Aged(q[i])
  BY DEF AgeAll
<1>2. \A i \in SlotIdx : q[i] # None /\ After(q[i], h) => After(AgeAll(q)[i], h)
  BY <1>1, SlotsAre, AgedType DEF After
<1>3. \A i \in SlotIdx : AgeAll(q)[i] # None => q[i] # None
  BY <1>1, SlotsAre, AgedType
<1>4. QED BY <1>2, <1>3 DEF Ahead

(* Once the head of a queue in order is heard, what waits is ahead of it.  *)
LEMMA HeadHeard ==
  ASSUME NEW q \in Slots, NEW a \in MaybeEntry, InOrder(q, a), q[0] # None
  PROVE  /\ Ahead(Waiting(q), Aged(q[0]))
         /\ Aged(q[0]) # None /\ NotLater(Aged(q[0]), a) /\ a # None
<1>1. q[0] \in MaybeEntry
  BY SlotsAre DEF SlotIdx
<1>2. Aged(q[0]) # None /\ Aged(q[0]).sess = q[0].sess /\ Aged(q[0]).iv = q[0].iv
  BY <1>1, AgedType
<1>3. a # None /\ NotLater(q[0], a)
  BY DEF InOrder, SlotIdx
<1>4. \A i \in 1 .. 2 : q[i] # None => After(q[i], q[0])
  BY DEF InOrder, Ordered, SlotIdx
<1>5. \A i \in 1 .. 2 : q[i] # None => After(q[i], Aged(q[0]))
  BY <1>2, <1>4 DEF After
<1>6. Ahead(Waiting(q), Aged(q[0]))
  BY <1>5, WaitingSlots DEF Ahead, SlotIdx
<1>7. QED BY <1>2, <1>3, <1>6 DEF NotLater
=============================================================================
