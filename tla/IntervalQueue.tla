---------------------------- MODULE IntervalQueue ----------------------------
(***************************************************************************)
(* The audio channels of one remote user and the interval swap             *)
(* (njclient.cpp).  Three threads meet here:                               *)
(*   - the network thread (NJClient::Run) delivers downloads into the      *)
(*     queues and applies the user's channel notices;                      *)
(*   - the audio thread (AudioProc) swaps every queue at an interval       *)
(*     boundary and aligns the user's channels, and advances the channels  *)
(*     in voice chat or session mode while mixing;                         *)
(*   - the UI thread subscribes to and unsubscribes from channels.         *)
(* Every queue access is one m_users_cs section, so one action; only the   *)
(* subscription mask changes outside of it, so the UI calls have two steps.*)
(*                                                                         *)
(* "arrived" and "heard" are history variables: the latest download that   *)
(* reached the queue and the latest one that sounded, per channel.         *)
(***************************************************************************)
EXTENDS AudioSlots

CONSTANTS NumChannels,   \* MAX_USER_CHANNELS
          Modes,         \* the channel flags that occur
          Tagged,        \* does the sender tag its intervals: {TRUE}, {FALSE}, both
          AlignChannels, \* config_align_channels
          LateGuard,     \* config_late_start_guard_ms > 0
          AutoSubscribe  \* config_autosubscribe

Channels == 0 .. NumChannels - 1

ASSUME NumChannelsAssumption == NumChannels \in Nat
ASSUME ModesAssumption == Modes \subseteq SUBSET {"live", "session", "video"}
ASSUME FlagAssumption  == /\ Tagged \subseteq BOOLEAN
                          /\ AlignChannels \in BOOLEAN
                          /\ LateGuard \in BOOLEAN
                          /\ AutoSubscribe \in BOOLEAN

VARIABLES flags,            \* RemoteUser_Channel::flags
          chanpresentmask,  \* channels the user has; none: no RemoteUser
          submask,          \* channels we are subscribed to
          q,                \* ds, next_ds[0], next_ds[1] of each channel
          hold_swaps,       \* swaps before ds starts
          rejoin_grid,      \* 0, 1: place this channel, 2: sibling was silent
          toggling,         \* subscription change between its two steps
          arrived, heard    \* history

vars == <<flags, chanpresentmask, submask, q, hold_swaps, rejoin_grid,
          toggling, arrived, heard>>

Idle == [op |-> "idle", ch |-> 0]

TypeOK ==
  /\ flags \in [Channels -> Modes \union {{}}]
  /\ chanpresentmask \subseteq Channels
  /\ submask \subseteq Channels
  /\ q \in [Channels -> Slots]
  /\ hold_swaps \in [Channels -> 0 .. 1]
  /\ rejoin_grid \in [Channels -> 0 .. 2]
  /\ toggling \in {Idle} \union [op : {"sub", "unsub"}, ch : Channels]
  /\ arrived \in [Channels -> Entry \union {None}]
  /\ heard \in [Channels -> Entry \union {None}]

Init ==
  /\ flags = [ch \in Channels |-> {}]
  /\ chanpresentmask = {}
  /\ submask = {}
  /\ q = [ch \in Channels |-> NoSlots]
  /\ hold_swaps = [ch \in Channels |-> 0]
  /\ rejoin_grid = [ch \in Channels |-> 0]
  /\ toggling = Idle
  /\ arrived = [ch \in Channels |-> None]
  /\ heard = [ch \in Channels |-> None]

(* Flag tests of the code: 2 and 4 (voice chat, session), and with 0x10.   *)
OnSwap(ch)      == flags[ch] \intersect {"live", "session"} = {}
IsInterval(ch)  == flags[ch] = {}
Listening(ch)   == ch \in submask /\ ch \in chanpresentmask
UserExists      == chanpresentmask # {}

(* mixInChannel plays ds of every present channel that is not held.        *)
Sounding(ch) ==
  /\ ch \in chanpresentmask /\ "session" \notin flags[ch]
  /\ q[ch][0] # None /\ hold_swaps[ch] = 0

Record == heard' = [ch \in Channels |->
                     IF Sounding(ch)' THEN Aged(q'[ch][0]) ELSE heard[ch]]
-----------------------------------------------------------------------------
(* The network thread.                                                     *)

(* RemoteDownload::startPlaying: enough of the download is buffered, or it *)
(* ended.  Downloads of a channel come over one connection, in recording   *)
(* order; a session channel plays from its own list instead.               *)
Arrive(ch, e) ==
  /\ UserExists
  /\ "session" \notin flags[ch]
  /\ e.tagged \in Tagged /\ (e.fresh => LateGuard)
  /\ arrived[ch] # None => After(e, arrived[ch])
  /\ arrived' = [arrived EXCEPT ![ch] = e]
  /\ q' = [q EXCEPT ![ch] = Deliver(@, e)]
  /\ UNCHANGED <<flags, chanpresentmask, submask, hold_swaps, rejoin_grid, toggling>>

(* DOWNLOAD_INTERVAL_BEGIN with a zero GUID.                               *)
ArriveSilence(ch) ==
  /\ UserExists
  /\ OnSwap(ch)
  /\ q' = [q EXCEPT ![ch] = Silence(@)]
  /\ UNCHANGED <<flags, chanpresentmask, submask, hold_swaps, rejoin_grid, toggling, arrived>>

(* USERINFO_CHANGE_NOTIFY: the channel is there, with flags f.  A change   *)
(* of the voice chat or session bit flushes its queue.                     *)
ModeBitsMutant(f) == f \intersect {"live"}
ModeBits(f) == f \intersect {"live", "session"}

ChannelActive(ch, f) ==
  LET flush == ModeBits(flags[ch]) # ModeBits(f) IN
  /\ toggling = Idle
  /\ flags' = [flags EXCEPT ![ch] = f]
  /\ chanpresentmask' = chanpresentmask \union {ch}
  /\ submask' = IF AutoSubscribe THEN submask \union {ch} ELSE submask
  /\ IF flush
       THEN /\ rejoin_grid' = [rejoin_grid EXCEPT
                 ![ch] = IF "live" \in flags[ch] /\ ModeBits(f) = {} THEN 1 ELSE 0]
            /\ hold_swaps' = [hold_swaps EXCEPT ![ch] = 0]
            /\ q' = [q EXCEPT ![ch] = NoSlots]
       ELSE UNCHANGED <<rejoin_grid, hold_swaps, q>>
  /\ UNCHANGED <<toggling, arrived>>

(* USERINFO_CHANGE_NOTIFY: the channel is gone; with the last one the      *)
(* RemoteUser is deleted, every channel of it included.                    *)
ChannelInactiveMutant(ch) ==       \* flushes, forgets the hold
  /\ toggling = Idle
  /\ UserExists
  /\ chanpresentmask' = chanpresentmask \ {ch}
  /\ submask' = submask \ {ch}
  /\ q' = [q EXCEPT ![ch] = NoSlots]
  /\ rejoin_grid' = [rejoin_grid EXCEPT ![ch] = 0]
  /\ UNCHANGED <<flags, hold_swaps, toggling, arrived>>

ChannelInactive(ch) ==
  /\ toggling = Idle
  /\ UserExists
  /\ chanpresentmask' = chanpresentmask \ {ch}
  /\ LET left == chanpresentmask \ {ch}
         gone == IF left = {} THEN Channels ELSE {ch}
     IN /\ submask' = submask \ gone
        /\ q' = [c \in Channels |-> IF c \in gone THEN NoSlots ELSE q[c]]
        /\ rejoin_grid' = [c \in Channels |-> IF c \in gone THEN 0 ELSE rejoin_grid[c]]
        /\ hold_swaps' = [c \in Channels |-> IF c \in gone THEN 0 ELSE hold_swaps[c]]
        /\ flags' = [c \in Channels |-> IF left = {} THEN {} ELSE flags[c]]
  /\ UNCHANGED <<toggling, arrived>>
-----------------------------------------------------------------------------
(* The UI thread: SetUserChannelState.  m_remotechannel_rd_mutex keeps     *)
(* channel notices out between the two steps, not deliveries or swaps.     *)
Toggle(ch) ==
  /\ toggling = Idle
  /\ ch \in chanpresentmask
  /\ IF ch \in submask
       THEN /\ submask' = submask \ {ch}
            /\ toggling' = [op |-> "unsub", ch |-> ch]
       ELSE /\ submask' = submask \union {ch}
            /\ toggling' = [op |-> "sub", ch |-> ch]
  /\ UNCHANGED <<flags, chanpresentmask, q, hold_swaps, rejoin_grid, arrived>>

FinishToggle ==
  /\ toggling # Idle
  /\ LET ch == toggling.ch
         un == toggling.op = "unsub"
     IN /\ q' = IF un THEN [q EXCEPT ![ch] = NoSlots] ELSE q
        /\ rejoin_grid' = [rejoin_grid EXCEPT ![ch] = IF un THEN 0 ELSE 1]
        /\ hold_swaps' = [hold_swaps EXCEPT ![ch] = 0]
  /\ toggling' = Idle
  /\ UNCHANGED <<flags, chanpresentmask, submask, arrived>>
-----------------------------------------------------------------------------
(* The audio thread, between swaps: mixInChannel.                          *)

(* Voice chat: ds is exhausted or missing, the next chunk starts.          *)
LiveAdvance(ch) ==
  /\ "live" \in flags[ch] /\ ch \in chanpresentmask
  /\ hold_swaps[ch] = 0
  /\ q[ch][1] # None
  /\ q' = [q EXCEPT ![ch] = Shift(@, 1)]
  /\ UNCHANGED <<flags, chanpresentmask, submask, hold_swaps, rejoin_grid, toggling, arrived>>

(* Session mode: ds is whatever the session list has for the play          *)
(* position, or nothing.                                                   *)
SessionPlay(ch) ==
  /\ flags[ch] \intersect {"live", "session"} = {"session"} /\ ch \in chanpresentmask
  /\ hold_swaps[ch] = 0
  /\ \E e \in {x \in Entry : ~x.tagged /\ ~x.fresh} \union {None} :
       q' = [q EXCEPT ![ch][0] = e]
  /\ UNCHANGED <<flags, chanpresentmask, submask, hold_swaps, rejoin_grid, toggling, arrived>>
-----------------------------------------------------------------------------
(* The audio thread, at an interval boundary: on_new_interval, one         *)
(* m_users_cs section.  It works in three passes over the user's channels; *)
(* Q and H below are the queues and holds a pass leaves.                   *)

(* lateStartAgeMs: some interval channel is about to start a download      *)
(* younger than the guard, so none of the user's channels starts one.      *)
LateStart ==
  /\ LateGuard
  /\ \E ch \in Channels : /\ IsInterval(ch) /\ Listening(ch)
                          /\ hold_swaps[ch] = 0
                          /\ q[ch][1] # None /\ q[ch][1].fresh

(* Pass 1: a held channel waits one swap less, a late start keeps what     *)
(* waits, and any other queue advances.                                    *)
Waits(ch)    == OnSwap(ch) /\ hold_swaps[ch] > 0
Advances(ch) == OnSwap(ch) /\ ~Waits(ch) /\ ~(IsInterval(ch) /\ LateStart)
SwapQueueMutant(ch) ==             \* a late start keeps the finished interval
  IF Advances(ch) THEN Advance(q[ch], Listening(ch)) ELSE q[ch]
SwapQueue(ch) ==
  IF Advances(ch) THEN Advance(q[ch], Listening(ch))
  ELSE IF OnSwap(ch) /\ ~Waits(ch) THEN [q[ch] EXCEPT ![0] = None]
  ELSE q[ch]
SwapHoldMutant(ch)  == IF Waits(ch) THEN hold_swaps[ch] ELSE hold_swaps[ch]
SwapHold(ch) == IF Waits(ch) THEN hold_swaps[ch] - 1 ELSE hold_swaps[ch]
Joined == {ch \in Channels : /\ Advances(ch) /\ q[ch][0] = None
                             /\ SwapQueue(ch)[0] # None}

(* Pass 2, alignUserChannels: the channels it compares, all of one session.*)
Comparable(Q, H) ==
  {ch \in Channels : IsInterval(ch) /\ Listening(ch) /\ H[ch] = 0 /\ IsTagged(Q[ch][0])}

OneSession(Q, A) == \A c, d \in A : Q[c][0].sess = Q[d][0].sess

Earliest(Q, A) == CHOOSE t \in {Q[ch][0].iv : ch \in A} : \A ch \in A : t <= Q[ch][0].iv
Latest(Q, A)   == CHOOSE t \in {Q[ch][0].iv : ch \in A} : \A ch \in A : t >= Q[ch][0].iv

(* Skip forward when every channel behind has the latest interval waiting, *)
(* unless those that play it only start at this swap.                      *)
SkipsForwardMutant(Q, A, joined) ==     \* a joining channel moves the others
  \A ch \in A : \/ Q[ch][0].iv = Latest(Q, A)
                \/ \E i \in 1 .. 2 : HasTag(Q[ch][i], Latest(Q, A))
SkipsForward(Q, A, joined) ==
  LET hi == Latest(Q, A) IN
  /\ \E ch \in A : Q[ch][0].iv = hi /\ ch \notin joined
  /\ \A ch \in A : Q[ch][0].iv = hi \/ \E i \in 1 .. 2 : HasTag(Q[ch][i], hi)

Target(Q, A, joined) == IF SkipsForward(Q, A, joined) THEN Latest(Q, A) ELSE Earliest(Q, A)

(* A channel ahead of the target waits, if one more arrival fits.          *)
WaitsForMutant(slots, target)  == slots[0].iv > target /\ slots[1] = None
WaitsForMutant2(slots, target) == slots[0].iv >= target /\ slots[2] = None
WaitsFor(slots, target) == slots[0].iv > target /\ slots[2] = None

(* Pass 3, rejoinIntervalGrid, channel by channel: r and h are the values  *)
(* it leaves, so a channel sees those of the channels before it.  Which    *)
(* position the download times give is the nondeterministic choice behind. *)
Seen(ch, i, before, after) == IF i < ch THEN after[i] ELSE before[i]

Siblings(ch, r) == {i \in Channels \ {ch} : /\ IsInterval(i) /\ i \in chanpresentmask
                                            /\ Seen(ch, i, rejoin_grid, r) = 0}
SoundingSiblings(Q, H, ch, r, h) ==
  {i \in Siblings(ch, r) : Q[i][0] # None /\ Seen(ch, i, H, h) = 0}

Placed(Q, H, ch, r, h) ==
  \/ /\ rejoin_grid[ch] = 0 \/ (OnSwap(ch) /\ Q[ch][0] = None)
     /\ r[ch] = rejoin_grid[ch] /\ h[ch] = H[ch]
  \/ /\ rejoin_grid[ch] # 0 /\ (OnSwap(ch) => Q[ch][0] # None)
     /\ IF ~OnSwap(ch) \/ (AlignChannels /\ Q[ch][0].tagged)
                       \/ Siblings(ch, r) = {}
          THEN r[ch] = 0 /\ h[ch] = H[ch]
        ELSE IF SoundingSiblings(Q, H, ch, r, h) = {}
          THEN r[ch] = 2 /\ h[ch] = H[ch]
        ELSE /\ r[ch] = 0     \* holdIntervalChannel
             /\ IF Q[ch][1] # None \/ Q[ch][2] # None THEN h[ch] = 0 ELSE h[ch] \in 0 .. 1

Swap ==
  LET Q1     == [ch \in Channels |-> SwapQueue(ch)]
      H1     == [ch \in Channels |-> SwapHold(ch)]
      C      == IF AlignChannels THEN Comparable(Q1, H1) ELSE {}
      A      == IF OneSession(Q1, C) THEN C ELSE {}
      target == Target(Q1, A, Joined)
      Q2     == [ch \in Channels |-> IF ch \in A THEN SkipTo(Q1[ch], target) ELSE Q1[ch]]
      H2     == [ch \in Channels |-> IF ch \in A /\ WaitsFor(Q1[ch], target) THEN 1 ELSE H1[ch]]
  IN /\ UserExists
     /\ UNCHANGED <<flags, chanpresentmask, submask, toggling, arrived>>
     /\ q' = [ch \in Channels |-> AgeAll(Q2[ch])]
     /\ IF \A ch \in Channels : rejoin_grid[ch] = 0
          THEN hold_swaps' = H2 /\ UNCHANGED rejoin_grid
          ELSE /\ rejoin_grid' \in [Channels -> 0 .. 2]
               /\ \A ch \in Channels : rejoin_grid[ch] = 0 => rejoin_grid'[ch] = 0
               /\ hold_swaps' \in [Channels -> 0 .. 1]
               /\ \A ch \in Channels : Placed(q', H2, ch, rejoin_grid', hold_swaps')

(* Everything that may happen when the downloads that arrive are among      *)
(* these entries.                                                          *)
Steps(entries) ==
  \/ \E ch \in Channels : \/ \E e \in entries : Arrive(ch, e)
                          \/ ArriveSilence(ch)
                          \/ \E f \in Modes : ChannelActive(ch, f)
                          \/ ChannelInactive(ch)
                          \/ Toggle(ch)
                          \/ LiveAdvance(ch) \/ SessionPlay(ch)
  \/ FinishToggle
  \/ Swap

Next == Steps(Entry) /\ Record

Spec == Init /\ [][Next]_vars
-----------------------------------------------------------------------------
(* Properties.                                                             *)

(* What waits on an interval or voice chat channel is in recording order,  *)
(* leaves no hole, and none of it is later than what arrived last: flushes,*)
(* silence, overwrites, holds and skips never reorder a channel.           *)
QueueOrdered ==
  \A ch \in Channels : "session" \notin flags[ch] =>
    /\ NoGap(q[ch]) /\ Ordered(q[ch])
    /\ \A i \in SlotIdx : q[ch][i] # None =>
         arrived[ch] # None /\ NotLater(q[ch][i], arrived[ch])

(* A channel only waits while it has something to play, and only on the    *)
(* interval grid: a forgotten hold would mute it for an interval.          *)
HoldHasAudio ==
  \A ch \in Channels : hold_swaps[ch] > 0 => OnSwap(ch) /\ q[ch][0] # None

(* A swap never makes a channel sound an interval twice, nor one older     *)
(* than it has played, whatever was held, skipped, flushed or subscribed   *)
(* to again in between.                                                    *)
PlaysForward ==
  [][Swap => \A ch \in Channels : OnSwap(ch) /\ Sounding(ch)' /\ heard[ch] # None =>
               After(q'[ch][0], heard[ch])]_vars

(* After a swap a user's tagged channels play the same interval (and the   *)
(* others wait), unless the one ahead has no room to wait.                 *)
AlignedAtSwap ==
  [][Swap /\ AlignChannels =>
       LET A == Comparable(q', hold_swaps') IN
       OneSession(q', A) =>
         \A c, d \in A : q'[c][0].iv > q'[d][0].iv => q'[c][2] # None]_vars

(* Waiting for one another never mutes a user: when a channel has an       *)
(* interval to start and nobody starts late, some channel sounds.          *)
SwapNeverMutes ==
  [][Swap /\ ~LateStart /\ (\E ch \in Channels : SwapQueue(ch)[0] # None /\ Listening(ch)
                                                  /\ IsInterval(ch) /\ SwapHold(ch) = 0)
       => \E ch \in Channels : Sounding(ch)' /\ IsInterval(ch)]_vars

(* An interval that was next to play is thrown away at a swap only to      *)
(* catch up with a sibling that was already playing: a channel that just   *)
(* joins never costs the others audio.                                     *)
SkipFollowsSibling ==
  [][Swap => \A ch \in Channels :
       OnSwap(ch) /\ Listening(ch) /\ hold_swaps[ch] = 0 /\ ~LateStart /\ q[ch][1] # None
       => \/ q'[ch][0] = Aged(q[ch][1])
          \/ \E d \in Channels \ {ch} : /\ q[d][0] # None /\ q'[d][0] # None
                                        /\ q'[d][0].iv = q'[ch][0].iv]_vars
=============================================================================
