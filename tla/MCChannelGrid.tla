---------------------------- MODULE MCChannelGrid ----------------------------
(***************************************************************************)
(* Instances of IntervalQueue for TLC.  A behaviour is one of three scenes:*)
(* "grid", where the channels of a sender that plays go by the rules of    *)
(* ChannelGrid; "lines", where two interval-mode channels of a sender that *)
(* tags its intervals deliver a few of them whenever they like, join,      *)
(* leave, mute, and are subscribed to; and "modes", where the sender tags  *)
(* none, and the two may be voice chat, session and video channels too.    *)
(***************************************************************************)
EXTENDS ChannelGrid, QueueImplementsLine

CONSTANTS LinesChannels,   \* bound: the channels of the scenes "lines" and "modes"
          LinesIntervals   \* bound: and their intervals

AllModes == {{}, {"live"}, {"session"}, {"video"}}

VARIABLE scene

ScenesInit ==
  \/ scene = "grid" /\ GridInit
  \/ /\ scene \in {"lines", "modes"} /\ Init
     /\ lag = [ch \in Channels |-> 0] /\ due = lag
     /\ window = 0 /\ stalls = 0 /\ calm = 0

Few(entries, moded) ==
  /\ Steps(entries)
  /\ chanpresentmask' \subseteq LinesChannels
  /\ \A ch \in Channels \ moded : flags'[ch] = {}
  /\ \A ch \in Channels \ LinesChannels : arrived'[ch] = None
  /\ \A ch \in moded : q'[ch][0] # None => q'[ch][0].iv \in LinesIntervals
  /\ Record
  /\ UNCHANGED <<lag, due, window, stalls, calm>>

LinesEntries == {e \in Entry : e.tagged /\ e.iv \in LinesIntervals}
ModesEntries == {e \in Entry : ~e.tagged /\ ~e.fresh /\ e.iv = 1}

LinesNext == Few(LinesEntries, {})
ModesNext == Few(ModesEntries, {0})

ScenesNext ==
  /\ \/ scene = "grid" /\ GridNext
     \/ scene = "lines" /\ LinesNext
     \/ scene = "modes" /\ ModesNext
  /\ UNCHANGED scene

ScenesSpec == ScenesInit /\ [][ScenesNext]_<<gridVars, scene>>

(* Over the queues, holds and skips the listener of a sender that plays    *)
(* hears lock step: what CHANNEL_ALIGNMENT.md promises.                    *)
Playout == INSTANCE LockStep WITH
             sounding <- IF scene = "grid" THEN SoundingChannels ELSE {},
             latest <- [ch \in Channels |-> IF scene = "grid" THEN HeardInterval(ch) ELSE 0]
PlaysInLockStep == Playout!Spec
=============================================================================
