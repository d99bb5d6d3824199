--------------------------- MODULE LocalChannels ---------------------------
(***************************************************************************)
(* The names of the local channels.  The app numbers its channels as it    *)
(* likes; the adapter gives each number a slot (njLocalIdx), the lowest    *)
(* that is free, and NJClient keeps a list of channels, each with its slot *)
(* as channel_idx, which a connection renumbers from 0 (_reinit).          *)
(*                                                                         *)
(* These calls come from one thread, that of the app.  What a channel      *)
(* sends is LocalUpload's; volume, gain, bitrate and source are values     *)
(* nothing here depends on.  m_issoloactive is shared with the remote      *)
(* users, which other locks protect: its updates are two steps here.       *)
(***************************************************************************)
EXTENDS Naturals, Functions, SequencesExt

CONSTANTS Ids,       \* numbers of the app
          MaxLocal   \* bound: calls about local channels

ASSUME LocalChannelsAssumption == Ids \subseteq Nat /\ MaxLocal \in Nat

VARIABLES slots,      \* localIdToNjIdx
          locals,     \* m_locchannels: channel_idx, muted, solo; history: whose it is
          connected,  \* to a server
          soloactive, \* m_issoloactive: bit 1 "remote", bit 2 "local"
          updating,   \* the app has read m_issoloactive and is about to write it
          raced,      \* history: an update of m_issoloactive was lost
          localCalls, \* history
          stranded    \* history: a connection has renumbered channels under the map or cleared
                      \* the map over them, or a slot was taken for an id

localVars == <<slots, locals, connected, soloactive, updating, raced, localCalls, stranded>>

Quiet == [on |-> FALSE, read |-> {}]

LocalInit ==
  /\ slots = <<>> /\ locals = <<>> /\ connected \in BOOLEAN
  /\ soloactive = {} /\ updating = Quiet /\ raced = FALSE
  /\ localCalls = 0 /\ stranded = FALSE

Call == updating = Quiet /\ localCalls < MaxLocal /\ localCalls' = localCalls + 1
-----------------------------------------------------------------------------
FreeSlotMutant(s) == CHOOSE n \in 0 .. Cardinality(DOMAIN s) : n = Cardinality(DOMAIN s)
FreeSlot(s) == CHOOSE n \in 0 .. Cardinality(DOMAIN s) :
                 /\ n \notin Range(s)
                 /\ \A k \in 0 .. n - 1 : k \in Range(s)

(* The map after njLocalIdx(id, true).                                     *)
With(id) == IF id \in DOMAIN slots THEN slots
            ELSE [i \in DOMAIN slots \union {id} |-> IF i = id THEN FreeSlot(slots) ELSE slots[i]]

(* The list with the channel of a slot, which is appended if it is missing.*)
Place(list, slot) == SelectInSeq(list, LAMBDA c : c.idx = slot)
NewLocal(id, slot) == [idx |-> slot, whose |-> id, muted |-> FALSE, solo |-> FALSE]
Having(id, slot) == IF Place(locals, slot) = 0 THEN Append(locals, NewLocal(id, slot)) ELSE locals

(* SetLocalChannelInfo and setLocalChannelBitrate.                         *)
SetLocalChannelInfo(id) ==
  /\ Call
  /\ slots' = With(id) /\ locals' = Having(id, slots'[id])
  /\ UNCHANGED <<connected, soloactive, updating, raced, stranded>>

(* setVideoChannel takes a slot alone.                                     *)
SetVideoChannel(id) ==
  /\ Call
  /\ slots' = With(id)
  /\ UNCHANGED <<locals, connected, soloactive, updating, raced, stranded>>

SetLocalChannelMonitoring(id, mute, solo) ==
  /\ Call
  /\ slots' = With(id)
  /\ LET list == Having(id, slots'[id])
         i == Place(list, slots'[id])
     IN locals' = [list EXCEPT ![i].muted = mute, ![i].solo = solo]
  /\ updating' = [on |-> TRUE, read |-> soloactive]
  /\ UNCHANGED <<connected, soloactive, raced, stranded>>

(* An id without a slot is taken for a slot; the channel it finds, if any, *)
(* goes.                                                                   *)
RemoveLocalChannel(id) ==
  /\ Call
  /\ LET slot == IF id \in DOMAIN slots THEN slots[id] ELSE id
         i == Place(locals, slot)
     IN /\ locals' = IF i = 0 THEN locals ELSE RemoveAt(locals, i)
        /\ updating' = IF i # 0 /\ locals[i].solo THEN [on |-> TRUE, read |-> soloactive] ELSE Quiet
        /\ stranded' = (stranded \/ (id \notin DOMAIN slots /\ i # 0))
  /\ slots' = Restrict(slots, DOMAIN slots \ {id})
  /\ UNCHANGED <<connected, soloactive, raced>>

(* m_issoloactive |= 2 or &= ~2, a read and a write.  When Run has written *)
(* it in between, either update may be lost.                               *)
SomeSolo == \E i \in DOMAIN locals : locals[i].solo
LocalBit(bits) == (bits \ {"local"}) \union (IF SomeSolo THEN {"local"} ELSE {})

UpdateSolo ==
  /\ updating.on /\ updating' = Quiet
  /\ soloactive' \in {LocalBit(soloactive), LocalBit(updating.read)}
                     \union (IF updating.read = soloactive THEN {} ELSE {soloactive})
  /\ raced' = (raced \/ soloactive' # LocalBit(soloactive))
  /\ UNCHANGED <<slots, locals, connected, localCalls, stranded>>
-----------------------------------------------------------------------------
(* _reinit, in Disconnect.                                                 *)
Renumbered == [i \in DOMAIN locals |-> [locals[i] EXCEPT !.idx = i - 1]]

Reinit ==
  /\ locals' = Renumbered
  /\ soloactive' = soloactive \ {"remote"}
  /\ UNCHANGED <<updating, raced>>

Disconnect ==
  /\ Call /\ connected /\ connected' = FALSE
  /\ Reinit /\ stranded' = (stranded \/ locals' # locals)
  /\ UNCHANGED slots

(* connect() clears the map, and Connect disconnects first.                *)
Connect ==
  /\ Call /\ connected' = TRUE
  /\ slots' = <<>>
  /\ Reinit /\ stranded' = (stranded \/ locals # <<>>)

LocalNext ==
  \/ \E id \in Ids : SetLocalChannelInfo(id) \/ SetVideoChannel(id) \/ RemoveLocalChannel(id)
  \/ \E id \in Ids, mute, solo \in BOOLEAN : SetLocalChannelMonitoring(id, mute, solo)
  \/ UpdateSolo \/ Disconnect \/ Connect

LocalSpec == LocalInit /\ [][LocalNext]_localVars
-----------------------------------------------------------------------------
(* Whatever channels come and go, a slot belongs to one id, and a channel  *)
(* is reached under the id it was made for and under no other: none is     *)
(* left behind.  An id that was never given out, taken for a slot, and a   *)
(* connection while there are channels are excepted: connect() clears the  *)
(* map and NJClient keeps its channels.                                    *)
IdsReachChannels ==
  ~stranded =>
    /\ \A i \in DOMAIN locals : locals[i].whose \in DOMAIN slots /\ locals[i].idx = slots[locals[i].whose]
    /\ IsInjective(slots)
=============================================================================
