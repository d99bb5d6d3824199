----------------------------- MODULE SessionList -----------------------------
(***************************************************************************)
(* The recordings of a session channel (RemoteUser_Channel::sessioninfo,   *)
(* njclient.cpp): the server announces that a recording covers a piece of  *)
(* the session's time, pieces overlap as the session is played again, and  *)
(* the mixer asks what to play at a time.  The list is kept sorted, without*)
(* overlaps, and without pieces shorter than MinLength.  Time is in steps. *)
(*                                                                         *)
(* What lies behind an announcement that ends inside the piece it begins in*)
(* stays in the list, but under the recording just announced (4659).       *)
(***************************************************************************)
EXTENDS Integers, Sequences

CONSTANTS MinLength,      \* min_length: a shorter piece is dropped
          MinAdded,       \* a shorter announcement is ignored
          MaxEntries,     \* max_entries
          Horizon,        \* bound: the session's time
          MaxAnnounced    \* bound: announcements, each of a recording of its own

ASSUME SessionListAssumption ==
  /\ {MinLength, MinAdded, MaxEntries, Horizon, MaxAnnounced} \subseteq Nat \ {0}
  /\ MinLength <= MinAdded

VARIABLES sessioninfo,   \* the list
          announced,     \* history: what the last announcement of a time said
          renamed,       \* history: the recording a split has put in its place, or 0
          recordings     \* how many have been announced

sessionVars == <<sessioninfo, announced, renamed, recordings>>

Nothing == [guid |-> 0, offset |-> 0]
Times   == 0 .. Horizon - 1
Stop(p) == p.start + p.length

SessionInit ==
  /\ sessioninfo = <<>> /\ recordings = 0
  /\ announced = [t \in Times |-> Nothing] /\ renamed = [t \in Times |-> 0]
-----------------------------------------------------------------------------
(* What a new piece leaves of another: the part before it, and the part    *)
(* behind it, which keeps its place in the recording but not always its    *)
(* guid.                                                                   *)
Before(p, st) == IF st - p.start < MinLength THEN <<>> ELSE <<[p EXCEPT !.length = st - p.start]>>
OffsetMutant(p, st) == p.offset
OffsetAt(p, st) == p.offset + (st - p.start)
Behind(p, st, guid) ==
  IF Stop(p) - st < MinLength THEN <<>>
  ELSE <<[guid |-> guid, start |-> st, length |-> Stop(p) - st, offset |-> OffsetAt(p, st)]>>

(* What it leaves of the ones after it: those it covers go.                *)
Covered(s, end) == {i \in DOMAIN s : s[i].start < end /\ Stop(s[i]) - end < MinLength}
Gone(s, end) ==
  CHOOSE n \in 0 .. Len(s) : 1 .. n \subseteq Covered(s, end) /\ n + 1 \notin Covered(s, end)
LeftOver(s, end) ==
  LET rest == SubSeq(s, Gone(s, end) + 1, Len(s))
  IN IF rest # <<>> /\ Head(rest).start < end
       THEN Behind(Head(rest), end, Head(rest).guid) \o Tail(rest)
       ELSE rest

(* AddSessionInfo.  It goes behind the pieces that begin by then.          *)
PlaceOf(list, st) ==
  CHOOSE n \in 0 .. Len(list) :
    (\A i \in 1 .. n : list[i].start <= st) /\ (n < Len(list) => st < list[n + 1].start)
Add(list, guid, st, len) ==
  LET x     == PlaceOf(list, st)
      first == SubSeq(list, 1, x - 1)
      prev  == list[x]
      after == SubSeq(list, x + 1, Len(list))
      inside == x > 0 /\ st < Stop(prev)                    \* it begins in prev
      within == inside /\ st + len <= Stop(prev) - MinLength \* and ends there
      before == IF x = 0 THEN <<>> ELSE IF inside THEN first \o Before(prev, st) ELSE first \o <<prev>>
      behind == IF within THEN Behind(prev, st + len, guid) \o after   \* the new guid
                ELSE LeftOver(after, st + len)
      new    == <<[guid |-> guid, start |-> st, length |-> len, offset |-> 0]>>
  IN IF Len(before) + Len(behind) >= MaxEntries THEN before \o behind
     ELSE before \o new \o behind

(* The times behind [st, end) in a piece that it splits.                   *)
SplitOff(st, end) ==
  {t \in Times : \E i \in DOMAIN sessioninfo :
     /\ sessioninfo[i].start <= st /\ end + MinLength <= Stop(sessioninfo[i])
     /\ end <= t /\ t < Stop(sessioninfo[i])}

(* The announcement of the next recording.  One that finds the list full   *)
(* has made room, but is not in it.                                        *)
Announce ==
  \E st \in Times, len \in 1 .. Horizon :
    LET guid == recordings + 1
        span == st .. st + len - 1
        list == Add(sessioninfo, guid, st, len)
        in   == \E i \in DOMAIN list : list[i].guid = guid /\ list[i].start = st
    IN /\ recordings < MaxAnnounced /\ recordings' = guid
       /\ st + len <= Horizon
       /\ IF len < MinAdded THEN UNCHANGED <<sessioninfo, announced, renamed>>
          ELSE /\ sessioninfo' = list
               /\ announced' = [t \in Times |->
                     IF t \notin span THEN announced[t]
                     ELSE IF in THEN [guid |-> guid, offset |-> t - st] ELSE Nothing]
               /\ renamed' = [t \in Times |->
                     IF t \in span THEN 0
                     ELSE IF t \in SplitOff(st, st + len) THEN guid ELSE renamed[t]]

(* The channel goes, or leaves session mode (ClearSessionInfo).            *)
ClearSessionInfo ==
  /\ sessioninfo' = <<>> /\ UNCHANGED recordings
  /\ announced' = [t \in Times |-> Nothing] /\ renamed' = [t \in Times |-> 0]

(* GetSessionInfo: what to play at t, and from where.                      *)
GetSessionInfo(t) ==
  LET at == {i \in DOMAIN sessioninfo : sessioninfo[i].start <= t /\ t < Stop(sessioninfo[i])}
  IN IF at = {} THEN Nothing
     ELSE LET p == sessioninfo[CHOOSE i \in at : TRUE]
          IN [guid |-> p.guid, offset |-> OffsetAt(p, t)]

SessionNext == Announce \/ ClearSessionInfo

SessionSpec == SessionInit /\ [][SessionNext]_sessionVars
-----------------------------------------------------------------------------
(* Properties.                                                             *)

(* The types: the list is sorted, without overlaps and slivers.            *)
SessionTypeOK ==
  /\ \A i \in DOMAIN sessioninfo : sessioninfo[i].length >= MinLength
  /\ \A i \in 1 .. Len(sessioninfo) - 1 : Stop(sessioninfo[i]) <= sessioninfo[i + 1].start

(* At every time the list has what the last announcement of that time said,*)
(* from the right place of the recording, whatever was cut, split and      *)
(* covered in between, or nothing where what is left of an announcement is *)
(* shorter than the shortest piece.  Behind an announcement that has split *)
(* a piece it is the right place, but of the recording that split it, until*)
(* the time is announced again; nowhere else does a recording stand where  *)
(* it was not announced (AddSessionInfo, GetSessionInfo).                  *)
Sliver(t) ==
  \A a \in 0 .. t, b \in t .. Horizon - 1 :
    (\A u \in a .. b : announced[u].guid = announced[t].guid) => b - a + 1 < MinLength
Promised(t) ==
  IF renamed[t] = 0 THEN announced[t] ELSE [announced[t] EXCEPT !.guid = renamed[t]]
PlaysTheLatest ==
  \A t \in Times :
    GetSessionInfo(t) = Promised(t) \/ (GetSessionInfo(t) = Nothing /\ Sliver(t))
=============================================================================
