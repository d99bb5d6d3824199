------------------------------ MODULE Downloads ------------------------------
(***************************************************************************)
(* Audio on its way in: NJClient's m_downloads (njclient.cpp), from the    *)
(* messages that carry an interval to the decoder queued in its channel,   *)
(* and the buffer the two share.  The network thread writes the buffer and *)
(* lets go of it at the end of the download; the decoder's reference goes  *)
(* with the decoder, on whichever thread deletes that.  The count is a     *)
(* plain int: a release reads it in one step and writes it in another.     *)
(*                                                                         *)
(* The channels are those of one user.  Which queued interval plays at a   *)
(* swap is told by module IntervalQueue; here it is any choice.            *)
(***************************************************************************)
EXTENDS Integers

CONSTANTS Channels,
          Live,         \* those of voice chat
          playtime,     \* of each channel: bytes before it plays, 0 for all of them
          Timeout,      \* DOWNLOAD_TIMEOUT
          MaxDownloads, \* bound: downloads in a run
          MaxSize       \* bound: bytes of one

NoChannel == 0

ASSUME DownloadsAssumption ==
  /\ Live \subseteq Channels /\ NoChannel \notin Channels
  /\ playtime \in [Channels -> Nat]
  /\ {Timeout, MaxDownloads, MaxSize} \subseteq Nat \ {0}

Ids     == 1 .. MaxDownloads
Threads == {"network", "audio"}

(* Who may hold the buffer of a download: the download and a decoder.      *)
References == Ids \X {"download", "decoder"}
Downloading(ids) == ids \X {"download"}
Decoding(ids)    == (ids \ {0}) \X {"decoder"}

VARIABLES
  downloads,   \* m_downloads, by id, the order in which they were begun: chidx
               \* (NoChannel once it plays), bytes, seconds since last_time
  present,     \* the user is known
  session,     \* channels with the session flag
  slots,       \* of each channel, ids of the decoders in ds, next_ds[0] and next_ds[1]; or 0
  refcnt,      \* of the buffer of each download
  freed,       \* how many times it has been deleted
  releases,    \* references each thread is about to release
  counted,     \* the one it is releasing, and the count it has read
  begun,       \* downloads so far
  coming,      \* those whose END has not come and may still come
  pause,       \* how long each has been silent; once over Timeout it stays there
  fate         \* "coming"; "started" by startPlaying; "lost": the END came, and it was not

downloadVars == <<downloads, present, session, slots, refcnt, freed,
                  releases, counted, begun, coming, pause, fate>>

Empty   == [i \in 0 .. 2 |-> 0]
NoCount == [ref |-> <<0, "decoder">>, count |-> -1]

DownloadsInit ==
  /\ downloads = [id \in {} |-> 0] /\ present = TRUE /\ session = {}
  /\ slots = [ch \in Channels |-> Empty]
  /\ refcnt = [id \in Ids |-> 0] /\ freed = [id \in Ids |-> 0]
  /\ releases = [t \in Threads |-> {}] /\ counted = [t \in Threads |-> NoCount]
  /\ begun = 0 /\ coming = {}
  /\ pause = [id \in Ids |-> 0] /\ fate = [id \in Ids |-> "coming"]

Idle(t) == releases[t] = {}
-----------------------------------------------------------------------------
(* DOWNLOAD_INTERVAL_BEGIN of audio.                                       *)
Begin(ch) ==
  /\ Idle("network") /\ present /\ begun < MaxDownloads
  /\ begun' = begun + 1
  /\ downloads' = [id \in DOMAIN downloads \union {begun + 1} |->
                    IF id = begun + 1 THEN [chidx |-> ch, size |-> 0, ago |-> 0] ELSE downloads[id]]
  /\ refcnt' = [refcnt EXCEPT ![begun + 1] = 1]
  /\ coming' = coming \union {begun + 1}
  /\ UNCHANGED <<present, session, slots, freed, releases, counted, pause, fate>>

(* useidx: where the next decoder goes, in place of what is there.         *)
UseIdx(ch) == IF slots[ch][1] = 0 THEN 1 ELSE 2

(* BEGIN with the zero GUID: silence takes the place a decoder would take. *)
BeginSilence(ch) ==
  /\ Idle("network") /\ present /\ ch \notin session \union Live /\ slots[ch][UseIdx(ch)] # 0
  /\ slots' = [slots EXCEPT ![ch][UseIdx(ch)] = 0]
  /\ releases' = [releases EXCEPT !["network"] = Decoding({slots[ch][UseIdx(ch)]})]
  /\ UNCHANGED <<downloads, present, session, refcnt, freed, counted,
                 begun, coming, pause, fate>>

(* startPlaying() of download d, forced or with enough bytes.              *)
Starts(d, last) == d.chidx # NoChannel /\ (last \/ (playtime[d.chidx] # 0 /\ d.size > playtime[d.chidx]))
HasPlace(d)     == present /\ d.chidx \notin session

(* start_decode(): the decoder's reference.                                *)
AddRefMutant(id) == refcnt
AddRef(id) == [refcnt EXCEPT ![id] = @ + 1]

(* n bytes come; the mutant keeps the time of the BEGIN.                   *)
RefreshedMutant(d, n) == [d EXCEPT !.size = @ + n]
Refreshed(d, n) == [d EXCEPT !.ago = 0, !.size = @ + n]

(* DOWNLOAD_INTERVAL_WRITE: n more bytes of id, or its end.  The list is   *)
(* walked up to its download; the silent ones before it are dropped.       *)
Write(id, n, last) ==
  LET known == id \in DOMAIN downloads
      stale == {j \in DOMAIN downloads : (known => j < id) /\ downloads[j].ago > Timeout}
      old   == IF known THEN Refreshed(downloads[id], n) ELSE [chidx |-> NoChannel, size |-> 0, ago |-> 0]
      new   == IF Starts(old, last) THEN [old EXCEPT !.chidx = NoChannel] ELSE old
      plays == Starts(old, last) /\ HasPlace(old)
      ended == IF last THEN {id} ELSE {}
      kept  == DOMAIN downloads \ (stale \union ended)
  IN /\ Idle("network") /\ id \in coming
     /\ n + old.size <= MaxSize \/ ~known
     /\ downloads' = [j \in kept |-> IF j = id THEN new ELSE downloads[j]]
     /\ releases' = [releases EXCEPT !["network"] =
          Downloading(stale \union (ended \intersect DOMAIN downloads))
          \union (IF plays THEN Decoding({slots[old.chidx][UseIdx(old.chidx)]}) ELSE {})]
     /\ IF plays
          THEN /\ slots' = [slots EXCEPT ![old.chidx][UseIdx(old.chidx)] = id]
               /\ refcnt' = AddRef(id)
          ELSE UNCHANGED <<slots, refcnt>>
     /\ coming' = coming \ ended
     /\ fate' = [fate EXCEPT ![id] =
          IF @ # "coming" THEN @ ELSE IF Starts(old, last) THEN "started"
          ELSE IF last THEN "lost" ELSE @]
     /\ pause' = [pause EXCEPT ![id] = IF fate'[id] = "started" \/ @ <= Timeout THEN 0 ELSE @]
     /\ UNCHANGED <<present, session, freed, counted, begun>>

(* A second passes.                                                        *)
Clock ==
  /\ DOMAIN downloads # {}
  /\ downloads' = [id \in DOMAIN downloads |->
                    [downloads[id] EXCEPT !.ago = IF @ > Timeout THEN @ ELSE @ + 1]]
  /\ pause' = [id \in Ids |->
                IF id \in coming /\ fate[id] = "coming" /\ pause[id] <= Timeout
                  THEN pause[id] + 1 ELSE pause[id]]
  /\ UNCHANGED <<present, session, slots, refcnt, freed, releases, counted,
                 begun, coming, fate>>
-----------------------------------------------------------------------------
(* What is queued and playing in the channels of a set is deleted.         *)
Decoders(chans) == Decoding({slots[ch][i] : ch \in chans, i \in 0 .. 2})
Emptied(chans)  == slots' = [ch \in Channels |-> IF ch \in chans THEN Empty ELSE slots[ch]]

(* USERINFO: the user leaves or comes back; a channel goes, or changes its *)
(* kind, which flushes it.  The downloads stay.                            *)
UserInfo ==
  /\ Idle("network")
  /\ \/ /\ present /\ present' = FALSE /\ UNCHANGED session
        /\ Emptied(Channels)
        /\ releases' = [releases EXCEPT !["network"] = Decoders(Channels)]
     \/ /\ ~present /\ present' = TRUE /\ session' = {}
        /\ UNCHANGED <<slots, releases>>
     \/ \E ch \in Channels :
          /\ present /\ UNCHANGED present
          /\ session' \in {session, session \union {ch}, session \ {ch}}
          /\ Emptied({ch})
          /\ releases' = [releases EXCEPT !["network"] = Decoders({ch})]
  /\ UNCHANGED <<downloads, refcnt, freed, counted, begun, coming, pause, fate>>

(* Disconnect(), which keeps Run out: the users go first, so no download   *)
(* finds a place to play, and then the downloads.                          *)
Disconnect ==
  /\ Idle("network") /\ (present \/ DOMAIN downloads # {})
  /\ present' = FALSE /\ Emptied(Channels) /\ downloads' = [id \in {} |-> 0] /\ coming' = {}
  /\ releases' = [releases EXCEPT !["network"] =
                   Decoders(Channels) \union Downloading(DOMAIN downloads)]
  /\ UNCHANGED <<session, refcnt, freed, counted, begun, pause, fate>>

(* on_new_interval, of a channel: what played is deleted, and the queue    *)
(* goes on by any number of places: the last to leave it plays, or nothing.*)
Swap(ch) ==
  /\ Idle("audio") /\ slots[ch] # Empty
  /\ \E steps \in 0 .. 2 : \E first \in IF steps = 0 THEN {0} ELSE {0, slots[ch][steps]} :
       /\ slots' = [slots EXCEPT ![ch] =
                     [i \in 0 .. 2 |-> IF i = 0 THEN first
                                       ELSE IF i + steps <= 2 THEN slots[ch][i + steps] ELSE 0]]
       /\ releases' = [releases EXCEPT !["audio"] =
                        Decoding({slots[ch][i] : i \in 0 .. steps} \ {first})]
  /\ UNCHANGED <<downloads, present, session, refcnt, freed, counted, begun, coming, pause, fate>>

(* DecodeMediaBuffer::Release.  What a thread has to let go of it releases *)
(* one by one.                                                             *)
ReadCount(t) ==
  /\ counted[t] = NoCount
  /\ \E ref \in releases[t] :
       counted' = [counted EXCEPT ![t] = [ref |-> ref, count |-> refcnt[ref[1]]]]
  /\ UNCHANGED <<downloads, present, session, slots, refcnt, freed, releases,
                 begun, coming, pause, fate>>
WriteCount(t) ==
  LET id == counted[t].ref[1]
  IN /\ counted[t] # NoCount
     /\ refcnt' = [refcnt EXCEPT ![id] = counted[t].count - 1]
     /\ freed' = [freed EXCEPT ![id] = IF counted[t].count = 1 THEN @ + 1 ELSE @]
     /\ releases' = [releases EXCEPT ![t] = @ \ {counted[t].ref}]
     /\ counted' = [counted EXCEPT ![t] = NoCount]
     /\ UNCHANGED <<downloads, present, session, slots, begun, coming, pause, fate>>
-----------------------------------------------------------------------------
DownloadsNext ==
  \/ \E ch \in Channels : Begin(ch) \/ BeginSilence(ch) \/ Swap(ch)
  \/ \E id \in Ids, n \in 0 .. MaxSize, last \in BOOLEAN : n + (IF last THEN 1 ELSE 0) > 0 /\ Write(id, n, last)
  \/ Clock \/ UserInfo \/ Disconnect
  \/ \E t \in Threads : ReadCount(t) \/ WriteCount(t)

DownloadsSpec == DownloadsInit /\ [][DownloadsNext]_downloadVars
-----------------------------------------------------------------------------
(* Properties.                                                             *)

(* Whoever has a buffer, the download, a decoder queued or playing, or a   *)
(* thread about to release it, has one that is not deleted: although two   *)
(* releases may read the same count, which loses the buffer and no more.   *)
Holds(id) ==
  \/ id \in DOMAIN downloads
  \/ \E ch \in Channels, i \in 0 .. 2 : slots[ch][i] = id
  \/ \E t \in Threads : \E ref \in releases[t] : ref[1] = id
BufferOutlives == \A id \in Ids : freed[id] <= 1 /\ (freed[id] = 1 => ~Holds(id))

(* An interval whose END comes has started to play, if there is anybody to *)
(* play it, unless it had been silent for longer than the timeout: other   *)
(* downloads that go on meanwhile do not make it lost.                     *)
PlaysUnlessSilent == \A id \in Ids : fate[id] = "lost" => pause[id] > Timeout

(* What a download promises the decoder: both.                             *)
DownloadServes == BufferOutlives /\ PlaysUnlessSilent
=============================================================================
