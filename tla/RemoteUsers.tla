---------------------------- MODULE RemoteUsers ----------------------------
(***************************************************************************)
(* The users of the session (njclient.cpp), and the calls of the app about *)
(* them, which name a user but reach it by its place in a list             *)
(* (NinjamClientBridge.cpp):                                               *)
(*   - Run adds and removes users and their channels as the server says;   *)
(*   - the adapter caches names and places until the cache is invalidated; *)
(*     the app looks a name up there and then calls with the place;        *)
(*   - the audio thread mixes by the masks of each user and by             *)
(*     m_issoloactive, which the local channels share; it fills the cache  *)
(*     too (peaks for the meters).                                         *)
(* Volumes, pans and subscriptions are left out; what a subscription does  *)
(* to the decoders of a channel is in IntervalQueue.                       *)
(***************************************************************************)
EXTENDS LocalChannels

CONSTANTS Users,         \* names
          UserChannels,  \* of each user
          MaxInfo,       \* bound: records of USERINFO messages
          MaxUserCalls   \* bound: calls about users

VARIABLES users,      \* m_remoteusers: name and masks
          cache,      \* usersCache, and whether it is valid; history: left since it was filled
          ui,         \* a call of the app between the lookup and NJClient
          infos, userCalls  \* history

tableVars == <<users, cache, ui, infos, userCalls>>
userVars  == <<localVars, tableVars>>

NoCall  == [step |-> "idle"]
NoCache == [valid |-> FALSE, names |-> <<>>, left |-> FALSE]

UsersInit ==
  /\ LocalInit
  /\ users = <<>> /\ cache = NoCache
  /\ ui = NoCall /\ infos = 0 /\ userCalls = 0

PlaceOf(list, name) == SelectInSeq(list, LAMBDA x : x.name = name)

(* Somebody's solo mask is not empty.                                      *)
AnySolo(list) == \E i \in DOMAIN list : list[i].solo # {}
RemoteBit(list) == (soloactive \ {"remote"}) \union (IF AnySolo(list) THEN {"remote"} ELSE {})
-----------------------------------------------------------------------------
(* Run: a record of a USERINFO message.                                    *)
NewUser(name) == [name |-> name, present |-> {}, muted |-> {}, solo |-> {}]

Info == /\ connected /\ infos < MaxInfo /\ infos' = infos + 1
        /\ UNCHANGED <<slots, locals, connected, updating, raced, localCalls, stranded, userCalls>>

AddedMutant(list, user) == <<user>> \o list
Added(list, user) == Append(list, user)

ChannelAppears(name, ch) ==
  /\ Info
  /\ LET list == IF PlaceOf(users, name) = 0 THEN Added(users, NewUser(name)) ELSE users
         i == PlaceOf(list, name)
     IN users' = [list EXCEPT ![i].present = @ \union {ch}]
  /\ UNCHANGED <<soloactive, cache, ui>>

ChecksSoloMutant(user, ch, leaves) == leaves
ChecksSolo(user, ch, leaves) == leaves \/ user.solo = {ch}

(* A user without channels is gone, and those after it move up.            *)
ChannelGoes(name, ch) ==
  LET i == PlaceOf(users, name)
      user == users[i]
      gone == [user EXCEPT !.present = @ \ {ch}, !.solo = @ \ {ch}]
      leaves == gone.present = {}
  IN /\ Info /\ i # 0
     /\ users' = IF leaves THEN RemoveAt(users, i) ELSE [users EXCEPT ![i] = gone]
     /\ soloactive' = IF ChecksSolo(user, ch, leaves) THEN RemoteBit(users') ELSE soloactive
     /\ cache' = [cache EXCEPT !.left = @ \/ leaves]
     /\ ui' = IF ui = NoCall THEN ui ELSE [ui EXCEPT !.left = @ \/ leaves]
-----------------------------------------------------------------------------
(* The cache.                                                              *)
Filled == IF cache.valid THEN cache
          ELSE [valid |-> TRUE, left |-> FALSE,
                names |-> IF connected THEN [i \in DOMAIN users |-> users[i].name] ELSE <<>>]

(* The meters, from the audio thread.                                      *)
GetPeaks ==
  /\ ~cache.valid /\ cache' = Filled
  /\ UNCHANGED <<localVars, users, ui, infos, userCalls>>

InvalidateCache ==
  /\ cache.valid /\ cache' = NoCache /\ ui = NoCall
  /\ UNCHANGED <<localVars, users, ui, infos, userCalls>>
-----------------------------------------------------------------------------
(* The app: one call at a time.                                            *)
Idle == ui = NoCall /\ updating = Quiet

(* NinjamClient_setUserChannelState: the place of a name, from the cache.  *)
Lookup(name, ch, what, on) ==
  /\ Idle /\ userCalls < MaxUserCalls /\ userCalls' = userCalls + 1
  /\ cache' = Filled
  /\ LET i == SelectInSeq(cache'.names, LAMBDA n : n = name) IN
     ui' = IF i = 0 \/ ~connected THEN NoCall
           ELSE [step |-> "call", name |-> name, at |-> i, ch |-> ch, what |-> what, on |-> on,
                 left |-> cache'.left]
  /\ UNCHANGED <<localVars, users, infos>>

(* NinjamClient_setRemoteChannelVolume: the place from NJClient's own list.*)
LookupFresh(name) ==
  /\ Idle /\ userCalls < MaxUserCalls /\ userCalls' = userCalls + 1
  /\ LET i == PlaceOf(users, name) IN
     ui' = IF i = 0 \/ ~connected THEN NoCall
           ELSE [step |-> "call", name |-> name, at |-> i, ch |-> 0, what |-> "volume", on |-> TRUE,
                 left |-> FALSE]
  /\ UNCHANGED <<localVars, users, cache, infos>>

Switched(mask, ch, on) == IF on THEN mask \union {ch} ELSE mask \ {ch}

(* A solo always sets the bit; without one the others are looked through.  *)
SetUserChannelState ==
  /\ ui.step = "call" /\ ui' = NoCall
  /\ IF ui.at \notin DOMAIN users \/ ui.ch \notin users[ui.at].present
       THEN UNCHANGED <<users, soloactive>>
       ELSE LET user == users[ui.at]
                now == CASE ui.what = "mute" -> [user EXCEPT !.muted = Switched(@, ui.ch, ui.on)]
                         [] ui.what = "solo" -> [user EXCEPT !.solo = Switched(@, ui.ch, ui.on)]
                         [] OTHER            -> user
            IN /\ users' = [users EXCEPT ![ui.at] = now]
               /\ soloactive' = IF ui.what = "solo" THEN RemoteBit(users') ELSE soloactive
  /\ UNCHANGED <<slots, locals, connected, updating, raced, localCalls, stranded, cache, infos, userCalls>>

(* The calls about local channels.                                         *)
LocalCall ==
  /\ ui = NoCall
  /\ \/ \E id \in Ids : SetLocalChannelInfo(id) \/ SetVideoChannel(id) \/ RemoveLocalChannel(id)
     \/ \E id \in Ids, mute, solo \in BOOLEAN : SetLocalChannelMonitoring(id, mute, solo)
     \/ UpdateSolo
  /\ UNCHANGED tableVars

(* NinjamClient_connect and _disconnect invalidate the cache; the meters   *)
(* may fill it again before the users are gone.                            *)
Leave(goal) ==
  /\ Idle /\ localCalls < MaxLocal
  /\ ui' = [step |-> goal, left |-> FALSE] /\ cache' = NoCache
  /\ UNCHANGED <<localVars, users, infos, userCalls>>

EndSession ==
  /\ \/ ui.step = "connect" /\ Connect
     \/ ui.step = "disconnect" /\ Disconnect
  /\ ui' = NoCall
  /\ users' = <<>>
  /\ cache' = [cache EXCEPT !.left = @ \/ users # <<>>]
  /\ UNCHANGED <<infos, userCalls>>

UsersNext ==
  \/ \E u \in Users, ch \in UserChannels : ChannelAppears(u, ch) \/ ChannelGoes(u, ch)
  \/ GetPeaks \/ InvalidateCache
  \/ \E u \in Users, ch \in UserChannels, what \in {"mute", "solo"}, on \in BOOLEAN :
       Lookup(u, ch, what, on)
  \/ \E u \in Users : LookupFresh(u)
  \/ SetUserChannelState
  \/ LocalCall \/ Leave("connect") \/ (connected /\ Leave("disconnect")) \/ EndSession

UsersSpec == UsersInit /\ [][UsersNext]_userVars
-----------------------------------------------------------------------------
(* A call that names a user acts on that user, whoever has come and gone,  *)
(* unless somebody left since the list was read: then the places have      *)
(* moved, and NJClient, which is given a place alone, cannot tell.         *)
CallReachesUser ==
  ui.step = "call" /\ ui.at \in DOMAIN users /\ ~ui.left => users[ui.at].name = ui.name

(* process_samples: who is mixed in.                                       *)
UserHeard(user, ch) == IF soloactive = {} THEN ch \notin user.muted ELSE ch \in user.solo
LocalHeard(c) == (soloactive = {} /\ ~c.muted) \/ c.solo

(* While anybody is soloed, here or there, exactly those are heard; with   *)
(* nobody soloed, all that are not muted: a solo that ends with its user,  *)
(* channel or connection silences nobody, and none is forgotten.  Excepted *)
(* is a lost update of m_issoloactive: m_locchan_cs protects it here and   *)
(* m_remotechannel_rd_mutex there.                                         *)
SoloIsHeard ==
  ~raced /\ updating = Quiet =>
    LET solo == AnySolo(users) \/ SomeSolo IN
    /\ \A i \in DOMAIN users : \A ch \in users[i].present :
         UserHeard(users[i], ch) <=> IF solo THEN ch \in users[i].solo ELSE ch \notin users[i].muted
    /\ \A i \in DOMAIN locals :
         LocalHeard(locals[i]) <=> IF solo THEN locals[i].solo ELSE ~locals[i].muted
=============================================================================
