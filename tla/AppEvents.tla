------------------------------ MODULE AppEvents ------------------------------
(***************************************************************************)
(* What the library tells the app (the callbacks of NinjamClientBridge.cpp *)
(* and NinjamClientAdapter, and their Android side in NinjamClientJNI.cpp).*)
(* The app registers an object; the library keeps a weak reference to it in*)
(* g_callbackCtx and calls it through C functions:                         *)
(*   - from the app's own thread, inside connect(), process(), disconnect()*)
(*     and nativeDestroy(): connected, disconnected and the tempo;         *)
(*   - from the connection thread, inside Run(): the chat, the licence, raw*)
(*     data.                                                               *)
(* The app calls one function at a time.  What the threads do with each    *)
(* other's locks is in Connection.                                         *)
(***************************************************************************)
EXTENDS Naturals

CONSTANTS Tempi,         \* the tempos (bpm and bpi) that a room may have
          DefaultTempo,  \* what getBPM and getBPI say without a connection,
                         \* and what NJClient begins with
          MaxTargets     \* bound: objects the app registers

ASSUME EventsAssumption == MaxTargets \in Nat /\ DefaultTempo \in Tempi /\ Tempi \subseteq Nat \ {0}

NoTempo == 0
Targets == 1 .. MaxTargets
NoTarget == 0

VARIABLES target,     \* g_callbackCtx.callbackRef
          refs,       \* weak references that exist: one for each object
          collected,  \* objects that Kotlin has let go of
          targets,    \* objects registered so far
          lib,        \* the client: see NewLib
          call,       \* the call the app's thread is in, and what follows it
          core,       \* the connection thread, and the reference it has read
          heard       \* what the object registered last was told

eventVars == <<target, refs, collected, targets, lib, call, core, heard>>

(* wired: the C callbacks are set; up and inner: the `connected' of the    *)
(* adapter and of the NinjamClient; lost: GetStatus() < 0; reported: the   *)
(* adapter's lastReportedBPM and lastReportedBPI.                          *)
NoLib  == [alive |-> FALSE, wired |-> FALSE, up |-> FALSE, inner |-> FALSE, lost |-> FALSE,
           stop |-> TRUE, tempo |-> DefaultTempo, reported |-> NoTempo]
NewLib == [NoLib EXCEPT !.alive = TRUE]
CoreOff == [at |-> "off", ref |-> NoTarget]

(* late: an object before this one was there to be told of a tempo.        *)
Unheard(late) == [up |-> "unknown", tempo |-> NoTempo, late |-> late]

EventsInit ==
  /\ target = NoTarget /\ refs = {} /\ collected = {} /\ targets = 0
  /\ lib = NoLib /\ call = [at |-> "none", then |-> "none"] /\ core = CoreOff
  /\ heard = Unheard(FALSE)
-----------------------------------------------------------------------------
(* A trampoline: it goes by the weak reference, and does nothing without   *)
(* one or when the object is gone (jni_onConnected and its like, behind the*)
(* lambdas of the bridge).                                                 *)
Forwards == lib.wired
Hears == Forwards /\ target # NoTarget /\ target \notin collected
Told(h, field, value) == IF Hears THEN [h EXCEPT ![field] = value] ELSE h

Idle == call.at = "none"
Enter(at, then) == call' = [at |-> at, then |-> then]
Leave == Enter("none", "none")
registry == <<target, refs, collected, targets>>

(* nativeCreate.                                                           *)
Create ==
  /\ Idle /\ ~lib.alive /\ lib' = NewLib
  /\ UNCHANGED <<registry, call, core, heard>>

(* nativeSetCallbackTarget deletes the old reference, and then stores the  *)
(* new one and sets the callbacks, or returns without an object.  The app  *)
(* registers when no connection thread runs.                               *)
DeleteOldRef ==
  /\ Idle /\ lib.alive /\ core.at = "off"
  /\ refs' = refs \ {target} /\ Enter("register", "none")
  /\ UNCHANGED <<target, collected, targets, lib, core, heard>>

SetCallbacks == [lib EXCEPT !.wired = TRUE]

StoreTarget ==
  /\ call.at = "register" /\ Leave
  /\ \/ target' = NoTarget /\ UNCHANGED <<refs, targets, lib, heard>>
     \/ /\ targets < MaxTargets /\ targets' = targets + 1
        /\ target' = targets' /\ refs' = refs \union {targets'}
        /\ lib' = SetCallbacks
        /\ heard' = Unheard(lib.wired /\ lib.reported # NoTempo)
  /\ UNCHANGED <<collected, core>>

Collect(o) ==
  /\ o \in 1 .. targets \ collected /\ collected' = collected \union {o}
  /\ UNCHANGED <<target, refs, targets, lib, call, core, heard>>
-----------------------------------------------------------------------------
(* connect(), which disconnects first when it is connected.                *)
Connect ==
  /\ Idle /\ lib.alive
  /\ \/ lib.up /\ Enter("stop", "connect")
     \/ ~lib.up /\ core.at = "off" /\ Enter("connect", "none")
  /\ UNCHANGED <<registry, lib, core, heard>>

(* NinjamClient::connect succeeds when the server lets us in, and also when*)
(* NinjamClient::connected is left from a connection that was lost.  The   *)
(* room's tempo may not have come yet.                                     *)
Connected ==
  /\ call.at = "connect" /\ Enter("tell", "none")
  /\ \E ok \in BOOLEAN, t \in Tempi :
       /\ ok \/ (lib.inner /\ t = DefaultTempo)
       /\ lib' = [lib EXCEPT !.up = TRUE, !.inner = TRUE, !.stop = FALSE, !.lost = ~ok, !.tempo = t]
  /\ core' = [CoreOff EXCEPT !.at = "idle"]
  /\ UNCHANGED <<registry, heard>>

(* The licence was not accepted (222), or there is no connection (223).    *)
NotConnected ==
  /\ call.at = "connect" /\ ~lib.inner /\ Leave
  /\ lib' = [lib EXCEPT !.lost = TRUE] /\ heard' = Told(heard, "up", "no")
  /\ UNCHANGED <<registry, core>>

(* getBPM and getBPI, and what connect() and process() report of them.     *)
Tempo(l) == IF l.up THEN l.tempo ELSE DefaultTempo
ReportsMutant(l) ==                 \* remembers what it had nobody to tell
  [now |-> l.wired /\ Tempo(l) # l.reported, reported |-> Tempo(l)]
Reports(l) ==
  LET now == l.wired /\ Tempo(l) # l.reported
  IN [now |-> now, reported |-> IF now THEN Tempo(l) ELSE l.reported]

TellConnected ==
  /\ call.at = "tell" /\ Leave
  /\ LET says == Reports(lib)
         h == IF says.now THEN Told(heard, "tempo", Tempo(lib)) ELSE heard
     IN lib' = [lib EXCEPT !.reported = says.reported] /\ heard' = Told(h, "up", "yes")
  /\ UNCHANGED <<registry, core>>

(* process(), with the tempo looked at once a second.  A lost connection is*)
(* reported, and is no longer one, when there is somebody to tell.         *)
Process ==
  /\ Idle /\ lib.alive /\ lib.up
  /\ \E second \in BOOLEAN :
       LET drops == lib.lost /\ lib.wired
           l     == [lib EXCEPT !.up = ~drops]
           says  == Reports(l)
           h     == IF drops THEN Told(heard, "up", "no") ELSE heard
       IN IF second
          THEN /\ lib' = [l EXCEPT !.reported = says.reported]
               /\ heard' = IF says.now THEN Told(h, "tempo", Tempo(l)) ELSE h
          ELSE lib' = l /\ heard' = h
  /\ UNCHANGED <<registry, call, core>>
-----------------------------------------------------------------------------
(* disconnect(): the connection thread is told to stop and waited for.     *)
Disconnect ==
  /\ Idle /\ lib.alive /\ lib.up /\ Enter("stop", "none")
  /\ UNCHANGED <<registry, lib, core, heard>>

(* nativeDestroy: the adapter's destructor disconnects, the NinjamClient's *)
(* stops a thread that is left; then the client is freed, and the reference*)
(* deleted last.                                                           *)
DestroyMutant ==                    \* the reference first
  /\ Idle /\ lib.alive /\ Enter("stop", "free") /\ refs' = refs \ {target}
  /\ UNCHANGED <<target, collected, targets, lib, core, heard>>
Destroy ==
  /\ Idle /\ lib.alive /\ Enter("stop", "free")
  /\ UNCHANGED <<registry, lib, core, heard>>

StopCore ==
  /\ call.at = "stop" /\ Enter("join", call.then)
  /\ lib' = [lib EXCEPT !.stop = TRUE]
  /\ UNCHANGED <<registry, core, heard>>

JoinCore ==
  /\ call.at = "join" /\ core.at = "off" /\ Enter(call.then, "none")
  /\ lib' = [lib EXCEPT !.up = FALSE, !.inner = FALSE, !.tempo = DefaultTempo]
  /\ heard' = IF lib.up THEN Told(heard, "up", "no") ELSE heard
  /\ UNCHANGED <<registry, core>>

FreeClient ==
  /\ call.at = "free" /\ Enter("unref", "none") /\ lib' = NoLib
  /\ UNCHANGED <<registry, core, heard>>

DeleteRef ==
  /\ call.at = "unref" /\ Leave
  /\ refs' = refs \ {target} /\ target' = NoTarget
  /\ UNCHANGED <<collected, targets, lib, core, heard>>
-----------------------------------------------------------------------------
(* The connection thread.  Something to tell: the reference is read, and   *)
(* used after that.  The adapter passes on messages, who comes and goes and*)
(* the topic, and no other chat.                                           *)
Chat   == {"MSG", "PRIVMSG", "JOIN", "PART", "TOPIC"}
Raw    == {"raw data"}
Asks   == {"license"}
Events == Chat \union Raw \union Asks \union {"USERCOUNT", "SESSION"}
Passes(event) == event \in Chat \union Raw \union Asks

CoreEvent ==
  /\ core.at = "idle" /\ ~lib.lost /\ Forwards /\ target # NoTarget
  /\ \E event \in Events : Passes(event) /\ core' = [at |-> "calls", ref |-> target]
  /\ UNCHANGED <<registry, lib, call, heard>>

CoreReturns ==
  /\ core.at = "calls" /\ core' = [CoreOff EXCEPT !.at = "idle"]
  /\ UNCHANGED <<registry, lib, call, heard>>

(* The room's tempo changes, or the connection is lost.                    *)
CoreRuns ==
  /\ core.at = "idle" /\ ~lib.lost
  /\ \/ \E t \in Tempi : lib' = [lib EXCEPT !.tempo = t]
     \/ lib' = [lib EXCEPT !.lost = TRUE]
  /\ UNCHANGED <<registry, call, core, heard>>

CoreEnds ==
  /\ core.at = "idle" /\ (lib.stop \/ lib.lost) /\ core' = CoreOff
  /\ UNCHANGED <<registry, lib, call, heard>>
-----------------------------------------------------------------------------
EventsNext ==
  \/ Create \/ DeleteOldRef \/ StoreTarget \/ (\E o \in Targets : Collect(o))
  \/ Connect \/ Connected \/ NotConnected \/ TellConnected \/ Process
  \/ Disconnect \/ Destroy \/ StopCore \/ JoinCore \/ FreeClient \/ DeleteRef
  \/ CoreEvent \/ CoreReturns \/ CoreRuns \/ CoreEnds

EventsSpec == EventsInit /\ [][EventsNext]_eventVars
-----------------------------------------------------------------------------
EventsTypeOK ==
  /\ target \in Targets \union {NoTarget} /\ targets \in 0 .. MaxTargets
  /\ refs \subseteq 1 .. targets /\ collected \subseteq 1 .. targets
  /\ lib.tempo \in Tempi /\ lib.reported \in Tempi \union {NoTempo}
  /\ call.at \in {"none", "register", "connect", "tell", "stop", "join", "free", "unref"}
  /\ core.at \in {"off", "idle", "calls"}
  /\ heard.up \in {"unknown", "yes", "no"}

(* Whatever the app does to the client while the connection thread has     *)
(* something to tell, the client and the reference that the thread goes by *)
(* are still there: nativeDestroy frees both only after the thread is gone.*)
CallbacksLive ==
  /\ core.at # "off" => lib.alive
  /\ core.at = "calls" => core.ref \in refs

(* Between two calls an app whose object is there knows whether the adapter*)
(* is connected, unless it has been told nothing since it registered; and  *)
(* what the adapter holds for reported has been told, but to an object     *)
(* before this one.                                                        *)
AppKnows ==
  Idle /\ Hears =>
    /\ heard.up # "unknown" => (heard.up = "yes" <=> lib.up)
    /\ lib.reported # NoTempo => heard.late \/ heard.tempo = lib.reported
=============================================================================
