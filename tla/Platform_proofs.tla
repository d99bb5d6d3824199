-------------------------- MODULE Platform_proofs ---------------------------
(***************************************************************************)
(* Theorems about the threads of the app around the core, a part for each  *)
(* component: the connection (Connection), the Android audio engine with its*)
(* recorder (OboeEngine, SessionRecorder), what the app is told (AppEvents),*)
(* and the session archive (Archive).                                      *)
(***************************************************************************)
EXTENDS Connection, OboeEngine, AppEvents, Archive, SequenceTheorems, TLAPS
-----------------------------------------------------------------------------
(***************************************************************************)
(* Disconnect, which frees the connection and every user, meets no         *)
(* connection thread in Run (DisconnectAlone), for any number of           *)
(* connections, provided that the app waits for process() before it calls, *)
(* and connects only when no old connection thread runs (AppWaits).  Module*)
(* Connection's run with a hasty app shows that the proviso is needed.     *)
(*                                                                         *)
(* The argument: a thread that has not ended is the one that disconnect()  *)
(* will join, and there is none from the join to the next thread's start.  *)
(***************************************************************************)

Connecting == {"connect", "open", "loop", "run", "license", "start"}
Apart      == Connecting \union {"close", "closed"}

KeeperTypeOK ==
  /\ keeper \in [Keepers -> {"none", "born", "check", "lock", "run", "license", "done"}]
  /\ connects \in 0 .. MaxConnects
  /\ app.at \in Apart \union {"idle", "stop", "join"}
  /\ app \in [at : Apart \union {"idle", "stop", "join"}, then : {"idle", "connect"}]

(* disconnect() joins every connection thread there is.                    *)
JoinsThemAll == \A k \in Keepers : Alive(k) => thread = k

(* Between the join and the next start there is none.                      *)
NoneBetween == app.at \in Apart => \A k \in Keepers : ~Alive(k)

(* connect() has been called when the app is in it or about to go on with  *)
(* it, and nothing follows it.                                             *)
CallFlow ==
  /\ app.at \in Connecting \/ app.then = "connect" => connects # 0
  /\ app.at \in Connecting => app.then = "idle"

ConnInv == KeeperTypeOK /\ JoinsThemAll /\ NoneBetween /\ CallFlow

LEMMA ConnInitially == Init => ConnInv
  BY ConnectionAssumption
  DEF Init, ConnInv, KeeperTypeOK, JoinsThemAll, NoneBetween, CallFlow, Apart, Connecting, Alive

(* What touches neither the app's place, nor its thread, nor the others'.  *)
LEMMA ConnElsewhere ==
  ASSUME ConnInv, UNCHANGED <<app, thread, keeper, connects>> PROVE ConnInv'
  BY DEF ConnInv, KeeperTypeOK, JoinsThemAll, NoneBetween, CallFlow, Apart, Connecting, Alive

(* A connection thread that goes on is one that has not ended.             *)
LEMMA KeeperKeeps ==
  ASSUME ConnInv, NEW k \in Keepers, Alive(k),
         NEW to \in {"check", "lock", "run", "license", "done"},
         Move(k, to), UNCHANGED <<app, thread, connects>>
  PROVE  ConnInv'
<1>1. keeper' \in [Keepers -> {"none", "born", "check", "lock", "run", "license", "done"}]
  BY DEF Move, ConnInv, KeeperTypeOK
<1>2. \A j \in Keepers : Alive(j)' => Alive(j)
  BY DEF Move, Alive, ConnInv, KeeperTypeOK
<1> QED
  BY <1>1, <1>2 DEF ConnInv, KeeperTypeOK, JoinsThemAll, NoneBetween, CallFlow, Apart, Connecting

(* The app moves on without starting or joining a thread, to a place where *)
(* there are none only if there were none before.                          *)
LEMMA AppKeeps ==
  ASSUME ConnInv, UNCHANGED <<thread, keeper, connects>>,
         app' \in [at : Apart \union {"idle", "stop", "join"}, then : {"idle", "connect"}],
         app'.at \in Apart => app.at \in Apart,
         CallFlow'
  PROVE  ConnInv'
  BY DEF ConnInv, KeeperTypeOK, JoinsThemAll, NoneBetween, Apart, Connecting, Alive

LEMMA CallsKeep ==
  ASSUME AppWaits, ConnInv, CallConnect \/ CallDisconnect PROVE ConnInv'
<1>1. CASE CallConnect
  <2>1. connects' \in 1 .. MaxConnects
    BY <1>1, ConnectionAssumption DEF CallConnect, ConnInv, KeeperTypeOK
  <2>2. app' \in {[at |-> "stop", then |-> "connect"], [at |-> "connect", then |-> "idle"]}
    BY <1>1 DEF CallConnect
  <2>3. ASSUME app'.at = "connect" PROVE \A k \in Keepers : ~Alive(k)
    BY <1>1, <2>3, AppWaits DEF CallConnect
  <2>4. UNCHANGED <<thread, keeper>>
    BY <1>1 DEF CallConnect, handles
  <2> QED
    BY <2>1, <2>2, <2>3, <2>4
    DEF ConnInv, KeeperTypeOK, JoinsThemAll, NoneBetween, CallFlow, Apart, Connecting, Alive
<1>2. CASE CallDisconnect
  BY <1>2, AppKeeps DEF CallDisconnect, handles, CallFlow, Apart, Connecting
<1> QED BY <1>1, <1>2

LEMMA StartKeeps == ASSUME ConnInv, StartThread PROVE ConnInv'
<1>1. connects \in Keepers /\ \A k \in Keepers : ~Alive(k)
  BY ConnectionAssumption
  DEF StartThread, ConnInv, KeeperTypeOK, NoneBetween, CallFlow, Apart, Connecting, Keepers
<1>2. keeper' \in [Keepers -> {"none", "born", "check", "lock", "run", "license", "done"}]
  BY <1>1 DEF StartThread, ConnInv, KeeperTypeOK
<1>3. \A k \in Keepers : Alive(k)' => k = connects
  BY <1>1, <1>2 DEF StartThread, Alive, ConnInv, KeeperTypeOK
<1>4. app' \in [at : {"idle", "connect"}, then : {"idle"}] /\ app'.at = app.then
  BY DEF StartThread, Return, ConnInv, KeeperTypeOK
<1>5. app.then = "idle"
  BY DEF StartThread, ConnInv, CallFlow, Connecting
<1> QED
  BY <1>1, <1>2, <1>3, <1>4, <1>5
  DEF StartThread, ConnInv, KeeperTypeOK, JoinsThemAll, NoneBetween, CallFlow, Apart, Connecting

LEMMA JoinKeeps == ASSUME ConnInv, JoinThread PROVE ConnInv'
<1>1. \A k \in Keepers : ~Alive(k)
  BY DEF JoinThread, Joins, Alive, Keepers, ConnInv, JoinsThemAll
<1> QED
  BY <1>1
  DEF JoinThread, Goto, ConnInv, KeeperTypeOK, JoinsThemAll, NoneBetween, CallFlow, Apart,
      Connecting, Alive

(* The app's other steps stay where there are no threads, or on the way to *)
(* the join.                                                               *)
LEMMA AppStepsKeep == ASSUME ConnInv, AppSteps PROVE ConnInv'
<1> USE DEF Apart, Connecting
<1>0. app \in [at : Apart \union {"idle", "stop", "join"}, then : {"idle", "connect"}] /\ CallFlow
  BY DEF ConnInv, KeeperTypeOK
<1>1. CASE EnterConnect
  BY <1>0, <1>1, AppKeeps DEF EnterConnect, Goto, handles, CallFlow
<1>2. CASE NJConnect
  BY <1>0, <1>2, AppKeeps DEF NJConnect, Goto, handles, CallFlow
<1>3. CASE ConnectLoop
  BY <1>0, <1>3, AppKeeps DEF ConnectLoop, Goto, Return, CallFlow
<1>4. CASE ConnectRun
  BY <1>0, <1>4, AppKeeps DEF ConnectRun, Goto, handles, CallFlow
<1>5. CASE StartThread
  BY <1>5, StartKeeps
<1>6. CASE StopThread
  BY <1>0, <1>6, AppKeeps DEF StopThread, Goto, CallFlow
<1>7. CASE JoinThread
  BY <1>7, JoinKeeps
<1>8. CASE NJDisconnect
  BY <1>0, <1>8, AppKeeps DEF NJDisconnect, Goto, handles, CallFlow
<1>9. CASE ReturnDisconnect
  BY <1>0, <1>9, AppKeeps DEF ReturnDisconnect, Return, CallFlow
<1> QED
  BY <1>1, <1>2, <1>3, <1>4, <1>5, <1>6, <1>7, <1>8, <1>9 DEF AppSteps

LEMMA KeepersKeep ==
  ASSUME ConnInv, NEW k \in Keepers,
         KeeperStart(k) \/ KeeperCheck(k) \/ KeeperLock(k) \/ KeeperRun(k)
  PROVE  ConnInv'
<1>1. CASE KeeperStart(k)
  BY <1>1, KeeperKeeps DEF KeeperStart, handles, Alive
<1>2. CASE KeeperCheck(k)
  BY <1>2, KeeperKeeps DEF KeeperCheck, handles, Alive
<1>3. CASE KeeperLock(k)
  BY <1>3, KeeperKeeps DEF KeeperLock, handles, Alive
<1>4. CASE KeeperRun(k)
  BY <1>4, KeeperKeeps DEF KeeperRun, handles, Alive
<1> QED BY <1>1, <1>2, <1>3, <1>4

LEMMA TimerKeeps ==
  ASSUME ConnInv,
         \/ ServerSays \/ NetDown \/ UIAnswers
         \/ CallProcess \/ ProcessLock \/ ProcessRun \/ ProcessStatus
  PROVE  ConnInv'
  BY ConnElsewhere
  DEF ServerSays, NetDown, UIAnswers, CallProcess, ProcessLock, ProcessRun, ProcessStatus, handles

LEMMA ConnStep == ASSUME AppWaits, ConnInv, [Next]_vars PROVE ConnInv'
<1>1. CASE ServerSays \/ NetDown \/ UIAnswers
           \/ CallProcess \/ ProcessLock \/ ProcessRun \/ ProcessStatus
  BY <1>1, TimerKeeps
<1>2. CASE CallConnect \/ CallDisconnect
  BY <1>2, AppWaits, CallsKeep
<1>3. CASE AppSteps
  BY <1>3, AppStepsKeep
<1>4. ASSUME NEW k \in Keepers,
             KeeperStart(k) \/ KeeperCheck(k) \/ KeeperLock(k) \/ KeeperRun(k)
      PROVE  ConnInv'
  BY <1>4, KeepersKeep
<1>5. CASE UNCHANGED vars
  BY <1>5, ConnElsewhere DEF vars, handles
<1> QED BY <1>1, <1>2, <1>3, <1>4, <1>5 DEF Next

(* Disconnect() never runs while a connection thread is in Run, with an app*)
(* that waits for its calls and for the threads (keepConnectionThread).    *)
THEOREM DisconnectIsAlone == ASSUME AppWaits PROVE Spec => []DisconnectAlone
<1>1. ASSUME ConnInv PROVE DisconnectAlone
  BY <1>1, ConnectionAssumption
  DEF ConnInv, KeeperTypeOK, NoneBetween, Apart, Connecting, DisconnectAlone, InRun, Alive,
      Keepers, App, Timer
<1>2. ASSUME ConnInv, [Next]_vars PROVE ConnInv'
  BY <1>2, AppWaits, ConnStep
<1> QED BY <1>1, <1>2, ConnInitially, PTL DEF Spec
-----------------------------------------------------------------------------
(***************************************************************************)
(* Theorems about the Android audio engine and its recorder, for any ring, *)
(* any number of recordings and engine starts.  RecorderInv ties the place *)
(* of the app thread to the encode thread and the codec; QuietInv ties it  *)
(* to the streams.  What CodecExclusive and QuietWhenStopped say is not    *)
(* inductive: that stop() may tear the codec down needs that the thread it *)
(* joined was the one that drains, and that a failed start is quiet needs  *)
(* that its output has been opened and not started.                        *)
(***************************************************************************)

Joining == {"stop.join", "discard.join", "destroy.join"}

RecorderInv ==
  /\ worker \in {"none", "loop", "draining", "ended"}
  /\ state \in {"IDLE", "RECORDING", "STOPPING"}
  /\ next \in {"idle", "start.output", "destroy"}
  /\ drain = [t \in Drainers |-> drain[t]]
  /\ worker # "none" => codec # "none"
  /\ caller \in Joining => worker # "none"
  /\ caller = "stop.drain" => worker = "none" /\ codec # "none"
  /\ caller \in {"stop.join", "stop.drain"} => state = "STOPPING"
  /\ state = "RECORDING" => worker # "none"
  /\ state = "IDLE" => worker = "none"
  /\ state = "STOPPING" => caller \in {"stop.join", "stop.drain"}
  /\ drain["worker"].at # "away" => worker = "draining"
  /\ drain["app"].at # "away" => caller = "stop.drain"

LEMMA RecorderInitially == EngineInit => RecorderInv
  BY DEF EngineInit, RecorderInit, RecorderInv, Joining, Drainers

(* Of what RecorderInv speaks of, these steps change nothing, or only the  *)
(* place of the app thread, to and from a place outside of a recorder call.*)
LEMMA RecorderElsewhere ==
  ASSUME RecorderInv, UNCHANGED <<worker, state, codec, drain>>,
         next' \in {"idle", "start.output", "destroy"},
         \/ caller' = caller
         \/ caller \notin Joining \union {"stop.drain"} /\ caller' \notin Joining \union {"stop.drain"}
  PROVE  RecorderInv'
  BY DEF RecorderInv, Joining

(* What a drain begins, feeds and ends; the other drain is left alone.     *)
LEMMA BeginDrainChanges ==
  ASSUME RecorderInv, NEW t \in Drainers, BeginDrain(t)
  PROVE  /\ drain' = [x \in Drainers |-> drain'[x]]
         /\ drain'[t].at # "away" => codec # "none"
         /\ \A x \in Drainers : x # t => drain'[x] = drain[x]
  BY DEF RecorderInv, BeginDrain, Drainers

LEMMA DrainKeeps ==
  ASSUME RecorderInv, NEW t \in Drainers, Feed(t) \/ DrainOutput(t),
         UNCHANGED next
  PROVE  RecorderInv'
<1>1. /\ UNCHANGED <<worker, state, caller>>
      /\ codec' \in Output(codec)
      /\ drain[t].at # "away"
      /\ drain' = [x \in Drainers |-> drain'[x]]
      /\ \A x \in Drainers : x # t => drain'[x] = drain[x]
  BY DEF RecorderInv, Feed, DrainOutput, Drainers
<1>2. codec # "none" => codec' # "none"
  BY <1>1 DEF Output
<1>3. \A x \in Drainers : drain'[x].at # "away" => drain[x].at # "away"
  BY <1>1
<1>4. QED BY <1>1, <1>2, <1>3 DEF RecorderInv, Drainers

LEMMA WorkerKeeps == ASSUME RecorderInv, Worker, UNCHANGED next PROVE RecorderInv'
<1>1. CASE Loop
  <2>1. CASE running
    <3>1. /\ worker = "loop" /\ worker' = "draining" /\ BeginDrain("worker")
          /\ UNCHANGED <<state, codec, caller>>
      BY <1>1, <2>1 DEF Loop, GoesOn
    <3>2. drain' = [x \in Drainers |-> drain'[x]] /\ drain'["app"] = drain["app"]
      BY <3>1, BeginDrainChanges DEF Drainers
    <3>3. QED BY <3>1, <3>2 DEF RecorderInv, Joining
  <2>2. CASE ~running
    BY <1>1, <2>2 DEF Loop, GoesOn, RecorderInv, Joining
  <2>3. QED BY <2>1, <2>2
<1>2. CASE Sleep
  BY <1>2 DEF Sleep, RecorderInv, Joining
<1>3. CASE Feed("worker") \/ DrainOutput("worker")
  BY <1>3, DrainKeeps DEF Drainers
<1>4. QED BY <1>1, <1>2, <1>3 DEF Worker

LEMMA AppCallsKeep == ASSUME RecorderInv, AppCalls, UNCHANGED next PROVE RecorderInv'
<1>1. CASE StartRecording
  <2>1. /\ caller = "idle" /\ caller' = "idle" /\ state = "IDLE" /\ drain' = drain
        /\ \/ codec' = "open" /\ worker' = "loop" /\ state' = "RECORDING"
           \/ codec' = codec /\ worker' = worker /\ state' = state
    BY <1>1 DEF StartRecording
  <2>2. CASE codec' = codec /\ worker' = worker /\ state' = state
    BY <2>1, <2>2 DEF RecorderInv, Joining
  <2>3. CASE codec' = "open" /\ worker' = "loop" /\ state' = "RECORDING"
    BY <2>1, <2>3 DEF RecorderInv, Joining
  <2>4. QED BY <2>1, <2>2, <2>3
<1>2. CASE StopRecording
  BY <1>2 DEF StopRecording, RecorderInv, Joining
<1>3. CASE Save \/ Discard
  BY <1>3, RecorderElsewhere DEF Save, Discard, DiscardFile, RecorderInv
<1>4. CASE GiveUp("discard.join")
  BY <1>4 DEF GiveUp, RecorderInv, Joining
<1>5. QED BY <1>1, <1>2, <1>3, <1>4 DEF AppCalls

LEMMA AppInsideKeeps == ASSUME RecorderInv, AppInside, UNCHANGED next PROVE RecorderInv'
<1>1. CASE StopJoined
  <2>1. /\ caller = "stop.join" /\ worker = "ended" /\ worker' = "none" /\ caller' = "stop.drain"
        /\ BeginDrain("app") /\ UNCHANGED <<state, codec>>
    BY <1>1 DEF StopJoined, Joined
  <2>2. drain' = [x \in Drainers |-> drain'[x]] /\ drain'["worker"] = drain["worker"]
    BY <2>1, BeginDrainChanges DEF Drainers
  <2>3. QED BY <2>1, <2>2 DEF RecorderInv, Joining
<1>2. CASE Feed("app") \/ DrainOutput("app")
  BY <1>2, DrainKeeps DEF Drainers
<1>3. CASE StopFinish
  BY <1>3 DEF StopFinish, RecorderInv, Joining
<1>4. CASE DiscardJoined
  BY <1>4 DEF DiscardJoined, Joined, RecorderInv, Joining
<1>5. QED BY <1>1, <1>2, <1>3, <1>4 DEF AppInside
-----------------------------------------------------------------------------
LEMMA EngineInsideKeeps == ASSUME RecorderInv, EngineInside PROVE RecorderInv'
<1>1. CASE \/ OpenOutput \/ OpenInput \/ StartOutput \/ StartFails
           \/ CloseInput \/ CloseOutput
  <2>1. /\ UNCHANGED <<worker, state, codec, drain>> /\ next' = next
        /\ caller \in {"start.output", "start.input", "start.run", "close.input", "close.output"}
        /\ caller' \in {"start.input", "start.run", "idle", "close.output", next}
    BY <1>1 DEF OpenOutput, OpenInput, StartOutput, StartFails, CloseInput, CloseOutput, AppAt
  <2>2. next \in {"idle", "start.output", "destroy"}
    BY DEF RecorderInv
  <2>3. QED BY <2>1, <2>2, RecorderElsewhere DEF Joining
<1>2. CASE DestroyRecorder
  BY <1>2 DEF DestroyRecorder, RecorderInv, Joining
<1>3. CASE DestroyJoined
  BY <1>3 DEF DestroyJoined, Joined, RecorderInv, Joining
<1>4. QED BY <1>1, <1>2, <1>3 DEF EngineInside

LEMMA AudioKeeps == ASSUME RecorderInv, AudioThread \/ DeviceLost PROVE RecorderInv'
<1>1. UNCHANGED <<worker, state, codec, drain, caller, next>>
  BY DEF AudioThread, CallbackBegins, ReadInput, Tap, TapDone, DeviceLost, WriteBlock, PublishBlock,
         recorderVars
<1>2. QED BY <1>1, RecorderElsewhere DEF RecorderInv

LEMMA RecorderStep == ASSUME RecorderInv, [AndroidNext]_androidVars PROVE RecorderInv'
<1>1. CASE UNCHANGED androidVars
  BY <1>1, RecorderElsewhere DEF androidVars, recorderVars, engineVars, RecorderInv
<1>2. CASE EncodeThread
  BY <1>2, WorkerKeeps DEF EncodeThread, engineVars
<1>3. CASE CreateEngine \/ StartEngine \/ StopEngine \/ DestroyEngine
  <2>1. /\ UNCHANGED <<worker, state, codec, drain>>
        /\ next' = next \/ next' \in {"idle", "start.output", "destroy"}
        /\ caller = "idle"
        /\ caller' \in {"idle", "close.input", "start.output", "destroy"}
    BY <1>3 DEF CreateEngine, StartEngine, StopEngine, DestroyEngine, EngineStop, AppAt,
                recorderVars, engineVars
  <2>2. next' \in {"idle", "start.output", "destroy"}
    BY <2>1 DEF RecorderInv
  <2>3. QED BY <2>1, <2>2, RecorderElsewhere DEF Joining
<1>4. CASE (AppCalls \/ AppInside) /\ UNCHANGED engineVars
  BY <1>4, AppCallsKeep, AppInsideKeeps DEF engineVars
<1>5. QED
  BY <1>1, <1>2, <1>3, <1>4, EngineInsideKeeps, AudioKeeps DEF AndroidNext, AppThread

(* The codec, the muxer and the reading side of the ring belong to one     *)
(* thread at a time, whatever the audio thread, the encode thread, stop(), *)
(* discard() and the engine's end do meanwhile: stop() drains only when    *)
(* the encode thread has ended, and nobody drains without a codec.         *)
THEOREM CodecIsExclusive == AndroidSpec => []CodecExclusive
<1>1. RecorderInv => CodecExclusive
  BY DEF RecorderInv, CodecExclusive, Drainers
<1>2. EngineInit => RecorderInv
  BY RecorderInitially
<1>3. RecorderInv /\ [AndroidNext]_androidVars => RecorderInv'
  BY RecorderStep
<1>4. QED BY <1>1, <1>2, <1>3, PTL DEF AndroidSpec
-----------------------------------------------------------------------------
Opening == {"start.input", "start.run"}
Closing == {"close.input", "close.output"}

QuietInv ==
  /\ next \in {"idle", "start.output", "destroy"}
  /\ callback # "away" => output = "started"
  /\ engine = "running" => caller \notin Opening \union Closing
                                           \union {"start.output", "destroy", "destroy.join"}
  /\ caller \in Opening => output = "open"
  /\ caller \in {"start.input", "close.output"} => input = "none"
  /\ engine # "running" /\ caller \notin Opening \union Closing => output = "none" /\ input = "none"

LEMMA QuietInitially == EngineInit => QuietInv
  BY DEF EngineInit, RecorderInit, QuietInv, Opening, Closing

(* A call of the recorder leaves the streams alone.                        *)
LEMMA CallsAreQuiet ==
  ASSUME QuietInv, UNCHANGED engineVars,
         \/ caller' = caller
         \/ {caller, caller'} \subseteq {"idle", "stop.join", "stop.drain", "discard.join"}
  PROVE  QuietInv'
  BY DEF QuietInv, engineVars, Opening, Closing

LEMMA StartingIsQuiet ==
  ASSUME QuietInv, OpenOutput \/ OpenInput \/ StartOutput \/ StartFails PROVE QuietInv'
<1>1. CASE OpenOutput
  BY <1>1 DEF OpenOutput, AppAt, QuietInv, Opening, Closing
<1>2. CASE OpenInput
  BY <1>2 DEF OpenInput, AppAt, QuietInv, Opening, Closing
<1>3. CASE StartOutput
  BY <1>3 DEF StartOutput, AppAt, QuietInv, Opening, Closing
<1>4. CASE StartFails
  BY <1>4 DEF StartFails, FailedStreams, AppAt, QuietInv, Opening, Closing
<1>5. QED BY <1>1, <1>2, <1>3, <1>4

LEMMA StoppingIsQuiet ==
  ASSUME QuietInv, CloseInput \/ CloseOutput \/ DestroyRecorder \/ DestroyJoined PROVE QuietInv'
<1>1. CASE CloseInput
  BY <1>1 DEF CloseInput, AppAt, QuietInv, Opening, Closing
<1>2. CASE CloseOutput
  BY <1>2 DEF CloseOutput, AppAt, QuietInv, Opening, Closing
<1>3. CASE DestroyRecorder
  BY <1>3 DEF DestroyRecorder, QuietInv, Opening, Closing
<1>4. CASE DestroyJoined
  BY <1>4 DEF DestroyJoined, QuietInv, Opening, Closing
<1>5. QED BY <1>1, <1>2, <1>3, <1>4

LEMMA QuietStep == ASSUME QuietInv, [AndroidNext]_androidVars PROVE QuietInv'
<1>1. CASE UNCHANGED androidVars
  BY <1>1, CallsAreQuiet DEF androidVars, recorderVars
<1>2. CASE EncodeThread
  <2>1. caller' = caller
    BY <1>2 DEF EncodeThread, Worker, Loop, Sleep, Feed, DrainOutput
  <2>2. QED BY <1>2, <2>1, CallsAreQuiet DEF EncodeThread
<1>3. CASE (AppCalls \/ AppInside) /\ UNCHANGED engineVars
  <2>1. CASE AppCalls
    <3>1. caller = "idle" /\ caller' \in {"idle", "stop.join", "discard.join"}
      BY <2>1 DEF AppCalls, StartRecording, StopRecording, Save, GiveUp, Discard
    <3>2. QED BY <1>3, <3>1, CallsAreQuiet
  <2>2. CASE AppInside
    <3>1. \/ caller' = caller
          \/ {caller, caller'} \subseteq {"idle", "stop.join", "stop.drain", "discard.join"}
      BY <2>2 DEF AppInside, StopJoined, Feed, DrainOutput, StopFinish, DiscardJoined
    <3>2. QED BY <1>3, <3>1, CallsAreQuiet
  <2>3. QED BY <1>3, <2>1, <2>2
<1>4. CASE CreateEngine \/ StartEngine \/ StopEngine \/ DestroyEngine
  BY <1>4 DEF CreateEngine, StartEngine, StopEngine, DestroyEngine, EngineStop, AppAt,
              recorderVars, engineVars, QuietInv, Opening, Closing
<1>5. CASE AudioThread \/ DeviceLost
  <2>1. /\ UNCHANGED <<caller, engine, input, next>>
        /\ \/ output' = output /\ (callback' # "away" => callback # "away" \/ output = "started")
           \/ callback = "away" /\ callback' = "away" /\ output = "started" /\ output' = "dead"
    BY <1>5 DEF AudioThread, CallbackBegins, ReadInput, Tap, TapDone, DeviceLost, WriteBlock,
                PublishBlock, recorderVars
  <2>2. QED BY <2>1 DEF QuietInv, Opening, Closing
<1>6. QED
  BY <1>1, <1>2, <1>3, <1>4, <1>5, StartingIsQuiet, StoppingIsQuiet
     DEF AndroidNext, AppThread, EngineInside

(* After a stop, a start that failed at any stage, or the engine's end,    *)
(* no stream is open and no callback runs that could use the engine or its *)
(* recorder: only a start or a stop that is under way may hold them.       *)
THEOREM StoppedIsQuiet == AndroidSpec => []QuietWhenStopped
<1>1. QuietInv => QuietWhenStopped
  BY DEF QuietInv, QuietWhenStopped, Opening, Closing
<1>2. EngineInit => QuietInv
  BY QuietInitially
<1>3. QuietInv /\ [AndroidNext]_androidVars => QuietInv'
  BY QuietStep
<1>4. QED BY <1>1, <1>2, <1>3, PTL DEF AndroidSpec
-----------------------------------------------------------------------------
(***************************************************************************)
(* What the connection thread calls is there when it calls it              *)
(* (CallbacksLive), for any tempos and any number of objects registered.   *)
(*                                                                         *)
(* The argument: the reference is deleted, and the client freed, only while*)
(* no connection thread runs; a thread begins only in connect(), which is  *)
(* not among those places, and reads the reference that is there.          *)
(***************************************************************************)

Calls   == {"none", "register", "connect", "tell", "stop", "join", "free", "unref"}
Follows == {"none", "connect", "free"}

CallsTypeOK ==
  /\ call \in [at : Calls, then : Follows]
  /\ core.at \in {"off", "idle", "calls"} /\ DOMAIN core = {"at", "ref"}
  /\ DOMAIN lib = DOMAIN NoLib

(* Calls with no connection thread, and those that need the client.        *)
CoreIsOff   == call.at \in {"register", "connect", "free", "unref"} => core.at = "off"
ClientThere == call.at \in {"register", "connect", "tell", "stop", "join", "free"} => lib.alive

(* A target has its reference, but for a moment in a new registration.     *)
TargetHasRef == call.at # "register" /\ target # NoTarget => target \in refs

CallsInv == CallsTypeOK /\ CoreIsOff /\ ClientThere /\ TargetHasRef /\ CallbacksLive

LEMMA CallsInitially == EventsInit => CallsInv
  BY DEF EventsInit, CallsInv, CallsTypeOK, CoreIsOff, ClientThere, TargetHasRef, CallbacksLive,
     Calls, Follows, NoLib, CoreOff

(* What changes only the tempo, who is told, and whether there is a        *)
(* connection, and leaves every other field of the client.                 *)
LEMMA TalkKeeps ==
  ASSUME CallsInv, UNCHANGED <<registry, call, core>>,
         DOMAIN lib' = DOMAIN lib, lib'.alive = lib.alive
  PROVE  CallsInv'
  BY DEF registry, CallsInv, CallsTypeOK, CoreIsOff, ClientThere, TargetHasRef, CallbacksLive

LEMMA RegisteringKeeps ==
  ASSUME CallsInv, Create \/ DeleteOldRef \/ StoreTarget \/ (\E o \in Targets : Collect(o))
  PROVE  CallsInv'
<1> USE DEF CallsInv, CallsTypeOK, CoreIsOff, ClientThere, TargetHasRef, CallbacksLive
<1>1. CASE Create
  BY <1>1 DEF Create, Idle, NewLib, NoLib, registry
<1>2. CASE DeleteOldRef
  BY <1>2 DEF DeleteOldRef, Idle, Enter, Calls, Follows
<1>3. CASE StoreTarget
  BY <1>3 DEF StoreTarget, Leave, Enter, Calls, Follows, SetCallbacks
<1>4. ASSUME NEW o \in Targets, Collect(o) PROVE CallsInv'
  BY <1>4 DEF Collect
<1> QED BY <1>1, <1>2, <1>3, <1>4

LEMMA ConnectingKeeps ==
  ASSUME CallsInv, Connect \/ Connected \/ NotConnected \/ TellConnected \/ Process
  PROVE  CallsInv'
<1>1. CASE Connect
  BY <1>1 DEF Connect, Idle, Enter, registry, Calls, Follows,
     CallsInv, CallsTypeOK, CoreIsOff, ClientThere, TargetHasRef, CallbacksLive
<1>2. CASE Connected
  <2>1. DOMAIN lib' = DOMAIN lib /\ lib'.alive = lib.alive /\ lib.alive
    BY <1>2 DEF Connected, CallsInv, ClientThere, CallsTypeOK, NoLib
  <2>2. call' = [at |-> "tell", then |-> "none"] /\ core' = [at |-> "idle", ref |-> NoTarget]
    BY <1>2 DEF Connected, Enter, CoreOff
  <2> QED
    BY <1>2, <2>1, <2>2 DEF Connected, registry, Calls, Follows,
       CallsInv, CallsTypeOK, CoreIsOff, ClientThere, TargetHasRef, CallbacksLive
<1>3. CASE NotConnected
  BY <1>3 DEF NotConnected, Leave, Enter, registry, Calls, Follows, NoLib,
     CallsInv, CallsTypeOK, CoreIsOff, ClientThere, TargetHasRef, CallbacksLive
<1>4. CASE TellConnected
  BY <1>4 DEF TellConnected, Leave, Enter, registry, Calls, Follows, NoLib,
     CallsInv, CallsTypeOK, CoreIsOff, ClientThere, TargetHasRef, CallbacksLive
<1>5. CASE Process
  <2>1. \A v, t :
          LET l == [[lib EXCEPT !.up = v] EXCEPT !.reported = t]
          IN  DOMAIN l = DOMAIN lib /\ l.alive = lib.alive
    BY DEF CallsInv, CallsTypeOK, NoLib
  <2>2. DOMAIN lib' = DOMAIN lib /\ lib'.alive = lib.alive
    BY <1>5, <2>1 DEF Process, CallsInv, CallsTypeOK, NoLib
  <2> QED BY <1>5, <2>2, TalkKeeps DEF Process
<1> QED BY <1>1, <1>2, <1>3, <1>4, <1>5

LEMMA StoppingKeeps ==
  ASSUME CallsInv, Disconnect \/ Destroy \/ StopCore \/ JoinCore \/ FreeClient \/ DeleteRef
  PROVE  CallsInv'
<1> USE DEF Enter, registry, Calls, Follows, CallsInv, CallsTypeOK, CoreIsOff, ClientThere,
            TargetHasRef, CallbacksLive
<1>1. CASE Disconnect
  BY <1>1 DEF Disconnect, Idle
<1>2. CASE Destroy
  BY <1>2 DEF Destroy, Idle
<1>3. CASE StopCore
  BY <1>3 DEF StopCore, NoLib
<1>4. CASE JoinCore
  BY <1>4 DEF JoinCore, NoLib
<1>5. CASE FreeClient
  BY <1>5 DEF FreeClient, NoLib
<1>6. CASE DeleteRef
  BY <1>6 DEF DeleteRef, Leave
<1> QED BY <1>1, <1>2, <1>3, <1>4, <1>5, <1>6

LEMMA CoreKeeps ==
  ASSUME CallsInv, CoreEvent \/ CoreReturns \/ CoreRuns \/ CoreEnds PROVE CallsInv'
<1> USE DEF registry, CoreOff, CallsInv, CallsTypeOK, CoreIsOff, ClientThere, TargetHasRef,
            CallbacksLive
<1>1. CASE CoreEvent
  BY <1>1 DEF CoreEvent
<1>2. CASE CoreReturns
  BY <1>2 DEF CoreReturns
<1>3. CASE CoreRuns
  BY <1>3 DEF CoreRuns, NoLib
<1>4. CASE CoreEnds
  BY <1>4 DEF CoreEnds
<1> QED BY <1>1, <1>2, <1>3, <1>4

LEMMA CallsStep == ASSUME CallsInv, [EventsNext]_eventVars PROVE CallsInv'
<1>1. CASE UNCHANGED eventVars
  BY <1>1 DEF eventVars, CallsInv, CallsTypeOK, CoreIsOff, ClientThere, TargetHasRef, CallbacksLive
<1> QED
  BY <1>1, RegisteringKeeps, ConnectingKeeps, StoppingKeeps, CoreKeeps DEF EventsNext

(* The client, and the reference that the connection thread goes by, are   *)
(* there whenever it has something to tell (nativeDestroy).                *)
THEOREM CallbacksAreLive == EventsSpec => []CallbacksLive
<1>1. CallsInv => CallbacksLive
  BY DEF CallsInv
<1> QED BY <1>1, CallsInitially, CallsStep, PTL DEF EventsSpec
-----------------------------------------------------------------------------
(* What the app was told holds between the calls (AppKnows): an object is  *)
(* told in the same step as the adapter changes, but for the end of        *)
(* connect(), where the adapter is connected before the object is told;    *)
(* and the adapter remembers a tempo as reported only when the callbacks   *)
(* are set, so a new object knows whether one before it was told.          *)
KnowsTypeOK ==
  /\ targets \in Nat /\ collected \subseteq 1 .. targets
  /\ lib \in [alive : BOOLEAN, wired : BOOLEAN, up : BOOLEAN, inner : BOOLEAN, lost : BOOLEAN,
              stop : BOOLEAN, tempo : Nat, reported : Nat]
  /\ heard \in [up : {"unknown", "yes", "no"}, tempo : Nat, late : BOOLEAN]
  /\ call \in [at : Calls, then : Follows]

AdapterFollows == /\ call.at = "tell" => lib.up
                  /\ call.at = "connect" => ~lib.up
                  /\ lib.reported # NoTempo => lib.wired

Knows ==
  Hears => /\ heard.up # "unknown" /\ call.at # "tell" => (heard.up = "yes" <=> lib.up)
           /\ lib.reported # NoTempo => heard.late \/ heard.tempo = lib.reported

KnowsInv == KnowsTypeOK /\ AdapterFollows /\ Knows

LEMMA TempiAreNat == DefaultTempo \in Nat /\ NoTempo \in Nat /\ Tempi \subseteq Nat
  BY EventsAssumption DEF NoTempo

LEMMA KnowsInitially == EventsInit => KnowsInv
  BY TempiAreNat DEF EventsInit, KnowsInv, KnowsTypeOK, AdapterFollows, Knows, Hears, Forwards,
     NoLib, Unheard, Calls, Follows, NoTempo

(* Telling changes one field of what was heard, if anybody hears it.       *)
LEMMA ToldType ==
  ASSUME NEW h \in [up : {"unknown", "yes", "no"}, tempo : Nat, late : BOOLEAN]
  PROVE  /\ \A v \in {"yes", "no"} :
              /\ Told(h, "up", v) \in [up : {"unknown", "yes", "no"}, tempo : Nat, late : BOOLEAN]
              /\ Told(h, "up", v).tempo = h.tempo /\ Told(h, "up", v).late = h.late
              /\ Hears => Told(h, "up", v).up = v
         /\ \A t \in Nat :
              /\ Told(h, "tempo", t) \in [up : {"unknown", "yes", "no"}, tempo : Nat, late : BOOLEAN]
              /\ Told(h, "tempo", t).up = h.up /\ Told(h, "tempo", t).late = h.late
              /\ Hears => Told(h, "tempo", t).tempo = t
  BY DEF Told

(* A report is a tempo, made when it is new and the callbacks are set.     *)
LEMMA ReportsType ==
  ASSUME KnowsInv, NEW up \in BOOLEAN
  PROVE  LET l == [lib EXCEPT !.up = up] IN
         /\ Tempo(l) \in Nat /\ Reports(l).reported \in Nat
         /\ Reports(l).now => lib.wired /\ Reports(l).reported = Tempo(l)
         /\ ~Reports(l).now => Reports(l).reported = lib.reported
  BY TempiAreNat DEF KnowsInv, KnowsTypeOK, Tempo, Reports

LEMMA RegisteringKnows ==
  ASSUME KnowsInv, Create \/ DeleteOldRef \/ StoreTarget \/ (\E o \in Targets : Collect(o))
  PROVE  KnowsInv'
<1> USE DEF KnowsInv, KnowsTypeOK, AdapterFollows, Knows, Hears, Forwards
<1>1. CASE Create
  BY <1>1, TempiAreNat DEF Create, Idle, NewLib, NoLib, registry
<1>2. CASE DeleteOldRef
  BY <1>2 DEF DeleteOldRef, Idle, Enter, Calls, Follows
<1>3. CASE StoreTarget
  <2>1. CASE target' = NoTarget /\ UNCHANGED <<refs, targets, lib, heard>>
    BY <1>3, <2>1 DEF StoreTarget, Leave, Enter, Calls, Follows
  <2>2. CASE /\ targets' = targets + 1 /\ target' = targets'
             /\ lib' = SetCallbacks /\ heard' = Unheard(lib.wired /\ lib.reported # NoTempo)
    <3> DEFINE late == lib.wired /\ lib.reported # NoTempo
    <3>1. late \in BOOLEAN /\ (lib.reported # NoTempo => late)
      OBVIOUS
    <3>2. heard' = [up |-> "unknown", tempo |-> NoTempo, late |-> late]
      BY <2>2 DEF Unheard
    <3> HIDE DEF late
    <3>3. lib' = [lib EXCEPT !.wired = TRUE] /\ call' = [at |-> "none", then |-> "none"]
      BY <1>3, <2>2 DEF StoreTarget, Leave, Enter, SetCallbacks
    <3>4. KnowsTypeOK'
      <4>1. collected' = collected
        BY <1>3 DEF StoreTarget
      <4>2. targets' \in Nat /\ collected' \subseteq 1 .. targets'
        BY <2>2, <4>1
      <4>3. heard' \in [up : {"unknown", "yes", "no"}, tempo : Nat, late : BOOLEAN]
        BY <3>1, <3>2, TempiAreNat
      <4>4. call' \in [at : Calls, then : Follows]
        BY <3>3 DEF Calls, Follows
      <4>5. QED BY <3>3, <4>2, <4>3, <4>4
    <3>5. AdapterFollows'
      BY <3>3
    <3>6. Knows'
      BY <3>1, <3>2, <3>3
    <3>7. QED BY <3>4, <3>5, <3>6
  <2>3. QED BY <1>3, <2>1, <2>2 DEF StoreTarget
<1>4. ASSUME NEW o \in Targets, Collect(o) PROVE KnowsInv'
  BY <1>4 DEF Collect
<1> QED BY <1>1, <1>2, <1>3, <1>4

LEMMA TellingKnows == ASSUME KnowsInv, TellConnected \/ Process PROVE KnowsInv'
<1> DEFINE l(up) == [lib EXCEPT !.up = up]
<1>0. /\ lib.up \in BOOLEAN /\ lib = l(lib.up)
      /\ \A up \in BOOLEAN : Tempo(l(up)) \in Nat
  BY ReportsType DEF KnowsInv, KnowsTypeOK
<1>1. CASE TellConnected
  <2> DEFINE says == Reports(lib)
             h    == IF says.now THEN Told(heard, "tempo", Tempo(lib)) ELSE heard
  <2>1. /\ call.at = "tell" /\ call' = [at |-> "none", then |-> "none"]
        /\ lib' = [lib EXCEPT !.reported = says.reported] /\ heard' = Told(h, "up", "yes")
        /\ UNCHANGED registry
    BY <1>1 DEF TellConnected, Leave, Enter
  <2>2. /\ Tempo(lib) \in Nat /\ says.reported \in Nat
        /\ says.now => lib.wired /\ says.reported = Tempo(lib)
        /\ ~says.now => says.reported = lib.reported
    BY <1>0, ReportsType
  <2> HIDE DEF says
  <2>3. /\ h \in [up : {"unknown", "yes", "no"}, tempo : Nat, late : BOOLEAN]
        /\ Hears /\ says.now => h.tempo = says.reported
        /\ ~says.now => h = heard
        /\ h.late = heard.late
    BY <2>2, ToldType DEF KnowsInv, KnowsTypeOK
  <2> HIDE DEF h
  <2>4. /\ heard' \in [up : {"unknown", "yes", "no"}, tempo : Nat, late : BOOLEAN]
        /\ heard'.tempo = h.tempo /\ heard'.late = h.late /\ (Hears => heard'.up = "yes")
    BY <2>1, <2>3, ToldType
  <2>5. Hears' = Hears
    BY <2>1 DEF Hears, Forwards, registry, KnowsInv, KnowsTypeOK
  <2>6. KnowsTypeOK'
    BY <2>1, <2>2, <2>4 DEF KnowsInv, KnowsTypeOK, registry, Calls, Follows
  <2>7. AdapterFollows'
    BY <2>1, <2>2 DEF KnowsInv, KnowsTypeOK, AdapterFollows
  <2>8. Knows'
    BY <2>1, <2>2, <2>3, <2>4, <2>5 DEF KnowsInv, KnowsTypeOK, AdapterFollows, Knows
  <2>9. QED BY <2>6, <2>7, <2>8 DEF KnowsInv
<1>2. CASE Process
  <2> DEFINE drops == lib.lost /\ lib.wired
             says  == Reports(l(~drops))
             h     == IF drops THEN Told(heard, "up", "no") ELSE heard
  <2>1. /\ call.at = "none" /\ lib.up /\ UNCHANGED <<registry, call>>
        /\ \/ /\ lib' = [l(~drops) EXCEPT !.reported = says.reported]
              /\ heard' = IF says.now THEN Told(h, "tempo", Tempo(l(~drops))) ELSE h
           \/ lib' = l(~drops) /\ heard' = h
    BY <1>2 DEF Process, Idle
  <2>2. /\ drops \in BOOLEAN /\ Tempo(l(~drops)) \in Nat /\ says.reported \in Nat
        /\ says.now => lib.wired /\ says.reported = Tempo(l(~drops))
        /\ ~says.now => says.reported = lib.reported
    BY ReportsType DEF KnowsInv, KnowsTypeOK
  <2> HIDE DEF says
  <2>3. /\ h \in [up : {"unknown", "yes", "no"}, tempo : Nat, late : BOOLEAN]
        /\ Hears /\ drops => h.up = "no"
        /\ ~drops => h = heard
        /\ h.tempo = heard.tempo /\ h.late = heard.late
    BY ToldType DEF KnowsInv, KnowsTypeOK
  <2> HIDE DEF h
  <2>4. /\ heard' \in [up : {"unknown", "yes", "no"}, tempo : Nat, late : BOOLEAN]
        /\ heard'.up = h.up /\ heard'.late = h.late
        /\ \/ heard'.tempo = h.tempo /\ lib'.reported = lib.reported
           \/ Hears => heard'.tempo = lib'.reported
    <3>1. lib \in [alive : BOOLEAN, wired : BOOLEAN, up : BOOLEAN, inner : BOOLEAN, lost : BOOLEAN,
                   stop : BOOLEAN, tempo : Nat, reported : Nat]
      BY DEF KnowsInv, KnowsTypeOK
    <3>2. CASE /\ lib' = [l(~drops) EXCEPT !.reported = says.reported]
               /\ heard' = IF says.now THEN Told(h, "tempo", Tempo(l(~drops))) ELSE h
      <4>1. lib'.reported = says.reported
        BY <3>1, <3>2
      <4>2. QED BY <2>2, <2>3, <3>2, <4>1, ToldType
    <3>3. CASE lib' = l(~drops) /\ heard' = h
      BY <2>3, <3>1, <3>3
    <3>4. QED BY <2>1, <3>2, <3>3
  <2>5. /\ lib'.wired = lib.wired /\ lib'.up = ~drops /\ lib'.reported \in Nat
        /\ lib'.reported # lib.reported => lib.wired
        /\ lib' \in [alive : BOOLEAN, wired : BOOLEAN, up : BOOLEAN, inner : BOOLEAN, lost : BOOLEAN,
                     stop : BOOLEAN, tempo : Nat, reported : Nat]
    <3> DEFINE L == [alive : BOOLEAN, wired : BOOLEAN, up : BOOLEAN, inner : BOOLEAN, lost : BOOLEAN,
                     stop : BOOLEAN, tempo : Nat, reported : Nat]
               k == [lib EXCEPT !.up = ~drops]
               n == says.reported
    <3>1. lib \in L /\ (~drops) \in BOOLEAN /\ n \in Nat /\ (n # lib.reported => lib.wired)
      BY <2>2 DEF KnowsInv, KnowsTypeOK
    <3>2. k \in L /\ k.wired = lib.wired /\ k.up = ~drops /\ k.reported = lib.reported
      <4> HIDE DEF drops
      <4> QED BY <3>1
    <3>3. lib' = [k EXCEPT !.reported = n] \/ lib' = k
      BY <2>1
    <3> HIDE DEF k, n, drops
    <3>4. CASE lib' = k
      BY <3>1, <3>2, <3>4
    <3>5. CASE lib' = [k EXCEPT !.reported = n]
      BY <3>1, <3>2, <3>5
    <3> QED BY <3>3, <3>4, <3>5
  <2> HIDE DEF drops, l
  <2>6. Hears' = Hears
    BY <2>1, <2>5 DEF Hears, Forwards, registry
  <2>7. KnowsTypeOK'
    BY <2>1, <2>4, <2>5 DEF KnowsInv, KnowsTypeOK, registry
  <2>8. AdapterFollows'
    BY <2>1, <2>5 DEF KnowsInv, AdapterFollows
  <2>9. Knows'
    BY <2>1, <2>2, <2>3, <2>4, <2>5, <2>6 DEF KnowsInv, Knows
  <2>10. QED BY <2>7, <2>8, <2>9 DEF KnowsInv
<1> QED BY <1>1, <1>2

LEMMA ConnectingKnows ==
  ASSUME KnowsInv, Connect \/ Connected \/ NotConnected PROVE KnowsInv'
<1>1. CASE Connect
  BY <1>1 DEF Connect, Idle, Enter, registry, Calls, Follows, KnowsInv, KnowsTypeOK,
     AdapterFollows, Knows, Hears, Forwards
<1>2. CASE Connected
  <2>1. PICK ok \in BOOLEAN, t \in Tempi :
          lib' = [lib EXCEPT !.up = TRUE, !.inner = TRUE, !.stop = FALSE, !.lost = ~ok, !.tempo = t]
    BY <1>2 DEF Connected
  <2>2. call' = [at |-> "tell", then |-> "none"] /\ UNCHANGED <<registry, heard>>
    BY <1>2 DEF Connected, Enter
  <2>3. QED
    BY <2>1, <2>2, TempiAreNat DEF registry, Calls, Follows, KnowsInv, KnowsTypeOK,
       AdapterFollows, Knows, Hears, Forwards
<1>3. CASE NotConnected
  <2>1. /\ lib' = [lib EXCEPT !.lost = TRUE] /\ heard' = Told(heard, "up", "no")
        /\ call.at = "connect" /\ call' = [at |-> "none", then |-> "none"] /\ UNCHANGED registry
    BY <1>3 DEF NotConnected, Leave, Enter
  <2>2. /\ heard' \in [up : {"unknown", "yes", "no"}, tempo : Nat, late : BOOLEAN]
        /\ heard'.tempo = heard.tempo /\ heard'.late = heard.late
        /\ Hears => heard'.up = "no"
    BY <2>1, ToldType DEF KnowsInv, KnowsTypeOK
  <2>3. Hears' = Hears
    BY <2>1 DEF Hears, Forwards, registry, KnowsInv, KnowsTypeOK
  <2>4. QED
    BY <2>1, <2>2, <2>3 DEF registry, Calls, Follows, KnowsInv, KnowsTypeOK, AdapterFollows, Knows
<1> QED BY <1>1, <1>2, <1>3

LEMMA StoppingKnows ==
  ASSUME KnowsInv, Disconnect \/ Destroy \/ StopCore \/ JoinCore \/ FreeClient \/ DeleteRef
  PROVE  KnowsInv'
<1> USE DEF Enter, registry, Calls, Follows, KnowsInv, KnowsTypeOK, AdapterFollows, Knows
<1>1. CASE Disconnect
  BY <1>1 DEF Disconnect, Idle, Hears, Forwards
<1>2. CASE Destroy
  BY <1>2 DEF Destroy, Idle, Hears, Forwards
<1>3. CASE StopCore
  BY <1>3 DEF StopCore, Hears, Forwards
<1>4. CASE JoinCore
  <2>1. /\ call.at = "join" /\ call' = [at |-> call.then, then |-> "none"]
        /\ lib' = [lib EXCEPT !.up = FALSE, !.inner = FALSE, !.tempo = DefaultTempo]
        /\ UNCHANGED registry
        /\ heard' = IF lib.up THEN Told(heard, "up", "no") ELSE heard
    BY <1>4 DEF JoinCore
  <2>2. Hears' = Hears
    BY <2>1 DEF Hears, Forwards
  <2>3. /\ heard' \in [up : {"unknown", "yes", "no"}, tempo : Nat, late : BOOLEAN]
        /\ heard'.tempo = heard.tempo /\ heard'.late = heard.late
        /\ Hears => heard'.up = "no" \/ (~lib.up /\ heard' = heard)
    BY <2>1, ToldType
  <2>4. QED BY <2>1, <2>2, <2>3, TempiAreNat
<1>5. CASE FreeClient
  BY <1>5, TempiAreNat DEF FreeClient, NoLib, Hears, Forwards
<1>6. CASE DeleteRef
  BY <1>6 DEF DeleteRef, Leave, Hears, Forwards
<1> QED BY <1>1, <1>2, <1>3, <1>4, <1>5, <1>6

LEMMA CoreKnows ==
  ASSUME KnowsInv, CoreEvent \/ CoreReturns \/ CoreRuns \/ CoreEnds PROVE KnowsInv'
<1>1. UNCHANGED <<registry, call, heard>>
  BY DEF CoreEvent, CoreReturns, CoreRuns, CoreEnds
<1>2. \/ lib' = lib
      \/ \E t \in Tempi : lib' = [lib EXCEPT !.tempo = t]
      \/ lib' = [lib EXCEPT !.lost = TRUE]
  BY DEF CoreEvent, CoreReturns, CoreRuns, CoreEnds
<1>3. /\ lib' \in [alive : BOOLEAN, wired : BOOLEAN, up : BOOLEAN, inner : BOOLEAN, lost : BOOLEAN,
                     stop : BOOLEAN, tempo : Nat, reported : Nat]
      /\ lib'.wired = lib.wired /\ lib'.up = lib.up /\ lib'.reported = lib.reported
  <2>1. lib \in [alive : BOOLEAN, wired : BOOLEAN, up : BOOLEAN, inner : BOOLEAN, lost : BOOLEAN,
                 stop : BOOLEAN, tempo : Nat, reported : Nat]
    BY DEF KnowsInv, KnowsTypeOK
  <2>2. ASSUME NEW t \in Nat, lib' = [lib EXCEPT !.tempo = t] PROVE <1>3
    BY <2>1, <2>2
  <2>3. CASE lib' = [lib EXCEPT !.lost = TRUE]
    BY <2>1, <2>3
  <2> QED BY <1>2, <2>1, <2>2, <2>3, TempiAreNat
<1>4. KnowsTypeOK'
  BY <1>1, <1>3 DEF registry, KnowsInv, KnowsTypeOK
<1>5. AdapterFollows'
  BY <1>1, <1>3 DEF KnowsInv, AdapterFollows
<1>6. Knows'
  BY <1>1, <1>3 DEF registry, KnowsInv, Knows, Hears, Forwards
<1> QED BY <1>4, <1>5, <1>6 DEF KnowsInv

LEMMA KnowsStep == ASSUME KnowsInv, [EventsNext]_eventVars PROVE KnowsInv'
<1>1. CASE UNCHANGED eventVars
  BY <1>1 DEF eventVars, KnowsInv, KnowsTypeOK, AdapterFollows, Knows, Hears, Forwards
<1> QED
  BY <1>1, RegisteringKnows, TellingKnows, ConnectingKnows, StoppingKnows, CoreKnows DEF EventsNext

(* Between two calls the app's object knows whether the adapter is         *)
(* connected, and the tempo that the adapter holds for reported, for any   *)
(* tempos, and any number of objects that are registered, replaced and let *)
(* go of.                                                                  *)
THEOREM AppIsTold == EventsSpec => []AppKnows
<1>1. KnowsInv => AppKnows
  BY DEF KnowsInv, Knows, AppKnows, Idle
<1> QED BY <1>1, KnowsInitially, KnowsStep, PTL DEF EventsSpec
-----------------------------------------------------------------------------
(* The session archive (Archive).  A log is not added to after its end     *)
(* because an ended log is never the open one, and a log is opened in a    *)
(* folder that is new.  No name is built while the work dir changes: the   *)
(* place where a file is opened follows a look at the setting at once, and *)
(* the setting is off while the work dir changes.                          *)
Todo == {"look", "list", "save", "savevideo", "open"}
Guarded(todo) ==
  /\ todo \in Seq(Todo)
  /\ \A i \in 1 .. Len(todo) :
       /\ todo[i] = "open" => i = 1 \/ todo[i - 1] \in {"save", "savevideo"}
       /\ todo[i] = "look" => i + 1 \in 1 .. Len(todo) /\ todo[i + 1] = "list"

Desks == {"idle", "dir", "log", "video", "save", "novideo", "close", "end", "gone"}
DeskOK ==
  /\ archives \in Nat /\ archives <= MaxArchives /\ desk \in Desks /\ saving \in BOOLEAN
  /\ last \in [Folders -> {"none", "line", "end"}]
  /\ workdir \in 0 .. archives
  /\ logfile \in {NoFolder, workdir}
  /\ desk \in {"log", "video", "save"} => workdir = archives
  /\ saving => desk \in {"idle", "gone"}
  /\ desk = "dir" => workdir < archives
  /\ desk \in {"dir", "log", "end"} \/ (desk = "idle" /\ ~saving) => logfile = NoFolder
LogsOK ==
  /\ \A f \in Folders : last[f] = "end" => f # logfile
  /\ \A f \in Folders : f > archives \/ (f = archives /\ desk \in {"dir", "log"}) => last[f] = "none"
FilesOK == Guarded(net) /\ Guarded(audio)
NoNameMeanwhile == desk = "dir" => net = <<>> \/ Head(net) # "open"

ArchiveInv == DeskOK /\ LogsOK /\ FilesOK /\ NoNameMeanwhile

LEMMA HeadIsFirst ==
  ASSUME NEW S, NEW s \in Seq(S), Len(s) >= 1
  PROVE  s # <<>> /\ Head(s) = s[1]
  OBVIOUS

LEMMA TwoAndTwo ==
  ASSUME NEW S, NEW a \in Seq(S), NEW b \in Seq(S), Len(a) = 2, Len(b) = 2
  PROVE  /\ a \o b \in Seq(S) /\ Len(a \o b) = 4
         /\ (a \o b)[1] = a[1] /\ (a \o b)[2] = a[2]
         /\ (a \o b)[3] = b[1] /\ (a \o b)[4] = b[2]
<1>1. /\ a \o b \in Seq(S) /\ Len(a \o b) = Len(a) + Len(b)
      /\ \A i \in 1 .. Len(a) + Len(b) : (a \o b)[i] = IF i <= Len(a) THEN a[i] ELSE b[i - Len(a)]
  BY ConcatProperties, Zenon
<1>2. /\ Len(a \o b) = 4
      /\ \A i \in 1 .. 4 : (a \o b)[i] = IF i <= 2 THEN a[i] ELSE b[i - 2]
  BY <1>1
<1>3. QED BY <1>1, <1>2

LEMMA NothingGuarded == Guarded(<<>>)
  BY DEF Guarded

(* What is left when the first step, or the first two, are done.           *)
LEMMA TailGuarded ==
  ASSUME NEW todo, Guarded(todo), todo # <<>>
  PROVE  /\ Head(todo) = todo[1] /\ Head(todo) \in Todo
         /\ Guarded(Tail(todo))
         /\ Tail(todo) # <<>> /\ Head(Tail(todo)) = "open" => Head(todo) \in {"save", "savevideo"}
<1>1. todo \in Seq(Todo) /\ Len(todo) \in Nat /\ Len(todo) >= 1
  BY DEF Guarded
<1>2. /\ Head(todo) = todo[1] /\ Tail(todo) \in Seq(Todo) /\ Len(Tail(todo)) = Len(todo) - 1
      /\ \A i \in 1 .. Len(todo) - 1 : Tail(todo)[i] = todo[i + 1]
  BY <1>1
<1>3. Guarded(Tail(todo))
  <2>1. ASSUME NEW i \in 1 .. Len(Tail(todo))
        PROVE  /\ Tail(todo)[i] = "open" => i = 1 \/ Tail(todo)[i - 1] \in {"save", "savevideo"}
               /\ Tail(todo)[i] = "look" => i + 1 \in 1 .. Len(Tail(todo)) /\ Tail(todo)[i + 1] = "list"
    <3>1. i + 1 \in 1 .. Len(todo) /\ Tail(todo)[i] = todo[i + 1]
      BY <1>1, <1>2
    <3>2. Tail(todo)[i] = "open" /\ i # 1 => Tail(todo)[i - 1] \in {"save", "savevideo"}
      BY <1>1, <1>2, <3>1 DEF Guarded
    <3>3. Tail(todo)[i] = "look" => i + 1 \in 1 .. Len(Tail(todo)) /\ Tail(todo)[i + 1] = "list"
      BY <1>1, <1>2, <3>1 DEF Guarded
    <3>4. QED BY <3>2, <3>3
  <2>2. QED BY <1>2, <2>1 DEF Guarded
<1>4. ASSUME Tail(todo) # <<>>, Head(Tail(todo)) = "open"
      PROVE  Head(todo) \in {"save", "savevideo"}
  <2>1. 2 \in 1 .. Len(todo) /\ todo[2] = "open"
    BY <1>1, <1>2, <1>4
  <2>2. QED BY <1>2, <2>1 DEF Guarded
<1>5. Head(todo) \in Todo
  BY <1>1, <1>2
<1>6. QED BY <1>2, <1>3, <1>4, <1>5

LEMMA LookGuarded ==
  ASSUME NEW todo, Guarded(todo), todo # <<>>, Head(todo) = "look"
  PROVE  Guarded(Look(todo)) /\ (Look(todo) # <<>> => Head(Look(todo)) # "open")
<1>1. todo \in Seq(Todo) /\ Len(todo) \in Nat /\ 2 \in 1 .. Len(todo) /\ todo[2] = "list"
  <2>1. todo \in Seq(Todo) /\ Len(todo) \in Nat /\ Len(todo) >= 1
    BY DEF Guarded
  <2>2. 1 \in 1 .. Len(todo) /\ todo[1] = "look"
    BY <2>1, TailGuarded
  <2>3. 1 + 1 \in 1 .. Len(todo) /\ todo[1 + 1] = "list"
    BY <2>2 DEF Guarded
  <2>4. QED BY <2>1, <2>3
<1>2. Tail(todo) # <<>> /\ Head(Tail(todo)) = "list"
  <2>1. /\ Tail(todo) \in Seq(Todo) /\ Len(Tail(todo)) = Len(todo) - 1
        /\ \A i \in 1 .. Len(todo) - 1 : Tail(todo)[i] = todo[i + 1]
    BY <1>1
  <2>2. Len(Tail(todo)) >= 1 /\ Tail(todo)[1] = "list"
    BY <1>1, <2>1
  <2>3. QED BY <2>1, <2>2, HeadIsFirst
<1>3. Guarded(Tail(todo)) /\ Guarded(Tail(Tail(todo)))
  BY <1>2, TailGuarded
<1>4. Tail(Tail(todo)) # <<>> => Head(Tail(Tail(todo))) # "open"
  BY <1>2, <1>3, TailGuarded
<1>5. Look(todo) \in {Tail(todo), Tail(Tail(todo))}
  BY DEF Look
<1>6. QED BY <1>2, <1>3, <1>4, <1>5

LEMMA SavingGuarded ==
  ASSUME NEW kind \in {"local", "download", "video", "message"}
  PROVE  Guarded(Saving(kind)) /\ Head(Saving(kind)) # "open"
<1>1. CASE kind = "local"
  <2> DEFINE s == Saving(kind)
  <2> HIDE DEF s
  <2>1. /\ s \in Seq(Todo) /\ Len(s) = 4
        /\ s[1] = "look" /\ s[2] = "list" /\ s[3] = "save" /\ s[4] = "open"
    <3> DEFINE a == <<"look", "list">>  b == <<"save", "open">>
    <3>1. s = a \o b
      BY <1>1 DEF s, Saving, Listing
    <3>2. a \in Seq(Todo) /\ b \in Seq(Todo) /\ Len(a) = 2 /\ Len(b) = 2
      BY DEF Todo
    <3>3. a[1] = "look" /\ a[2] = "list" /\ b[1] = "save" /\ b[2] = "open"
      OBVIOUS
    <3> HIDE DEF a, b
    <3>4. QED BY <3>1, <3>2, <3>3, TwoAndTwo
  <2>2. Head(s) # "open"
    BY <2>1
  <2>3. ASSUME NEW i \in 1 .. 4
        PROVE  /\ s[i] = "open" => i = 1 \/ s[i - 1] \in {"save", "savevideo"}
               /\ s[i] = "look" => i + 1 \in 1 .. 4 /\ s[i + 1] = "list"
    <3>1. i \in {1, 2, 3, 4}
      OBVIOUS
    <3>2. QED BY <2>1, <3>1
  <2>4. QED BY <2>1, <2>2, <2>3 DEF Guarded, s
<1>2. CASE kind = "download"
  <2> DEFINE s == <<"save", "open">>
  <2>1. Saving(kind) = s
    BY <1>2 DEF Saving
  <2>2. s \in Seq(Todo) /\ Len(s) = 2 /\ Head(s) # "open"
    BY DEF Todo
  <2>3. ASSUME NEW i \in 1 .. 2
        PROVE  /\ s[i] = "open" => i = 1 \/ s[i - 1] \in {"save", "savevideo"}
               /\ s[i] = "look" => i + 1 \in 1 .. 2 /\ s[i + 1] = "list"
    <3>1. i \in {1, 2}
      OBVIOUS
    <3>2. QED BY <3>1
  <2>4. QED BY <2>1, <2>2, <2>3 DEF Guarded
<1>3. CASE kind = "video"
  <2> DEFINE s == Saving(kind)
  <2> HIDE DEF s
  <2>1. /\ s \in Seq(Todo) /\ Len(s) = 4
        /\ s[1] = "savevideo" /\ s[2] = "open" /\ s[3] = "look" /\ s[4] = "list"
    <3> DEFINE a == <<"savevideo", "open">>  b == <<"look", "list">>
    <3>1. s = a \o b
      BY <1>3 DEF s, Saving, Listing
    <3>2. a \in Seq(Todo) /\ b \in Seq(Todo) /\ Len(a) = 2 /\ Len(b) = 2
      BY DEF Todo
    <3>3. a[1] = "savevideo" /\ a[2] = "open" /\ b[1] = "look" /\ b[2] = "list"
      OBVIOUS
    <3> HIDE DEF a, b
    <3>4. QED BY <3>1, <3>2, <3>3, TwoAndTwo
  <2>2. Head(s) # "open"
    BY <2>1
  <2>3. ASSUME NEW i \in 1 .. 4
        PROVE  /\ s[i] = "open" => i = 1 \/ s[i - 1] \in {"save", "savevideo"}
               /\ s[i] = "look" => i + 1 \in 1 .. 4 /\ s[i + 1] = "list"
    <3>1. i \in {1, 2, 3, 4}
      OBVIOUS
    <3>2. QED BY <2>1, <3>1
  <2>4. QED BY <2>1, <2>2, <2>3 DEF Guarded, s
<1>4. CASE kind = "message"
  <2> DEFINE s == <<"look", "list">>
  <2>1. Saving(kind) = s
    BY <1>4 DEF Saving, Message, Listing
  <2>2. s \in Seq(Todo) /\ Len(s) = 2 /\ Head(s) # "open"
    BY DEF Todo
  <2>3. ASSUME NEW i \in 1 .. 2
        PROVE  /\ s[i] = "open" => i = 1 \/ s[i - 1] \in {"save", "savevideo"}
               /\ s[i] = "look" => i + 1 \in 1 .. 2 /\ s[i + 1] = "list"
    <3>1. i \in {1, 2}
      OBVIOUS
    <3>2. QED BY <3>1
  <2>4. QED BY <2>1, <2>2, <2>3 DEF Guarded
<1>5. QED BY <1>1, <1>2, <1>3, <1>4

LEMMA ArchiveInitially == ArchiveInit => ArchiveInv
<1> SUFFICES ASSUME ArchiveInit PROVE ArchiveInv
  OBVIOUS
<1>1. DeskOK
  <2>1. last \in [Folders -> {"none", "line", "end"}]
    BY DEF ArchiveInit
  <2>2. archives = 0 /\ workdir = 0 /\ logfile = 0 /\ desk = "idle" /\ saving = FALSE /\ MaxArchives \in Nat
    BY ArchiveAssumption DEF ArchiveInit, NoFolder
  <2>3. /\ archives \in Nat /\ archives <= MaxArchives /\ desk \in Desks
        /\ workdir \in 0 .. archives /\ logfile \in {NoFolder, workdir} /\ logfile = NoFolder
        /\ desk \notin {"dir", "log", "video", "save"}
    BY <2>2 DEF NoFolder, Desks
  <2>4. saving \in BOOLEAN /\ ~saving
    BY <2>2
  <2>5. QED BY <2>1, <2>3, <2>4 DEF DeskOK
<1>2. LogsOK
  BY ArchiveAssumption DEF ArchiveInit, LogsOK, Folders, NoFolder
<1>3. FilesOK /\ NoNameMeanwhile
  BY NothingGuarded DEF ArchiveInit, FilesOK, NoNameMeanwhile
<1>4. QED BY <1>1, <1>2, <1>3 DEF ArchiveInv

(* A line goes to the open log only.                                       *)
LEMMA LineAdds ==
  ASSUME DeskOK, LogsOK
  PROVE  /\ Line \in [Folders -> {"none", "line", "end"}]
         /\ \A f \in Folders : (Line[f] = "end" <=> last[f] = "end")
                               /\ (f # logfile => Line[f] = last[f])
  BY DEF DeskOK, LogsOK, Line

(* The app's calls.                                                        *)
LEMMA DeskKeeps ==
  ASSUME ArchiveInv, DeskSteps, Unhurried
  PROVE  ArchiveInv' /\ \A f \in Folders : last[f] = "end" => last'[f] = "end"
<1> DEFINE kept == \A f \in Folders : last[f] = "end" => last'[f] = "end"
<1> USE DEF DeskOK, LogsOK, NoNameMeanwhile
<1>0. DeskOK /\ LogsOK /\ NoNameMeanwhile /\ FilesOK'
  <2>1. net' = net /\ audio' = audio
    BY DEF threads, DeskSteps, StartArchive, SetWorkDir, OpenLog, SaveVideo,
       SaveAudio, StopArchive, StopVideo, CloseLog, AddEnd, EndClient
  <2>2. DeskOK /\ LogsOK /\ NoNameMeanwhile /\ FilesOK
    BY DEF ArchiveInv
  <2>3. FilesOK'
    BY <2>1, <2>2 DEF FilesOK
  <2>4. QED BY <2>2, <2>3
<1>1. CASE StartArchive
  <2>1. DeskOK'
    BY <1>0, <1>1, ArchiveAssumption DEF StartArchive, threads, Desks, Folders, NoFolder
  <2>2. LogsOK' /\ kept
    BY <1>0, <1>1, ArchiveAssumption DEF StartArchive, threads, Folders, NoFolder
  <2>3. NoNameMeanwhile'
    BY <1>0, <1>1 DEF StartArchive, threads, Unhurried
  <2>4. QED BY <1>0, <2>1, <2>2, <2>3 DEF ArchiveInv
<1>2. CASE SetWorkDir
  <2>1. DeskOK'
    BY <1>0, <1>2, ArchiveAssumption DEF SetWorkDir, threads, Desks, Folders, NoFolder
  <2>2. LogsOK' /\ kept
    BY <1>0, <1>2, ArchiveAssumption DEF SetWorkDir, threads, Folders, NoFolder
  <2>3. NoNameMeanwhile'
    BY <1>0, <1>2 DEF SetWorkDir, threads
  <2>4. QED BY <1>0, <2>1, <2>2, <2>3 DEF ArchiveInv
<1>3. CASE OpenLog
  <2>1. DeskOK'
    BY <1>0, <1>3, ArchiveAssumption DEF OpenLog, threads, Desks, Folders, NoFolder
  <2>2. LogsOK' /\ kept
    BY <1>0, <1>3, ArchiveAssumption DEF OpenLog, threads, Folders, NoFolder
  <2>3. NoNameMeanwhile'
    BY <1>0, <1>3 DEF OpenLog, threads
  <2>4. QED BY <1>0, <2>1, <2>2, <2>3 DEF ArchiveInv
<1>4. CASE SaveVideo \/ SaveAudio
  <2>1. DeskOK'
    <3>1. CASE SaveVideo
      BY <1>0, <3>1, ArchiveAssumption DEF SaveVideo, threads, Desks, Folders, NoFolder
    <3>2. CASE SaveAudio
      BY <1>0, <3>2, ArchiveAssumption DEF SaveAudio, threads, Desks, Folders, NoFolder
    <3>3. QED BY <1>4, <3>1, <3>2
  <2>2. LogsOK' /\ kept
    BY <1>0, <1>4, ArchiveAssumption DEF SaveVideo, SaveAudio, threads, Folders, NoFolder
  <2>3. NoNameMeanwhile'
    BY <1>0, <1>4 DEF SaveVideo, SaveAudio, threads
  <2>4. QED BY <1>0, <2>1, <2>2, <2>3 DEF ArchiveInv
<1>5. CASE StopArchive \/ StopVideo
  <2>1. DeskOK'
    <3>1. CASE StopArchive
      BY <1>0, <3>1, ArchiveAssumption DEF StopArchive, threads, Desks, Folders, NoFolder
    <3>2. CASE StopVideo
      BY <1>0, <3>2, ArchiveAssumption DEF StopVideo, threads, Desks, Folders, NoFolder
    <3>3. QED BY <1>5, <3>1, <3>2
  <2>2. LogsOK' /\ kept
    BY <1>0, <1>5, ArchiveAssumption DEF StopArchive, StopVideo, threads, Folders, NoFolder
  <2>3. NoNameMeanwhile'
    BY <1>0, <1>5 DEF StopArchive, StopVideo, threads
  <2>4. QED BY <1>0, <2>1, <2>2, <2>3 DEF ArchiveInv
<1>6. CASE CloseLog
  <2>1. DeskOK'
    BY <1>0, <1>6, ArchiveAssumption DEF CloseLog, threads, Desks, Folders, NoFolder
  <2>2. LogsOK' /\ kept
    BY <1>0, <1>6, ArchiveAssumption DEF CloseLog, threads, Folders, NoFolder
  <2>3. NoNameMeanwhile'
    BY <1>0, <1>6 DEF CloseLog, threads
  <2>4. QED BY <1>0, <2>1, <2>2, <2>3 DEF ArchiveInv
<1>7. CASE AddEnd
  <2>1. DeskOK'
    BY <1>0, <1>7, ArchiveAssumption DEF AddEnd, threads, Desks, Folders, NoFolder
  <2>2. LogsOK' /\ kept
    BY <1>0, <1>7, ArchiveAssumption DEF AddEnd, threads, Folders, NoFolder
  <2>3. NoNameMeanwhile'
    BY <1>0, <1>7 DEF AddEnd, threads
  <2>4. QED BY <1>0, <2>1, <2>2, <2>3 DEF ArchiveInv
<1>8. CASE EndClient
  <2>1. DeskOK'
    BY <1>0, <1>8, ArchiveAssumption DEF EndClient, threads, Desks, Folders, NoFolder
  <2>2. LogsOK' /\ kept
    BY <1>0, <1>8, ArchiveAssumption DEF EndClient, threads, Folders, NoFolder
  <2>3. NoNameMeanwhile'
    BY <1>0, <1>8 DEF EndClient, threads
  <2>4. QED BY <1>0, <2>1, <2>2, <2>3 DEF ArchiveInv
<1>9. QED BY <1>1, <1>2, <1>3, <1>4, <1>5, <1>6, <1>7, <1>8 DEF DeskSteps

(* The network thread and the audio thread.                                *)
LEMMA ThreadsKeep ==
  ASSUME ArchiveInv,
         \/ \E kind \in {"local", "download", "video", "message"} : BeginSaving(kind)
         \/ NetSaves \/ AudioLists \/ AudioWrites
  PROVE  ArchiveInv' /\ \A f \in Folders : last[f] = "end" => last'[f] = "end"
<1>1. /\ UNCHANGED <<desk, archives, saving, workdir, logfile>>
      /\ last' \in {last, Line}
  BY DEF BeginSaving, NetSaves, AudioLists, AudioWrites
<1>2. /\ DeskOK' /\ LogsOK'
      /\ \A f \in Folders : last[f] = "end" => last'[f] = "end"
  <2>1. /\ last' \in [Folders -> {"none", "line", "end"}]
        /\ \A f \in Folders : /\ last'[f] = "end" <=> last[f] = "end"
                              /\ f # logfile => last'[f] = last[f]
    BY <1>1, LineAdds DEF ArchiveInv, DeskOK
  <2>2. DeskOK'
    BY <1>1, <2>1 DEF ArchiveInv, DeskOK
  <2>3. \A f \in Folders : f > archives \/ (f = archives /\ desk \in {"dir", "log"}) => f # logfile
    BY DEF ArchiveInv, DeskOK, Folders, NoFolder
  <2>4. LogsOK'
    BY <1>1, <2>1, <2>3 DEF ArchiveInv, LogsOK
  <2>5. QED BY <2>1, <2>2, <2>4
<1>3. FilesOK' /\ NoNameMeanwhile'
  <2>1. ASSUME NEW kind \in {"local", "download", "video", "message"}, BeginSaving(kind)
        PROVE  FilesOK' /\ NoNameMeanwhile'
    BY <2>1, SavingGuarded DEF BeginSaving, ArchiveInv, FilesOK, NoNameMeanwhile
  <2>2. CASE NetSaves
    <3>1. net # <<>> /\ Guarded(net) /\ audio' = audio /\ Guarded(audio)
      BY <2>2 DEF NetSaves, ArchiveInv, FilesOK
    <3>2. CASE Head(net) = "look" /\ net' = Look(net)
      BY <3>1, <3>2, LookGuarded DEF FilesOK, NoNameMeanwhile
    <3>3. CASE Head(net) \in {"list", "open"} /\ net' = Tail(net)
      BY <3>1, <3>3, TailGuarded DEF FilesOK, NoNameMeanwhile
    <3>4. CASE /\ Head(net) \in {"save", "savevideo"}
               /\ net' = <<>> \/ (saving /\ net' = Tail(net))
      BY <1>1, <3>1, <3>4, TailGuarded, NothingGuarded
      DEF FilesOK, NoNameMeanwhile, ArchiveInv, DeskOK
    <3>5. QED BY <2>2, <3>2, <3>3, <3>4 DEF NetSaves
  <2>3. CASE AudioLists \/ AudioWrites
    <3>1. net' = net /\ desk' = desk /\ Guarded(net) /\ Guarded(audio)
      BY <2>3 DEF AudioLists, AudioWrites, ArchiveInv, FilesOK
    <3>2. Guarded(Listing)
      BY DEF Listing, Guarded, Todo
    <3>3. Guarded(audio')
      BY <2>3, <3>1, <3>2, TailGuarded, LookGuarded DEF AudioLists, AudioWrites
    <3>4. QED BY <3>1, <3>3 DEF ArchiveInv, FilesOK, NoNameMeanwhile
  <2>4. QED BY <2>1, <2>2, <2>3
<1>4. QED BY <1>2, <1>3 DEF ArchiveInv

LEMMA ArchiveStep ==
  ASSUME ArchiveInv, [ArchiveNext /\ Unhurried]_archiveVars
  PROVE  ArchiveInv' /\ \A f \in Folders : last[f] = "end" => last'[f] = "end"
<1>1. CASE UNCHANGED archiveVars
  BY <1>1 DEF archiveVars, ArchiveInv, DeskOK, LogsOK, FilesOK, NoNameMeanwhile
<1>2. QED BY <1>1, DeskKeeps, ThreadsKeep DEF ArchiveNext

(* No thread builds a file's name while startSessionArchive replaces the   *)
(* work dir, and no line is added to a log after its end, for any number of*)
(* archives, lines and intervals and any interleaving of the three threads,*)
(* as long as the app does not turn the archive off and on between a look  *)
(* at the setting and the file it is for.                                  *)
THEOREM ArchivesAreKept == ArchiveSpec => ArchiveKept
<1>1. ArchiveInit => ArchiveInv
  BY ArchiveInitially
<1>2. ArchiveInv /\ [ArchiveNext /\ Unhurried]_archiveVars => ArchiveInv'
  BY ArchiveStep
<1>3. ArchiveInv => (desk = "dir" => net = <<>> \/ Head(net) # "open")
  BY DEF ArchiveInv, NoNameMeanwhile
<1>4. ASSUME ArchiveInv, [ArchiveNext /\ Unhurried]_archiveVars
      PROVE  [\A f \in Folders : last[f] = "end" => last'[f] = "end"]_archiveVars
  BY <1>4, ArchiveStep
<1>5. QED BY <1>1, <1>2, <1>3, <1>4, PTL DEF ArchiveSpec, ArchiveKept
-----------------------------------------------------------------------------
(* What the encoder is fed (SessionRecorder).  The argument is about what  *)
(* the ring holds: read back from the writing position, the unread places  *)
(* are the last blocks that were published, all of this recording and all  *)
(* later than what the encoder was fed.  A ring whose writing position has *)
(* come round to the reading one looks empty and is full: Timely keeps it  *)
(* from that while the encode thread drains, and stop() still drains it.   *)

LEMMA PlacesAre == RingSize \in Nat /\ RingSize >= 2 /\ Places = 0 .. RingSize - 1
  BY RecorderAssumption DEF Places

LEMMA AfterIs ==
  ASSUME NEW p \in Places
  PROVE  After(p) \in Places /\ After(p) = IF p = RingSize - 1 THEN 0 ELSE p + 1
<1>1. p + 1 \in 1 .. RingSize
  BY PlacesAre
<1>2. (p + 1) % RingSize = IF p + 1 = RingSize THEN 0 ELSE p + 1
  BY <1>1, PlacesAre
<1>3. QED BY <1>1, <1>2, PlacesAre DEF After

LEMMA DifferenceIs ==
  ASSUME NEW a \in Places, NEW b \in Places
  PROVE  (a - b) % RingSize = IF a >= b THEN a - b ELSE a - b + RingSize
  BY PlacesAre

(* How many places were published since place p was.                       *)
Age(p) == IF p < ring.wp THEN ring.wp - 1 - p ELSE ring.wp - 1 - p + RingSize
(* The last block that was published, and how many of them are unread.     *)
LastOut == IF writer.at = "inside" THEN block - 1 ELSE block
Held == IF Unread = 0 /\ drain["app"].at = "feeding" THEN RingSize ELSE Unread

RingTypeOK ==
  /\ ring \in [at : [Places -> Int], wp : Places, rp : Places]
  /\ writer \in [at : {"away", "inside"}, wp : Places]
  /\ drain \in [Drainers -> [at : {"away", "feeding", "output"}, left : Int]]
  /\ {block, since, fed} \subseteq Int
  /\ errors \in Nat

(* What is unread, and what is being written.                              *)
RingHolds ==
  /\ writer.at = "inside" => writer.wp = ring.wp /\ ring.at[ring.wp] = block
  /\ \A p \in Places : Age(p) < Held => ring.at[p] = LastOut - Age(p)
  /\ since <= LastOut - Held
  /\ fed <= LastOut - Held

(* What a drain has left is there, and stop() leaves no more than the block*)
(* that was being written when it began.                                   *)
DrainsHold ==
  /\ drain["worker"].at = "feeding" => drain["worker"].left \in 1 .. Unread
  /\ worker \in {"loop", "draining"} /\ writer.at = "inside" => Unread + 2 <= RingSize
  /\ drain["app"].at = "feeding" =>
       /\ drain["app"].left \in 1 .. RingSize - 1
       /\ Held = drain["app"].left \/ (Held = drain["app"].left + 1 /\ writer.at = "away")
  /\ caller = "stop.drain" /\ drain["app"].at # "feeding" =>
       errors = MaxErrors \/ Unread = 0 \/ (Unread = 1 /\ writer.at = "away")

RingInv == RecorderInv /\ RingTypeOK /\ RingHolds /\ DrainsHold

RecordsThis ==
  /\ fed' # fed => fed' > fed /\ fed' > since
  /\ caller = "stop.drain" /\ caller' = "idle" /\ errors < MaxErrors =>
       \/ Unread = 0
       \/ ring.wp = After(ring.rp) /\ ring.at[ring.rp] = block

LEMMA UnreadIs ==
  ASSUME RingTypeOK
  PROVE  /\ Unread = IF ring.wp >= ring.rp THEN ring.wp - ring.rp ELSE ring.wp - ring.rp + RingSize
         /\ Unread \in 0 .. RingSize - 1
<1>1. ring.wp \in Places /\ ring.rp \in Places
  BY DEF RingTypeOK
<1>2. Unread = IF ring.wp >= ring.rp THEN ring.wp - ring.rp ELSE ring.wp - ring.rp + RingSize
  BY <1>1, DifferenceIs DEF Unread
<1>3. QED BY <1>1, <1>2, PlacesAre

(* A block more is written, and the others are one older.                  *)
LEMMA OneOlder ==
  ASSUME NEW w \in Places, NEW p \in Places, p # w, NEW then,
         then = IF w = RingSize - 1 THEN 0 ELSE w + 1,
         NEW age, age = IF p < w THEN w - 1 - p ELSE w - 1 - p + RingSize,
         NEW older, older = IF p < then THEN then - 1 - p ELSE then - 1 - p + RingSize
  PROVE  older = age + 1
  BY PlacesAre

LEMMA RingInitially == EngineInit => RingInv
<1> SUFFICES ASSUME EngineInit PROVE RingInv
  OBVIOUS
<1>1. RingTypeOK
  BY PlacesAre DEF EngineInit, RecorderInit, RingTypeOK, Drainers
<1>2. ring.wp = 0 /\ ring.rp = 0 /\ writer.at = "away" /\ block = 0 /\ since = 0 /\ fed = 0
      /\ drain["app"].at = "away" /\ drain["worker"].at = "away" /\ caller = "idle"
  BY DEF EngineInit, RecorderInit, Drainers
<1>3. Unread = 0 /\ Held = 0 /\ LastOut = 0
  BY <1>1, <1>2, UnreadIs DEF Held, LastOut
<1>4. \A p \in Places : Age(p) >= 0
  BY <1>2, PlacesAre DEF Age
<1>5. RingHolds
  BY <1>2, <1>3, <1>4, PlacesAre DEF RingHolds, Age
<1>6. DrainsHold
  BY <1>2, <1>3 DEF DrainsHold
<1>7. QED BY <1>1, <1>5, <1>6, RecorderInitially DEF RingInv

(* Steps that leave the ring, its writer and its drains alone.             *)
LEMMA RingElsewhere ==
  ASSUME RingInv, RecorderInv', UNCHANGED <<ring, writer, drain, errors, block, since, fed>>,
         worker' \in {"loop", "draining"} => worker \in {"loop", "draining"},
         caller' = "stop.drain" => caller = "stop.drain"
  PROVE  RingInv'
<1>1. RingTypeOK' /\ RingHolds'
  BY DEF RingInv, RingTypeOK, RingHolds, Age, LastOut, Held, Unread
<1>2. DrainsHold'
  BY DEF RingInv, DrainsHold, Held, Unread
<1>3. QED BY <1>1, <1>2 DEF RingInv

LEMMA WriteHolds ==
  ASSUME RingInv, RecorderInv', WriteBlock, Timely
  PROVE  RingInv'
<1>1. /\ writer.at = "away" /\ state = "RECORDING" /\ block' = block + 1
      /\ ring' = [ring EXCEPT !.at[ring.wp] = block + 1]
      /\ writer' = [at |-> "inside", wp |-> ring.wp]
      /\ UNCHANGED <<drain, worker, caller, errors, since, fed>>
  BY DEF WriteBlock
<1>2. RingTypeOK /\ RingHolds /\ DrainsHold
  BY DEF RingInv
<1>3. /\ ring.at \in [Places -> Int] /\ ring.wp \in Places /\ ring.rp \in Places
      /\ ring'.wp = ring.wp /\ ring'.rp = ring.rp /\ ring'.at = [ring.at EXCEPT ![ring.wp] = block + 1]
      /\ ring' \in [at : [Places -> Int], wp : Places, rp : Places]
      /\ block \in Int /\ since \in Int /\ fed \in Int
  BY <1>1, <1>2 DEF RingTypeOK
<1>4. RingTypeOK'
  BY <1>1, <1>2, <1>3 DEF RingTypeOK
<1>5. Unread' = Unread /\ Unread \in 0 .. RingSize - 1
  BY <1>2, <1>3, UnreadIs DEF Unread
<1>6. caller # "stop.drain" /\ drain["app"].at # "feeding"
  BY <1>1 DEF RingInv, RecorderInv
<1>7. Held = Unread /\ Held' = Unread /\ LastOut = block /\ LastOut' = block
  BY <1>1, <1>3, <1>5, <1>6 DEF Held, LastOut
<1>8. RingHolds'
  <2>1. \A p \in Places : Age(p)' = Age(p)
    BY <1>3 DEF Age
  <2>2. \A p \in Places : p # ring.wp => ring'.at[p] = ring.at[p]
    BY <1>3
  <2>3. Age(ring.wp) = RingSize - 1
    BY <1>3, PlacesAre DEF Age
  <2>4. ASSUME NEW p \in Places, Age(p)' < Held'
        PROVE  ring'.at[p] = LastOut' - Age(p)'
    <3>1. Age(p) < Held /\ p # ring.wp
      BY <1>5, <1>7, <2>1, <2>3, <2>4, PlacesAre
    <3>2. ring.at[p] = LastOut - Age(p)
      BY <1>2, <3>1 DEF RingHolds
    <3>3. QED BY <1>7, <2>1, <2>2, <3>1, <3>2
  <2>5. writer'.wp = ring'.wp /\ ring'.at[ring'.wp] = block'
    BY <1>1, <1>3
  <2>6. QED BY <1>1, <1>2, <1>7, <2>4, <2>5 DEF RingHolds
<1>9. DrainsHold'
  <2>1. worker # "ended" => Unread + 2 <= RingSize
    BY <1>1, <1>3 DEF Timely
  <2>2. QED BY <1>1, <1>2, <1>5, <1>6, <2>1 DEF DrainsHold
<1>10. QED BY <1>4, <1>8, <1>9 DEF RingInv

LEMMA PublishHolds ==
  ASSUME RingInv, RecorderInv', PublishBlock
  PROVE  RingInv'
<1>1. /\ writer.at = "inside" /\ ring' = [ring EXCEPT !.wp = After(writer.wp)]
      /\ writer' = [writer EXCEPT !.at = "away"]
      /\ UNCHANGED <<drain, worker, caller, errors, block, since, fed>>
  BY DEF PublishBlock
<1>2. RingTypeOK /\ RingHolds /\ DrainsHold
  BY DEF RingInv
<1>3. /\ ring.at \in [Places -> Int] /\ ring.wp \in Places /\ ring.rp \in Places
      /\ writer.wp = ring.wp /\ ring.at[ring.wp] = block
      /\ block \in Int /\ since \in Int /\ fed \in Int
      /\ drain["app"].left \in Int
  BY <1>1, <1>2 DEF RingTypeOK, RingHolds, Drainers
<1>4. /\ ring'.wp = After(ring.wp) /\ ring'.rp = ring.rp /\ ring'.at = ring.at
      /\ ring' \in [at : [Places -> Int], wp : Places, rp : Places]
      /\ writer'.at = "away"
      /\ After(ring.wp) \in Places
      /\ After(ring.wp) = IF ring.wp = RingSize - 1 THEN 0 ELSE ring.wp + 1
  BY <1>1, <1>2, <1>3, AfterIs DEF RingTypeOK
<1>5. RingTypeOK'
  BY <1>1, <1>2, <1>4 DEF RingTypeOK
<1>6. Unread \in 0 .. RingSize - 1 /\ Unread' = IF Unread = RingSize - 1 THEN 0 ELSE Unread + 1
  <2>1. Unread = IF ring.wp >= ring.rp THEN ring.wp - ring.rp ELSE ring.wp - ring.rp + RingSize
    BY <1>2, UnreadIs
  <2>2. Unread' = IF ring'.wp >= ring.rp THEN ring'.wp - ring.rp ELSE ring'.wp - ring.rp + RingSize
    BY <1>4, <1>5, UnreadIs, DifferenceIs DEF Unread
  <2> DEFINE w    == ring.wp
             r    == ring.rp
             then == ring'.wp
             u    == Unread
             more == Unread'
  <2>3. w \in Places /\ r \in Places /\ then = IF w = RingSize - 1 THEN 0 ELSE w + 1
    BY <1>3, <1>4
  <2>4. /\ u = IF w >= r THEN w - r ELSE w - r + RingSize
        /\ more = IF then >= r THEN then - r ELSE then - r + RingSize
    BY <2>1, <2>2
  <2> HIDE DEF w, r, then, u, more
  <2>5. u \in 0 .. RingSize - 1 /\ more = IF u = RingSize - 1 THEN 0 ELSE u + 1
    BY <2>3, <2>4, PlacesAre
  <2>6. QED BY <2>5 DEF u, more
<1>7. LastOut = block - 1 /\ LastOut' = block
  BY <1>1, <1>4 DEF LastOut
<1>8. /\ Held \in 0 .. RingSize /\ Held' \in 0 .. RingSize
      /\ Held' <= Held + 1
      /\ drain["app"].at = "feeding" => Held = drain["app"].left /\ Held' = Held + 1
  <2>1. CASE drain["app"].at = "feeding"
    <3>1. Held = drain["app"].left /\ Held >= 1
      BY <1>1, <1>2, <2>1 DEF DrainsHold
    <3>2. Held = IF Unread = 0 THEN RingSize ELSE Unread
      BY <2>1 DEF Held
    <3>3. Held' = IF Unread' = 0 THEN RingSize ELSE Unread'
      BY <1>1, <2>1 DEF Held
    <3>4. drain["app"].left \in 1 .. RingSize - 1
      BY <1>2, <2>1 DEF DrainsHold
    <3>5. Unread # 0
      <4>1. RingSize # drain["app"].left
        BY <3>4, RecorderAssumption
      <4>2. QED BY <3>1, <3>2, <4>1
    <3>6. QED BY <1>6, <3>1, <3>2, <3>3, <3>5, PlacesAre
  <2>2. CASE drain["app"].at # "feeding"
    BY <1>1, <1>6, <2>2, PlacesAre DEF Held
  <2>3. QED BY <2>1, <2>2
<1>9. RingHolds'
  <2>1. ASSUME NEW p \in Places, p # ring.wp PROVE Age(p)' = Age(p) + 1
    <3>1. Age(p) = IF p < ring.wp THEN ring.wp - 1 - p ELSE ring.wp - 1 - p + RingSize
      BY DEF Age
    <3>2. Age(p)' = IF p < ring'.wp THEN ring'.wp - 1 - p ELSE ring'.wp - 1 - p + RingSize
      BY DEF Age
    <3>3. QED BY <1>3, <1>4, <2>1, <3>1, <3>2, OneOlder
  <2>2. \A p \in Places : p = ring.wp => Age(p)' = 0
    BY <1>3, <1>4, PlacesAre DEF Age
  <2>3. \A p \in Places : Age(p) \in Int
    BY <1>3, PlacesAre DEF Age
  <2>4. ASSUME NEW p \in Places, Age(p)' < Held'
        PROVE  ring'.at[p] = LastOut' - Age(p)'
    <3>1. CASE p = ring.wp
      BY <1>3, <1>4, <1>7, <2>2, <3>1
    <3>2. CASE p # ring.wp
      BY <1>2, <1>3, <1>4, <1>7, <1>8, <2>1, <2>3, <2>4, <3>2 DEF RingHolds
    <3>3. QED BY <3>1, <3>2
  <2>5. since' <= LastOut' - Held' /\ fed' <= LastOut' - Held'
    BY <1>1, <1>2, <1>3, <1>7, <1>8 DEF RingHolds
  <2>6. QED BY <1>4, <2>4, <2>5 DEF RingHolds
<1>10. DrainsHold'
  <2>1. drain["worker"].at = "feeding" => drain["worker"].left \in 1 .. Unread'
    <3>1. ASSUME drain["worker"].at = "feeding" PROVE worker = "draining"
      BY <3>1 DEF RingInv, RecorderInv
    <3>2. drain["worker"].at = "feeding" => Unread + 2 <= RingSize /\ drain["worker"].left \in 1 .. Unread
      BY <1>1, <1>2, <3>1 DEF DrainsHold
    <3>3. QED BY <1>6, <3>2, PlacesAre
  <2>2. drain["app"].at = "feeding" => /\ drain["app"].left \in 1 .. RingSize - 1
                                       /\ Held' = drain["app"].left + 1
    BY <1>1, <1>2, <1>8 DEF DrainsHold
  <2>3. caller = "stop.drain" /\ drain["app"].at # "feeding" => errors = MaxErrors \/ Unread' \in {0, 1}
    BY <1>1, <1>2, <1>6, PlacesAre DEF DrainsHold
  <2>4. QED BY <1>1, <1>4, <2>1, <2>2, <2>3 DEF DrainsHold
<1>11. QED BY <1>5, <1>9, <1>10 DEF RingInv

(* A drain takes the block that has waited longest.                        *)
LEMMA TakesHold ==
  ASSUME RingInv, RecorderInv', NEW t \in Drainers, Feed(t)
  PROVE  RingInv' /\ (fed' # fed => fed' > fed /\ fed' > since)
<1>1. /\ drain[t].at = "feeding"
      /\ UNCHANGED <<writer, worker, caller, block, since>>
  BY DEF Feed
<1>2. RingTypeOK /\ RingHolds /\ DrainsHold
  BY DEF RingInv
<1>3. /\ ring.at \in [Places -> Int] /\ ring.wp \in Places /\ ring.rp \in Places
      /\ block \in Int /\ since \in Int /\ fed \in Int /\ errors \in Nat
      /\ \A x \in Drainers : drain[x].left \in Int
      /\ LastOut \in Int
  BY <1>1, <1>2 DEF RingTypeOK, LastOut
<1>4. /\ Unread = IF ring.wp >= ring.rp THEN ring.wp - ring.rp ELSE ring.wp - ring.rp + RingSize
      /\ Unread \in 0 .. RingSize - 1
  BY <1>2, UnreadIs
<1>5. (t = "worker" => worker = "draining" /\ drain["app"].at = "away") /\ (t = "app" => drain["worker"].at = "away")
  BY <1>1 DEF RingInv, RecorderInv, Drainers
<1>6. CASE /\ errors' = MaxErrors
           /\ drain' = [drain EXCEPT ![t] = [at |-> "away", left |-> 0]]
           /\ UNCHANGED <<ring, fed>>
  <2>1. RingTypeOK'
    BY <1>1, <1>2, <1>6, RecorderAssumption DEF RingTypeOK
  <2>2. Unread' = Unread /\ LastOut' = LastOut /\ \A p \in Places : Age(p)' = Age(p)
    BY <1>1, <1>6 DEF Unread, LastOut, Age
  <2>3. /\ drain'[t].at = "away"
        /\ \A x \in Drainers : x # t => drain'[x] = drain[x]
    BY <1>2, <1>6 DEF RingTypeOK
  <2>4. drain'["app"].at = "away" /\ drain'["worker"].at = "away"
    BY <1>5, <2>3 DEF Drainers
  <2>5. Held' = Unread /\ Held \in Int /\ Unread <= Held
    BY <1>4, <2>2, <2>4, PlacesAre DEF Held
  <2>6. RingHolds'
    <3>1. \A p \in Places : Age(p) \in Int
      BY <1>3, PlacesAre DEF Age
    <3>2. \A p \in Places : Age(p)' < Held' => ring'.at[p] = LastOut' - Age(p)'
      BY <1>2, <1>4, <1>6, <2>2, <2>5, <3>1 DEF RingHolds
    <3>3. since' <= LastOut' - Held' /\ fed' <= LastOut' - Held'
      BY <1>1, <1>2, <1>3, <1>4, <1>6, <2>2, <2>5 DEF RingHolds
    <3>4. QED BY <1>1, <1>2, <1>6, <3>2, <3>3 DEF RingHolds
  <2>7. DrainsHold'
    BY <1>1, <1>2, <1>6, <2>2, <2>4 DEF DrainsHold
  <2>8. QED BY <1>6, <2>1, <2>6, <2>7 DEF RingInv
<1>7. CASE /\ errors' \in Nat
           /\ fed' = ring.at[ring.rp]
           /\ ring' = [ring EXCEPT !.rp = After(@)]
           /\ drain' = [drain EXCEPT ![t] =
                [at |-> IF drain[t].left - 1 = 0 THEN "output" ELSE "feeding", left |-> drain[t].left - 1]]
  <2>1. /\ ring'.rp = After(ring.rp) /\ ring'.wp = ring.wp /\ ring'.at = ring.at
        /\ ring' \in [at : [Places -> Int], wp : Places, rp : Places]
        /\ After(ring.rp) \in Places
        /\ After(ring.rp) = IF ring.rp = RingSize - 1 THEN 0 ELSE ring.rp + 1
    BY <1>2, <1>3, <1>7, AfterIs DEF RingTypeOK
  <2>2. /\ drain'[t].at = IF drain[t].left = 1 THEN "output" ELSE "feeding"
        /\ drain'[t].left = drain[t].left - 1
        /\ \A x \in Drainers : x # t => drain'[x] = drain[x]
    BY <1>2, <1>3, <1>7 DEF RingTypeOK
  <2>3. RingTypeOK'
    <3>1. drain' \in [Drainers -> [at : {"away", "feeding", "output"}, left : Int]]
      BY <1>2, <1>3, <1>7 DEF RingTypeOK
    <3>2. fed' \in Int /\ errors' \in Nat
      BY <1>3, <1>7
    <3>3. QED BY <1>1, <1>2, <2>1, <3>1, <3>2 DEF RingTypeOK
  <2>4. LastOut' = LastOut /\ \A p \in Places : Age(p)' = Age(p) /\ Age(p) \in Int
    <3>1. LastOut' = LastOut
      BY <1>1 DEF LastOut
    <3>2. ASSUME NEW p \in Places PROVE Age(p)' = Age(p) /\ Age(p) \in Int
      <4>1. Age(p)' = Age(p)
        BY <2>1 DEF Age
      <4>2. p \in Int /\ ring.wp \in Int /\ RingSize \in Int
        BY <1>3, PlacesAre
      <4>3. QED BY <4>1, <4>2 DEF Age
    <3>3. QED BY <3>1, <3>2
  <2>5. /\ Held \in 1 .. RingSize /\ drain[t].left \in 1 .. Held
        /\ Held = IF Unread = 0 THEN RingSize ELSE Unread
    <3>1. CASE t = "worker"
      <4>1. drain[t].left \in 1 .. Unread
        BY <1>1, <1>2, <3>1 DEF DrainsHold
      <4>2. Held = Unread
        BY <1>5, <3>1 DEF Held
      <4>3. Unread \in 1 .. RingSize - 1
        BY <1>3, <1>4, <4>1
      <4>4. QED BY <4>1, <4>2, <4>3, PlacesAre
    <3>2. CASE t = "app"
      <4>1. drain[t].left \in 1 .. RingSize - 1
            /\ (Held = drain[t].left \/ Held = drain[t].left + 1)
        BY <1>1, <1>2, <3>2 DEF DrainsHold
      <4>2. Held = IF Unread = 0 THEN RingSize ELSE Unread
        BY <1>1, <3>2 DEF Held
      <4>3. QED BY <1>3, <1>4, <4>1, <4>2, PlacesAre
    <3>3. QED BY <3>1, <3>2 DEF Drainers
  <2>6. Unread' = Held - 1
    <3>1. Unread' = IF ring.wp >= ring'.rp THEN ring.wp - ring'.rp ELSE ring.wp - ring'.rp + RingSize
      BY <2>1, <2>3, UnreadIs, DifferenceIs DEF Unread
    <3> DEFINE w    == ring.wp
               r    == ring.rp
               then == ring'.rp
               u    == Unread
               less == Unread'
    <3>2. w \in Places /\ r \in Places /\ then = IF r = RingSize - 1 THEN 0 ELSE r + 1
      BY <1>3, <2>1
    <3>3. /\ u = IF w >= r THEN w - r ELSE w - r + RingSize
          /\ less = IF w >= then THEN w - then ELSE w - then + RingSize
      BY <1>4, <3>1
    <3> HIDE DEF w, r, then, u, less
    <3>4. less = (IF u = 0 THEN RingSize ELSE u) - 1
      BY <3>2, <3>3, PlacesAre
    <3>5. Held = IF u = 0 THEN RingSize ELSE u
      BY <2>5 DEF u
    <3>6. QED BY <3>4, <3>5 DEF less
  <2>7. Held' = Held - 1
    <3>1. CASE Unread' # 0
      BY <2>6, <3>1 DEF Held
    <3>2. CASE Unread' = 0
      <4>1. Held = 1 /\ drain[t].left = 1
        BY <2>5, <2>6, <3>2
      <4>2. drain'[t].at = "output" /\ drain'["app"].at # "feeding"
        BY <1>5, <2>2, <4>1 DEF Drainers
      <4>3. QED BY <2>6, <4>2 DEF Held
    <3>3. QED BY <3>1, <3>2
  <2>8. Age(ring.rp) = Held - 1
    BY <1>3, <1>4, <2>5, PlacesAre DEF Age
  <2>9. fed' = LastOut - Held + 1
    BY <1>2, <1>3, <1>7, <2>5, <2>8 DEF RingHolds
  <2>10. RingHolds'
    <3>1. \A p \in Places : Age(p)' < Held' => ring'.at[p] = LastOut' - Age(p)'
      BY <1>2, <2>1, <2>4, <2>5, <2>7 DEF RingHolds
    <3>2. since' <= LastOut' - Held' /\ fed' <= LastOut' - Held'
      BY <1>1, <1>2, <1>3, <2>4, <2>5, <2>7, <2>9 DEF RingHolds
    <3>3. QED BY <1>1, <1>2, <2>1, <3>1, <3>2 DEF RingHolds
  <2>11. DrainsHold'
    <3>1. CASE t = "worker"
      <4>1. drain'["app"].at = "away" /\ Held = Unread /\ caller # "stop.drain"
        BY <1>5, <2>2, <3>1 DEF Held, Drainers, RingInv, RecorderInv
      <4>2. drain'["worker"].at = "feeding" => drain'["worker"].left \in 1 .. Unread'
        BY <1>1, <1>2, <1>3, <2>2, <2>5, <2>6, <3>1 DEF DrainsHold
      <4>3. worker \in {"loop", "draining"} /\ writer.at = "inside" => Unread' + 2 <= RingSize
        BY <1>2, <1>4, <2>6, <4>1, PlacesAre DEF DrainsHold
      <4>4. QED BY <1>1, <4>1, <4>2, <4>3 DEF DrainsHold
    <3>2. CASE t = "app"
      <4>1. drain'["worker"].at = "away" /\ worker = "none"
        BY <1>1, <1>5, <2>2, <3>2 DEF Drainers, RingInv, RecorderInv
      <4>2. Held = drain["app"].left \/ (Held = drain["app"].left + 1 /\ writer.at = "away")
        BY <1>1, <1>2, <3>2 DEF DrainsHold
      <4>3. drain["app"].left \in 1 .. RingSize - 1
        BY <1>1, <1>2, <3>2 DEF DrainsHold
      <4>4. drain'["app"].at = "feeding" =>
              /\ drain'["app"].left \in 1 .. RingSize - 1
              /\ Held' = drain'["app"].left \/ (Held' = drain'["app"].left + 1 /\ writer.at = "away")
        <5>1. /\ drain'["app"].left = drain["app"].left - 1 /\ drain["app"].left \in Int
              /\ drain'["app"].at = "feeding" => drain["app"].left # 1
          BY <1>3, <2>2, <3>2
        <5>2. drain'["app"].at = "feeding" => drain'["app"].left \in 1 .. RingSize - 1
          BY <4>3, <5>1, PlacesAre
        <5>3. Held' = drain'["app"].left \/ (Held' = drain'["app"].left + 1 /\ writer.at = "away")
          BY <2>5, <2>7, <4>2, <5>1
        <5>4. QED BY <5>2, <5>3
      <4>5. drain'["app"].at # "feeding" => Unread' = 0 \/ (Unread' = 1 /\ writer.at = "away")
        BY <2>2, <2>5, <2>6, <3>2, <4>2, <4>3, PlacesAre
      <4>6. QED BY <1>1, <4>1, <4>4, <4>5 DEF DrainsHold
    <3>3. QED BY <3>1, <3>2 DEF Drainers
  <2>12. fed' > fed /\ fed' > since
    BY <1>2, <1>3, <2>5, <2>9 DEF RingHolds
  <2>13. QED BY <2>3, <2>10, <2>11, <2>12 DEF RingInv
<1>8. QED
  <2>1. CASE errors + 1 >= MaxErrors /\ errors' = MaxErrors
             /\ drain' = [drain EXCEPT ![t] = [at |-> "away", left |-> 0]] /\ UNCHANGED <<ring, fed>>
    BY <1>6, <2>1
  <2>2. CASE errors' \in FeedEncoder /\ errors' < MaxErrors
             /\ fed' = ring.at[ring.rp] /\ ring' = [ring EXCEPT !.rp = After(@)]
             /\ drain' = [drain EXCEPT ![t] =
                  [at |-> IF drain[t].left - 1 = 0 THEN "output" ELSE "feeding", left |-> drain[t].left - 1]]
    <3>1. errors' \in Nat
      BY <1>3, <2>2 DEF FeedEncoder
    <3>2. QED BY <1>7, <2>2, <3>1
  <2>3. QED BY <2>1, <2>2 DEF Feed

(* The last of a drain, and nothing else of what is unread, changes.       *)
LEMMA OutputHolds ==
  ASSUME RingInv, RecorderInv', NEW t \in Drainers, DrainOutput(t)
  PROVE  RingInv'
<1>1. /\ drain[t].at = "output" /\ drain' = [drain EXCEPT ![t].at = "away"]
      /\ UNCHANGED <<ring, writer, worker, caller, errors, block, since, fed>>
  BY DEF DrainOutput
<1>2. RingTypeOK /\ RingHolds /\ DrainsHold
  BY DEF RingInv
<1>3. RingTypeOK'
  BY <1>1, <1>2 DEF RingTypeOK
<1>4. \A x \in Drainers : (drain'[x].at = "feeding" <=> drain[x].at = "feeding")
                           /\ (x # t => drain'[x] = drain[x])
  BY <1>1, <1>2 DEF RingTypeOK
<1>5. Unread' = Unread /\ Held' = Held /\ LastOut' = LastOut /\ \A p \in Places : Age(p)' = Age(p)
  BY <1>1, <1>4 DEF Unread, Held, LastOut, Age, Drainers
<1>6. RingHolds'
  BY <1>1, <1>2, <1>5 DEF RingHolds
<1>7. \A x \in Drainers : drain'[x].at = "feeding" => drain'[x] = drain[x]
  BY <1>1, <1>4
<1>8. DrainsHold'
  BY <1>1, <1>2, <1>4, <1>5, <1>7 DEF DrainsHold, Drainers
<1>9. QED BY <1>3, <1>6, <1>8 DEF RingInv

LEMMA BeginsWithUnread ==
  ASSUME RingTypeOK, NEW t \in Drainers, BeginDrain(t), codec # "none", state # "IDLE"
  PROVE  /\ drain'[t].at = IF Unread = 0 THEN "away" ELSE "feeding"
         /\ drain'[t].left = Unread
         /\ \A x \in Drainers : x # t => drain'[x] = drain[x]
         /\ drain' \in [Drainers -> [at : {"away", "feeding", "output"}, left : Int]]
<1>1. Unread \in Int
  BY UnreadIs
<1>2. drain' = [drain EXCEPT ![t] = [at |-> IF Unread = 0 THEN "away" ELSE "feeding", left |-> Unread]]
  BY DEF BeginDrain
<1>3. drain \in [Drainers -> [at : {"away", "feeding", "output"}, left : Int]]
  BY DEF RingTypeOK
<1>4. QED BY <1>1, <1>2, <1>3

LEMMA BeginningHolds ==
  ASSUME RingInv, RecorderInv', NEW t \in Drainers, BeginDrain(t), codec # "none", state # "IDLE",
         drain["app"].at # "feeding",
         UNCHANGED <<ring, writer, errors, block, since, fed>>,
         worker' \in {"loop", "draining"} => worker \in {"loop", "draining"},
         t = "worker" => caller' = caller
  PROVE  RingInv'
<1>1. RingTypeOK /\ RingHolds /\ DrainsHold
  BY DEF RingInv
<1>2. /\ drain'[t].at = IF Unread = 0 THEN "away" ELSE "feeding"
      /\ drain'[t].left = Unread
      /\ \A x \in Drainers : x # t => drain'[x] = drain[x]
      /\ drain' \in [Drainers -> [at : {"away", "feeding", "output"}, left : Int]]
  BY <1>1, BeginsWithUnread
<1>3. RingTypeOK'
  BY <1>1, <1>2 DEF RingTypeOK
<1>4. Unread' = Unread /\ LastOut' = LastOut /\ (\A p \in Places : Age(p)' = Age(p))
      /\ Unread \in 0 .. RingSize - 1
  BY <1>1, UnreadIs DEF Unread, LastOut, Age
<1>5. Held = Unread /\ Held' = Unread
  BY <1>2, <1>4 DEF Held, Drainers
<1>6. RingHolds'
  BY <1>1, <1>4, <1>5 DEF RingHolds
<1>7. DrainsHold'
  <2>1. CASE t = "worker"
    <3>1. drain'["app"] = drain["app"]
      BY <1>2, <2>1 DEF Drainers
    <3>2. drain'["worker"].at = "feeding" => drain'["worker"].left \in 1 .. Unread
      BY <1>2, <1>4, <2>1
    <3>3. QED BY <1>1, <1>4, <2>1, <3>1, <3>2 DEF DrainsHold
  <2>2. CASE t = "app"
    <3>1. drain'["worker"] = drain["worker"]
      BY <1>2, <2>2 DEF Drainers
    <3>2. /\ drain'["app"].at = "feeding" => drain'["app"].left \in 1 .. RingSize - 1
                                             /\ Held' = drain'["app"].left
          /\ drain'["app"].at # "feeding" => Unread = 0
      BY <1>2, <1>4, <1>5, <2>2
    <3>3. QED BY <1>1, <1>4, <2>2, <3>1, <3>2 DEF DrainsHold
  <2>3. QED BY <2>1, <2>2 DEF Drainers
<1>8. QED BY <1>3, <1>6, <1>7 DEF RingInv

(* A recording that does not start resets the errors only.                 *)
LEMMA StartFailsHolds ==
  ASSUME RingInv, RecorderInv', caller = "idle", caller' = "idle", errors' = 0,
         UNCHANGED <<ring, writer, drain, block, since, fed, worker>>
  PROVE  RingInv'
<1>1. RingTypeOK' /\ RingHolds'
  BY DEF RingInv, RingTypeOK, RingHolds, Age, LastOut, Held, Unread
<1>2. DrainsHold'
  BY DEF RingInv, DrainsHold, Held, Unread
<1>3. QED BY <1>1, <1>2 DEF RingInv

(* A recording begins with an empty ring and no callback in writeSamples.  *)
LEMMA StartHolds ==
  ASSUME RingInv, RecorderInv', StartRecording, Timely
  PROVE  RingInv'
<1>1. CASE UNCHANGED <<ring, state, worker, since>>
  BY <1>1, StartFailsHolds DEF StartRecording
<1>2. CASE /\ ring' = EmptyRing /\ state' = "RECORDING" /\ worker' = "loop" /\ since' = block
  <2>1. RingTypeOK /\ RingHolds /\ DrainsHold
    BY DEF RingInv
  <2>2. /\ caller = "idle" /\ caller' = "idle" /\ state = "IDLE" /\ errors' = 0
        /\ UNCHANGED <<writer, drain, block, fed>>
    BY DEF StartRecording
  <2>3. writer.at = "away"
    BY <1>2, <2>2 DEF Timely
  <2>4. drain["app"].at = "away" /\ drain["worker"].at = "away"
    BY <2>2 DEF RingInv, RecorderInv, RingTypeOK, Drainers
  <2>5. /\ ring' \in [at : [Places -> Int], wp : Places, rp : Places]
        /\ ring'.wp = 0 /\ ring'.rp = 0
    <3>1. 0 \in Places /\ ring \in [at : [Places -> Int], wp : Places, rp : Places]
      BY <2>1, PlacesAre DEF RingTypeOK
    <3>2. QED BY <1>2, <3>1 DEF EmptyRing
  <2>6. RingTypeOK'
    BY <1>2, <2>1, <2>2, <2>5 DEF RingTypeOK
  <2>7. Unread' = 0 /\ Held' = 0 /\ LastOut' = block /\ LastOut = block /\ block \in Int
    <3>1. Unread' = 0
      BY <2>5, PlacesAre, DifferenceIs DEF Unread
    <3>2. QED BY <2>1, <2>2, <2>3, <2>4, <3>1 DEF Held, LastOut, RingTypeOK
  <2>8. fed <= block
    <3>1. Unread \in 0 .. RingSize - 1 /\ Held = Unread /\ fed \in Int
      BY <2>1, <2>4, UnreadIs DEF Held, RingTypeOK
    <3>2. QED BY <2>1, <2>7, <3>1, PlacesAre DEF RingHolds
  <2>9. \A p \in Places : Age(p)' \in Nat
    BY <2>5, PlacesAre DEF Age
  <2>10. RingHolds'
    BY <1>2, <2>2, <2>3, <2>7, <2>8, <2>9 DEF RingHolds
  <2>11. DrainsHold'
    BY <2>2, <2>3, <2>4 DEF DrainsHold
  <2>12. QED BY <2>6, <2>10, <2>11 DEF RingInv
<1>3. QED BY <1>1, <1>2 DEF StartRecording

(* A step of the encode thread, of a recorder's call, and of the rest.     *)
LEMMA RingStep ==
  ASSUME RingInv, [AndroidNext /\ Timely]_androidVars
  PROVE  RingInv' /\ (fed' # fed => fed' > fed /\ fed' > since)
<1>0. RecorderInv /\ RecorderInv'
  BY RecorderStep DEF RingInv
<1>1. CASE UNCHANGED androidVars
  BY <1>0, <1>1, RingElsewhere DEF androidVars, recorderVars
<1>2. CASE EncodeThread
  <2>1. CASE Loop /\ running
    <3>1. /\ worker = "loop" /\ worker' = "draining" /\ BeginDrain("worker")
          /\ UNCHANGED <<ring, writer, errors, block, since, fed, caller>>
      BY <2>1 DEF Loop, GoesOn
    <3>2. codec # "none" /\ state # "IDLE" /\ drain["app"].at # "feeding"
      BY <1>0, <3>1 DEF RecorderInv
    <3>3. QED BY <1>0, <3>1, <3>2, BeginningHolds DEF Drainers
  <2>2. CASE (Loop /\ ~running) \/ Sleep
    BY <1>0, <2>2, RingElsewhere DEF Loop, GoesOn, Sleep
  <2>3. CASE Feed("worker")
    BY <1>0, <2>3, TakesHold DEF Drainers
  <2>4. CASE DrainOutput("worker")
    <3>1. fed' = fed
      BY <2>4 DEF DrainOutput
    <3>2. QED BY <1>0, <2>4, <3>1, OutputHolds DEF Drainers
  <2>5. QED BY <1>2, <2>1, <2>2, <2>3, <2>4 DEF EncodeThread, Worker
<1>3. CASE AppCalls /\ Timely
  <2>1. CASE StartRecording
    <3>1. fed' = fed
      BY <2>1 DEF StartRecording
    <3>2. QED BY <1>0, <1>3, <2>1, <3>1, StartHolds
  <2>2. CASE StopRecording \/ Save \/ GiveUp("discard.join") \/ Discard
    BY <1>0, <2>2, RingElsewhere DEF StopRecording, Save, GiveUp, Discard, DiscardFile
  <2>3. QED BY <1>3, <2>1, <2>2 DEF AppCalls
<1>4. CASE AppInside
  <2>1. CASE StopJoined
    <3>1. /\ caller = "stop.join" /\ worker' = "none" /\ BeginDrain("app")
          /\ UNCHANGED <<ring, writer, errors, block, since, fed>>
      BY <2>1 DEF StopJoined
    <3>2. codec # "none" /\ state # "IDLE" /\ drain["app"].at # "feeding"
      BY <1>0, <3>1 DEF RecorderInv, Joining
    <3>3. QED BY <1>0, <3>1, <3>2, BeginningHolds DEF Drainers
  <2>2. CASE Feed("app")
    BY <1>0, <2>2, TakesHold DEF Drainers
  <2>3. CASE DrainOutput("app")
    <3>1. fed' = fed
      BY <2>3 DEF DrainOutput
    <3>2. QED BY <1>0, <2>3, <3>1, OutputHolds DEF Drainers
  <2>4. CASE StopFinish \/ DiscardJoined
    BY <1>0, <2>4, RingElsewhere DEF StopFinish, DiscardJoined, DiscardFile
  <2>5. QED BY <1>4, <2>1, <2>2, <2>3, <2>4 DEF AppInside
<1>5. CASE CreateEngine \/ StartEngine \/ StopEngine \/ DestroyEngine \/ EngineInside
  <2>1. next \in {"idle", "start.output", "destroy"}
    BY <1>0 DEF RecorderInv
  <2>2. UNCHANGED <<ring, writer, drain, errors, block, since, fed>>
    BY <1>5 DEF CreateEngine, StartEngine, StopEngine, DestroyEngine, EngineInside, OpenOutput, OpenInput,
       StartOutput, StartFails, CloseInput, CloseOutput, DestroyRecorder, DestroyJoined, EngineStop, AppAt,
       recorderVars
  <2>3. worker' \in {worker, "none"}
    BY <1>5 DEF CreateEngine, StartEngine, StopEngine, DestroyEngine, EngineInside, OpenOutput, OpenInput,
       StartOutput, StartFails, CloseInput, CloseOutput, DestroyRecorder, DestroyJoined, EngineStop, AppAt,
       recorderVars
  <2>4. caller' = "stop.drain" => caller = "stop.drain"
    BY <1>5, <2>1 DEF CreateEngine, StartEngine, StopEngine, DestroyEngine, EngineInside, OpenOutput, OpenInput,
       StartOutput, StartFails, CloseInput, CloseOutput, DestroyRecorder, DestroyJoined, EngineStop, AppAt,
       recorderVars
  <2>5. QED BY <1>0, <2>2, <2>3, <2>4, RingElsewhere
<1>6. CASE (AudioThread \/ DeviceLost) /\ Timely
  <2>1. CASE WriteBlock
    <3>1. fed' = fed
      BY <2>1 DEF WriteBlock
    <3>2. QED BY <1>0, <1>6, <2>1, <3>1, WriteHolds
  <2>2. CASE PublishBlock
    <3>1. fed' = fed
      BY <2>2 DEF PublishBlock
    <3>2. QED BY <1>0, <2>2, <3>1, PublishHolds
  <2>3. CASE UNCHANGED recorderVars
    BY <1>0, <2>3, RingElsewhere DEF recorderVars
  <2>4. QED BY <1>6, <2>1, <2>2, <2>3 DEF AudioThread, CallbackBegins, ReadInput, Tap, TapDone, DeviceLost
<1>7. QED BY <1>1, <1>2, <1>3, <1>4, <1>5, <1>6 DEF AndroidNext, AppThread

(* stop() goes back to idle from its drain in StopFinish only.             *)
LEMMA StopTakesAll ==
  ASSUME RingInv, [AndroidNext /\ Timely]_androidVars,
         caller = "stop.drain", caller' = "idle", errors < MaxErrors
  PROVE  Unread = 0 \/ (ring.wp = After(ring.rp) /\ ring.at[ring.rp] = block)
<1>1. RingTypeOK /\ RingHolds /\ DrainsHold
  BY DEF RingInv
<1>2. drain["app"].at = "away"
  <2>1. StopFinish
    BY DEF AndroidNext, androidVars, recorderVars, AudioThread, CallbackBegins, ReadInput, Tap, TapDone,
       WriteBlock, PublishBlock, DeviceLost, EncodeThread, Worker, Loop, Sleep, Feed, DrainOutput,
       AppThread, CreateEngine, StartEngine, StopEngine, DestroyEngine, EngineInside, OpenOutput, OpenInput,
       StartOutput, StartFails, CloseInput, CloseOutput, DestroyRecorder, DestroyJoined, AppCalls,
       StartRecording, StopRecording, Save, GiveUp, Discard, AppInside, StopJoined, DiscardJoined
  <2>2. QED BY <2>1 DEF StopFinish
<1>3. errors # MaxErrors
  BY <1>1, RecorderAssumption DEF RingTypeOK
<1>4. Unread = 0 \/ (Unread = 1 /\ writer.at = "away")
  BY <1>1, <1>2, <1>3 DEF DrainsHold
<1>5. ASSUME Unread = 1, writer.at = "away"
      PROVE  ring.wp = After(ring.rp) /\ ring.at[ring.rp] = block
  <2>1. ring.wp \in Places /\ ring.rp \in Places /\ block \in Int
    BY <1>1 DEF RingTypeOK
  <2>2. Unread = IF ring.wp >= ring.rp THEN ring.wp - ring.rp ELSE ring.wp - ring.rp + RingSize
    BY <1>1, UnreadIs
  <2>3. ring.wp = IF ring.rp = RingSize - 1 THEN 0 ELSE ring.rp + 1
    BY <1>5, <2>1, <2>2, PlacesAre
  <2>4. ring.wp = After(ring.rp)
    BY <2>1, <2>3, AfterIs
  <2>5. Age(ring.rp) = 0
    BY <2>1, <2>3, PlacesAre DEF Age
  <2>6. Held = 1 /\ LastOut = block
    BY <1>2, <1>5 DEF Held, LastOut
  <2>7. ring.at[ring.rp] = block
    BY <1>1, <2>1, <2>5, <2>6 DEF RingHolds
  <2>8. QED BY <2>4, <2>7
<1>6. QED BY <1>4, <1>5

(* The encoder is fed the recording: every block at most once, in order and*)
(* none of an earlier recording, and when stop() returns nothing is missing*)
(* that had been written when it was called, unless the encoder failed; for*)
(* any ring, any number of blocks and recordings and any interleaving, as  *)
(* long as the encode thread is not a ring behind and no callback is       *)
(* stopped from one recording into the next (Timely).                      *)
THEOREM RecordingIsAll == TimelySpec => RecordsAll
<1>1. EngineInit => RingInv
  BY RingInitially
<1>2. RingInv /\ [AndroidNext /\ Timely]_androidVars => RingInv'
  BY RingStep
<1>3. ASSUME RingInv, [AndroidNext /\ Timely]_androidVars
      PROVE  [RecordsThis]_recorderVars
  BY <1>3, RingStep, StopTakesAll DEF RecordsThis
<1>4. QED BY <1>1, <1>2, <1>3, PTL DEF TimelySpec, RecordsAll, RecordsThis
=============================================================================
