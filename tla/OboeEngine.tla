------------------------------ MODULE OboeEngine ------------------------------
(***************************************************************************)
(* The audio engine of the Android app (OboeEngine.cpp, OboeCallback.cpp)  *)
(* around its SessionRecorder: the app thread opens and closes an output   *)
(* and an input stream, the output stream's callback, on the audio thread, *)
(* reads the microphone through a plain pointer and writes what is heard   *)
(* to the recorder.  Oboe is external: opening and starting a stream may   *)
(* fail, closing the output waits for its callback, and a device may go    *)
(* away, which closes the output.                                          *)
(***************************************************************************)
EXTENDS SessionRecorder

CONSTANT MaxOpens   \* bound: engine starts in a run

ASSUME EngineAssumption == MaxOpens \in Nat

VARIABLES
  engine,     \* no OboeEngine, or its m_running
  output,     \* m_outputStream
  input,      \* m_inputStream
  pointer,    \* the callback's m_inputStream: none, that stream, or one that is gone
  callback,   \* the audio thread inside onAudioReady
  next,       \* what the app thread does when the streams are closed
  opens       \* engine starts

engineVars == <<engine, output, input, pointer, callback, next, opens>>
androidVars == <<recorderVars, engineVars>>

EngineTypeOK ==
  /\ engine \in {"none", "stopped", "running"}
  /\ output \in {"none", "open", "started", "dead"}
  /\ input \in {"none", "started"}
  /\ pointer \in {"none", "valid", "gone"}
  /\ callback \in {"away", "input", "tap", "inside"}
  /\ next \in {"idle", "start.output", "destroy"}

EngineInit ==
  /\ RecorderInit
  /\ engine = "none" /\ output = "none" /\ input = "none" /\ pointer = "none"
  /\ callback = "away" /\ next = "idle" /\ opens = 0

AppAt(place) == caller' = place /\ UNCHANGED <<state, running, ring, codec, temp, files, writer,
                                             worker, drain, errors, starts, block, since, fed>>
-----------------------------------------------------------------------------
(* The app thread: start().                                                *)

CreateEngine ==
  /\ caller = "idle" /\ engine = "none"
  /\ engine' = "stopped" /\ pointer' = "none"
  /\ UNCHANGED <<recorderVars, output, input, callback, next, opens>>

(* stop(), up to the streams; start() stops a running engine first.        *)
EngineStop(then) ==
  /\ engine' = "stopped" /\ pointer' = "none" /\ next' = then
  /\ AppAt("close.input")
  /\ UNCHANGED <<output, input, callback, opens>>

StartEngine ==
  /\ caller = "idle" /\ engine # "none"
  /\ opens < MaxOpens
  /\ IF engine = "running"
       THEN EngineStop("start.output")
       ELSE AppAt("start.output") /\ UNCHANGED engineVars

OpenOutput ==
  /\ caller = "start.output"
  /\ opens' = opens + 1
  /\ \/ output' = "open" /\ AppAt("start.input")
     \/ UNCHANGED output /\ AppAt("idle")
  /\ UNCHANGED <<engine, input, pointer, callback, next>>

(* Without a microphone the engine goes on; the output is not started yet, *)
(* so there is no callback.                                                *)
OpenInput ==
  /\ caller = "start.input"
  /\ \/ input' = "started" /\ pointer' = "valid"
     \/ input' = "none" /\ pointer' = "none"       \* it opened, but did not start
     \/ UNCHANGED <<input, pointer>>               \* it did not open
  /\ AppAt("start.run")
  /\ UNCHANGED <<engine, output, callback, next, opens>>

StartOutput ==
  /\ caller = "start.run"
  /\ output' = "started" /\ engine' = "running"
  /\ AppAt("idle")
  /\ UNCHANGED <<input, pointer, callback, next, opens>>

(* The pointer of the callback is left as it is.                           *)
FailedStreamsMutant == UNCHANGED <<input, output, pointer>>
FailedStreams ==
  /\ input' = "none" /\ output' = "none"
  /\ pointer' = IF pointer = "valid" THEN "gone" ELSE pointer

StartFails ==
  /\ caller = "start.run"
  /\ FailedStreams
  /\ AppAt("idle")
  /\ UNCHANGED <<engine, callback, next, opens>>
-----------------------------------------------------------------------------
(* The app thread: stop() and the destructor.                              *)

StopEngine == caller = "idle" /\ engine = "running" /\ EngineStop("idle")

CloseInput ==
  /\ caller = "close.input"
  /\ input' = "none"
  /\ AppAt("close.output")
  /\ UNCHANGED <<engine, output, pointer, callback, next, opens>>

CloseOutput ==
  /\ caller = "close.output"
  /\ callback = "away"
  /\ output' = "none"
  /\ AppAt(next)
  /\ UNCHANGED <<engine, input, pointer, callback, next, opens>>

DestroyEngine ==
  /\ caller = "idle" /\ engine # "none"
  /\ IF engine = "running" THEN EngineStop("destroy")
                           ELSE AppAt("destroy") /\ UNCHANGED engineVars

(* The members go, the recorder first.  Its file stays where it is.        *)
DestroyRecorder ==
  /\ caller = "destroy"
  /\ IF state = "RECORDING"
       THEN running' = FALSE /\ caller' = "destroy.join" /\ UNCHANGED engine
       ELSE caller' = "idle" /\ engine' = "none" /\ UNCHANGED running
  /\ temp' = IF state = "RECORDING" THEN temp ELSE 0
  /\ UNCHANGED <<state, ring, codec, files, writer, worker, drain, errors, starts, block, since,
                 fed, output, input, pointer, callback, next, opens>>

DestroyJoined ==
  /\ caller = "destroy.join" /\ Joined
  /\ files' = Finished(files, codec)
  /\ worker' = "none" /\ codec' = "none" /\ state' = "IDLE"
  /\ caller' = "idle" /\ engine' = "none" /\ temp' = 0
  /\ UNCHANGED <<running, ring, writer, drain, errors, starts, block, since, fed,
                 output, input, pointer, callback, next, opens>>
-----------------------------------------------------------------------------
(* The audio thread: onAudioReady.                                         *)

CallbackBegins ==
  /\ output = "started" /\ callback = "away"
  /\ callback' = IF pointer = "none" THEN "tap" ELSE "input"
  /\ UNCHANGED <<recorderVars, engine, output, input, pointer, next, opens>>

ReadInput ==
  /\ callback = "input"
  /\ callback' = "tap"
  /\ UNCHANGED <<recorderVars, engine, output, input, pointer, next, opens>>

(* The recording tap, if there is a recording.                             *)
Tap ==
  /\ callback = "tap"
  /\ IF state = "RECORDING" /\ block < MaxBlocks
       THEN WriteBlock /\ callback' = "inside"
       ELSE UNCHANGED recorderVars /\ callback' = "away"
  /\ UNCHANGED <<engine, output, input, pointer, next, opens>>

TapDone ==
  /\ callback = "inside" /\ PublishBlock
  /\ callback' = "away"
  /\ UNCHANGED <<engine, output, input, pointer, next, opens>>

(* onErrorAfterClose: the device went away.  Nothing restarts the engine.  *)
DeviceLost ==
  /\ output = "started" /\ callback = "away"
  /\ output' = "dead"
  /\ UNCHANGED <<recorderVars, engine, input, pointer, callback, next, opens>>
-----------------------------------------------------------------------------
AudioThread == CallbackBegins \/ ReadInput \/ Tap \/ TapDone
EncodeThread == Worker /\ UNCHANGED engineVars
EngineInside == \/ OpenOutput \/ OpenInput \/ StartOutput \/ StartFails
                \/ CloseInput \/ CloseOutput \/ DestroyRecorder \/ DestroyJoined
AppThread == \/ CreateEngine \/ StartEngine \/ StopEngine \/ DestroyEngine
             \/ EngineInside
             \/ (engine # "none" /\ (AppCalls \/ AppInside) /\ UNCHANGED engineVars)

AndroidNext == AudioThread \/ EncodeThread \/ AppThread \/ DeviceLost

AndroidSpec == EngineInit /\ [][AndroidNext]_androidVars
(* Threads run, and a callback returns.                                    *)
AndroidFairness ==
  /\ WF_androidVars(EncodeThread)
  /\ WF_androidVars(EngineInside)
  /\ WF_androidVars(AppInside /\ UNCHANGED engineVars)
  /\ WF_androidVars(ReadInput \/ Tap \/ TapDone)
FairAndroidSpec == AndroidSpec /\ AndroidFairness

(* The engine and its recorder where the threads are scheduled in time.    *)
TimelySpec == EngineInit /\ [][AndroidNext /\ Timely]_androidVars
-----------------------------------------------------------------------------
(* Properties.                                                             *)

(* An engine that does not run, in or after any start that failed, any     *)
(* lost device and any stop, holds no stream, and no callback runs that    *)
(* could still use the recorder.                                           *)
QuietWhenStopped ==
  engine # "running" /\ caller \notin {"close.input", "close.output", "start.input", "start.run"}
    => output = "none" /\ input = "none" /\ callback = "away"

(* "Non-fatal: user can still hear remote audio without mic": an engine    *)
(* that runs without an input stream hands none to its callback.           *)
MicIsOptional == engine = "running" /\ input = "none" => pointer = "none"
=============================================================================
