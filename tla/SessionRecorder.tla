--------------------------- MODULE SessionRecorder ---------------------------
(***************************************************************************)
(* Recording the session on Android (SessionRecorder.cpp): the audio       *)
(* thread writes into a ring, a thread of its own feeds the ring to an AAC *)
(* encoder, and the app starts, stops, saves and discards recordings.      *)
(* Nothing is locked: state, m_encodeRunning and the two ring positions    *)
(* are atomics, everything else belongs to whoever may touch it then.      *)
(*                                                                         *)
(* The ring holds blocks, one per call of writeSamples, numbered as they   *)
(* are written over all recordings; a chunk of the encoder is one block.   *)
(* The codec and the muxer are external: the codec takes a block or        *)
(* refuses it, and its format, with which the muxer starts, may come out   *)
(* at any time it is asked for output.                                     *)
(***************************************************************************)
EXTENDS Integers

CONSTANTS RingSize,       \* RING_BUFFER_SIZE, in blocks
          MaxErrors,      \* MAX_CONSECUTIVE_ERRORS
          MaxBlocks,      \* bound: blocks written in a run
          MaxRecordings   \* bound: recordings started in a run

ASSUME RecorderAssumption ==
  /\ RingSize \in Nat \ {0, 1} /\ MaxErrors \in Nat \ {0}
  /\ MaxBlocks \in Nat /\ MaxRecordings \in Nat

VARIABLES
  state,      \* m_state
  running,    \* m_encodeRunning
  ring,       \* m_ringL and m_ringR, m_writePos, m_readPos
  codec,      \* is there an m_codec, and its m_muxer
  temp,       \* m_tempFilePath: a name, 0 for none
  files,      \* what is on disk under each temporary name
  writer,     \* the audio thread inside writeSamples
  worker,     \* the encode thread
  caller,     \* the app thread: the call it is in
  drain,      \* drainRingBuffer of the encode thread and of stop()
  errors,     \* m_consecutiveErrors, at most MaxErrors
  starts,     \* recordings started
  block,      \* history: the last block written
  since,      \* history: the last block before this recording
  fed         \* history: the last block the codec took or refused

recorderVars == <<state, running, ring, codec, temp, files, writer, worker, caller, drain,
                  errors, starts, block, since, fed>>

Places   == 0 .. RingSize - 1
Names    == 1 .. MaxRecordings
Drainers == {"worker", "app"}
After(p) == (p + 1) % RingSize
Unread   == (ring.wp - ring.rp) % RingSize

RecorderTypeOK ==
  /\ state \in {"IDLE", "RECORDING", "STOPPING"}
  /\ running \in BOOLEAN
  /\ ring \in [at : [Places -> 0 .. MaxBlocks], wp : Places, rp : Places]
  /\ codec \in {"none", "open", "muxing"}
  /\ temp \in Names \union {0}
  /\ files \in [Names -> {"absent", "open", "complete", "empty"}]
  /\ writer \in [at : {"away", "inside"}, wp : Places]
  /\ worker \in {"none", "loop", "draining", "ended"}
  /\ drain \in [Drainers -> [at : {"away", "feeding", "output"}, left : Places]]
  /\ errors \in 0 .. MaxErrors
  /\ {block, since, fed} \subseteq 0 .. MaxBlocks

RecorderInit ==
  /\ state = "IDLE" /\ running = FALSE
  /\ ring = [at |-> [p \in Places |-> 0], wp |-> 0, rp |-> 0]
  /\ codec = "none" /\ temp = 0
  /\ files = [n \in Names |-> "absent"]
  /\ writer = [at |-> "away", wp |-> 0]
  /\ worker = "none" /\ caller = "idle"
  /\ drain = [t \in Drainers |-> [at |-> "away", left |-> 0]]
  /\ errors = 0 /\ starts = 0
  /\ block = 0 /\ since = 0 /\ fed = 0
-----------------------------------------------------------------------------
(* The audio thread: writeSamples.  There is no check of what is unread.   *)

WriteBlock ==
  /\ writer.at = "away" /\ state = "RECORDING"
  /\ block < MaxBlocks
  /\ block' = block + 1
  /\ ring' = [ring EXCEPT !.at[ring.wp] = block + 1]
  /\ writer' = [at |-> "inside", wp |-> ring.wp]
  /\ UNCHANGED <<state, running, codec, temp, files, worker, caller, drain, errors, starts, since, fed>>

PublishBlock ==
  /\ writer.at = "inside"
  /\ ring' = [ring EXCEPT !.wp = After(writer.wp)]
  /\ writer' = [writer EXCEPT !.at = "away"]
  /\ UNCHANGED <<state, running, codec, temp, files, worker, caller, drain, errors, starts,
                 block, since, fed>>
-----------------------------------------------------------------------------
(* drainRingBuffer, of the encode thread or of stop().  It takes what is   *)
(* unread when it begins, block by block.                                  *)

(* Changed: only the encode thread drains, stop() does not.                *)
BeginDrainMutant(t) ==
  LET left == IF codec = "none" \/ t = "app" THEN 0 ELSE Unread
  IN drain' = [drain EXCEPT ![t] = [at |-> IF left = 0 THEN "away" ELSE "feeding", left |-> left]]
BeginDrain(t) ==
  LET left == IF codec = "none" \/ state = "IDLE" THEN 0 ELSE Unread
  IN drain' = [drain EXCEPT ![t] = [at |-> IF left = 0 THEN "away" ELSE "feeding", left |-> left]]

(* drainEncoder: with the first output comes the format, and the muxer     *)
(* starts, unless it cannot add the track.                                 *)
Output(c) == IF c = "open" THEN {"open", "muxing"} ELSE {c}

(* feedEncoder takes the next block piece by piece, as the codec has       *)
(* buffers, or gives up on what is left of it: an error more in a row.     *)
FeedEncoder == {0, errors + 1}

(* After MaxErrors in a row the drain ends there, and the encode thread    *)
(* with it.                                                                *)
Feed(t) ==
  /\ drain[t].at = "feeding"
  /\ codec' \in Output(codec)
  /\ \/ /\ errors' \in FeedEncoder
        /\ errors' < MaxErrors
        /\ fed' = ring.at[ring.rp]
        /\ ring' = [ring EXCEPT !.rp = After(@)]
        /\ LET left == drain[t].left - 1 IN
           drain' = [drain EXCEPT ![t] =
             [at |-> IF left = 0 THEN "output" ELSE "feeding", left |-> left]]
        /\ UNCHANGED running
     \/ /\ errors + 1 >= MaxErrors /\ errors' = MaxErrors
        /\ running' = FALSE
        /\ drain' = [drain EXCEPT ![t] = [at |-> "away", left |-> 0]]
        /\ UNCHANGED <<ring, fed>>
  /\ UNCHANGED <<state, temp, files, writer, worker, caller, starts, block, since>>

DrainOutput(t) ==
  /\ drain[t].at = "output"
  /\ codec' \in Output(codec)
  /\ drain' = [drain EXCEPT ![t].at = "away"]
  /\ UNCHANGED <<state, running, ring, temp, files, writer, worker, caller, errors, starts,
                 block, since, fed>>
-----------------------------------------------------------------------------
(* The encode thread: encodeLoop.                                          *)

GoesOnMutant == state # "IDLE"    \* the state in place of m_encodeRunning
GoesOn == running

Loop ==
  /\ worker = "loop"
  /\ IF GoesOn THEN worker' = "draining" /\ BeginDrain("worker")
                ELSE worker' = "ended" /\ UNCHANGED drain
  /\ UNCHANGED <<state, running, ring, codec, temp, files, writer, caller, errors, starts,
                 block, since, fed>>

Sleep ==
  /\ worker = "draining" /\ drain["worker"].at = "away"
  /\ worker' = "loop"
  /\ UNCHANGED <<state, running, ring, codec, temp, files, writer, caller, drain, errors, starts,
                 block, since, fed>>

Worker == Loop \/ Sleep \/ Feed("worker") \/ DrainOutput("worker")
-----------------------------------------------------------------------------
(* The app's calls.                                                        *)

(* start(): the temporary file is named after the second, so two starts    *)
(* within one second share a name and the second one truncates the file.   *)
(* The encoder may fail to come up, before or after the file is made.      *)
TempNames == {n \in Names : n = temp \/ \A m \in Names : m >= n => files[m] = "absent" /\ m # temp}

(* setupEncoder: when there is no codec, or it does not start, or the file *)
(* cannot be opened, nothing is left behind; without a muxer, the file is. *)
SetupFails(n) == {files, [files EXCEPT ![n] = "empty"]}

EmptyRingMutant == ring
EmptyRing == [ring EXCEPT !.wp = 0, !.rp = 0]

StartRecording ==
  /\ caller = "idle" /\ state = "IDLE"
  /\ starts < MaxRecordings /\ starts' = starts + 1
  /\ errors' = 0
  /\ \E n \in TempNames :
       /\ temp' = n
       /\ \/ /\ codec' = "open" /\ files' = [files EXCEPT ![n] = "open"]
             /\ ring' = EmptyRing
             /\ state' = "RECORDING" /\ running' = TRUE /\ worker' = "loop"
             /\ since' = block
          \/ /\ files' \in SetupFails(n)
             /\ UNCHANGED <<codec, ring, state, running, worker, since>>
  /\ UNCHANGED <<writer, caller, drain, block, fed>>

(* stop(): no more samples, the thread is joined, then what is left.       *)
StopRecording ==
  /\ caller = "idle" /\ state = "RECORDING"
  /\ state' = "STOPPING" /\ running' = FALSE
  /\ caller' = "stop.join"
  /\ UNCHANGED <<ring, codec, temp, files, writer, worker, drain, errors, starts, block, since, fed>>

JoinedMutant == TRUE
Joined == worker = "ended"

StopJoined ==
  /\ caller = "stop.join" /\ Joined
  /\ worker' = "none"
  /\ caller' = "stop.drain"
  /\ BeginDrain("app")
  /\ UNCHANGED <<state, running, ring, codec, temp, files, writer, errors, starts, block, since, fed>>

(* teardownEncoder: a muxer that never started leaves an empty file.       *)
Finished(f, c) ==
  IF temp = 0 \/ c = "none" THEN f
  ELSE [f EXCEPT ![temp] = IF c = "muxing" THEN "complete" ELSE "empty"]

(* The end of the stream goes to the codec, whose last output is taken if  *)
(* it is there.                                                            *)
StopFinish ==
  /\ caller = "stop.drain" /\ drain["app"].at = "away"
  /\ \E c \in Output(codec) : files' = Finished(files, c)
  /\ codec' = "none"
  /\ state' = "IDLE" /\ caller' = "idle"
  /\ UNCHANGED <<running, ring, temp, writer, worker, drain, errors, starts, block, since, fed>>

(* save(): renames the temporary file, if it is there.                     *)
Save ==
  /\ caller = "idle" /\ temp # 0
  /\ files[temp] # "absent"
  /\ files' = [files EXCEPT ![temp] = "absent"]
  /\ temp' = 0
  /\ UNCHANGED <<state, running, ring, codec, writer, worker, caller, drain, errors, starts,
                 block, since, fed>>

(* discard(), and the destructor: a recording that goes on is given up.    *)
GiveUp(call) ==
  /\ caller = "idle" /\ state = "RECORDING"
  /\ running' = FALSE
  /\ caller' = call
  /\ UNCHANGED <<state, ring, codec, temp, files, writer, worker, drain, errors, starts,
                 block, since, fed>>

DiscardFile ==
  /\ files' = IF temp = 0 THEN files ELSE [files EXCEPT ![temp] = "absent"]
  /\ temp' = 0

DiscardJoined ==
  /\ caller = "discard.join" /\ Joined
  /\ worker' = "none" /\ codec' = "none"
  /\ state' = "IDLE" /\ caller' = "idle"
  /\ DiscardFile
  /\ UNCHANGED <<running, ring, writer, drain, errors, starts, block, since, fed>>

Discard ==
  /\ caller = "idle" /\ state # "RECORDING" /\ temp # 0
  /\ DiscardFile
  /\ UNCHANGED <<state, running, ring, codec, writer, worker, caller, drain, errors, starts,
                 block, since, fed>>

AppCalls == StartRecording \/ StopRecording \/ Save \/ GiveUp("discard.join") \/ Discard
AppInside == StopJoined \/ Feed("app") \/ DrainOutput("app") \/ StopFinish \/ DiscardJoined
(* The scheduling the recorder relies on: no callback is stopped halfway   *)
(* for as long as a recording takes to end and another one to begin, and   *)
(* the encode thread, which looks every few milliseconds into a ring of two*)
(* seconds, is never a whole ring behind.                                  *)
Timely ==
  /\ state = "IDLE" /\ state' = "RECORDING" => writer.at = "away"
  /\ block' # block /\ worker # "ended" => Unread + 2 <= RingSize
-----------------------------------------------------------------------------
(* Properties.                                                             *)

(* The comments give the ring's reading side, the codec and the muxer to   *)
(* the encode thread: the app thread drains, finishes and tears them down  *)
(* only when that thread has ended, and nobody drains without a codec.     *)
CodecExclusive ==
  /\ \A t \in Drainers : drain[t].at # "away" => codec # "none"
  /\ worker \in {"loop", "draining"} => codec # "none" /\ drain["app"].at = "away"

(* What the encoder is fed, and so the file, is the recording: each block  *)
(* at most once, in the order it was played, and none of an earlier        *)
(* recording, although the audio thread may write while recordings stop    *)
(* and start.  And it is all of it ("Final drain"): unless the encoder     *)
(* fails, nothing that had been written when stop() was called is missing; *)
(* only a write that was under way may be.                                 *)
RecordsAll ==
  [][ /\ fed' # fed => fed' > fed /\ fed' > since
      /\ caller = "stop.drain" /\ caller' = "idle" /\ errors < MaxErrors =>
           \/ Unread = 0
           \/ ring.wp = After(ring.rp) /\ ring.at[ring.rp] = block]_recorderVars

(* stop() and discard() return, also while the audio thread goes on: the   *)
(* thread they wait for sees m_encodeRunning, and takes only what was      *)
(* unread when it began.                                                   *)
StopReturns == caller \in {"stop.join", "stop.drain", "discard.join"} ~> caller = "idle"
=============================================================================
