------------------------------ MODULE MCClient ------------------------------
(***************************************************************************)
(* The parts of the client that share nothing with the others, for TLC:    *)
(* the message formats, the interval clock, the numbers of the local       *)
(* channels, the users with the calls about them, the stream of an encoder,*)
(* and the mixing of a block.  A behaviour takes one of these scenes and   *)
(* leaves the rest alone; that of the users begins with a connection, and  *)
(* has one local channel.                                                  *)
(***************************************************************************)
EXTENDS MessageFormats, IntervalClock, RemoteUsers, VorbisStream, Mixdown

VARIABLE scene

Strings   == {<<>>, <<3, 1>>}
Shortish  == {-3, 6}     \* of both signs; 6 takes more than a byte
ByteSized == {-3, 3}
StartTempo == [bpm |-> 6, bpi |-> 2]
Anyone    == Permutations(Users)

(* The hardware calls for a stereo or a mono engine, with a metronome of   *)
(* its own, or with more inputs and outputs than there is staging for.     *)
Hardware ==
  {[call |-> "stereo", ins |-> 0, outs |-> 2, engine |-> e] : e \in {1, 2}}
  \union {[call |-> "metro", ins |-> i, outs |-> 3, engine |-> e] : i \in {0, 3}, e \in {1, 2}}
  \union {[call |-> "outs", ins |-> 2, outs |-> o, engine |-> 2] : o \in {1, 2, 4}}

Input(name, src, wide, out, mono, on) ==
  [name |-> name, src |-> src, wide |-> wide, out |-> out, mono |-> mono, active |-> on,
   allowed |-> TRUE, video |-> FALSE]
Player(wide, out, mono, on) ==
  [name |-> "remote", wide |-> wide, out |-> out, mono |-> mono, active |-> on]
Mic == Input("mic", 0, FALSE, 0, FALSE, TRUE)

(* Mono and stereo sources, apart and on one output, a muted one, outputs  *)
(* that are not there, a channel beyond the server's limit, a camera, and a*)
(* room whose tempo is not known yet.                                      *)
Desk ==
  {[enabled |-> TRUE,
    locals |-> {[Mic EXCEPT !.src = 1], Input("keys", 0, TRUE, 2, FALSE, TRUE)},
    remote |-> Player(TRUE, 1, TRUE, TRUE), click |-> [out |-> 2, mono |-> TRUE]],
   [enabled |-> TRUE,
    locals |-> {[Mic EXCEPT !.active = FALSE], Input("keys", 0, TRUE, 5, TRUE, TRUE)},
    remote |-> Player(FALSE, 0, FALSE, TRUE), click |-> [out |-> 0, mono |-> FALSE]],
   [enabled |-> TRUE, locals |-> {[Mic EXCEPT !.allowed = FALSE]},
    remote |-> Player(TRUE, 0, FALSE, FALSE), click |-> [out |-> 0, mono |-> TRUE]],
   [enabled |-> FALSE,
    locals |-> {[Mic EXCEPT !.allowed = FALSE],
                [Mic EXCEPT !.name = "camera", !.video = TRUE]},
    remote |-> Player(TRUE, 0, FALSE, FALSE), click |-> [out |-> 0, mono |-> TRUE]]}

ClientInit ==
  /\ FormatsInit /\ ClockInit /\ UsersInit /\ StreamInit /\ MixInit
  /\ scene \in {"formats", "clock", "channels", "users", "stream", "mix"}
  /\ scene = "formats" \/ kind = "config"
  /\ connected = (scene = "users")
  /\ scene # "mix" => /\ ~online /\ ~up
                      /\ port = CHOOSE p \in Ports : TRUE
                      /\ mix = CHOOSE k \in Mixes : TRUE

OneChannel == DOMAIN slots' \subseteq {Max(Ids)} /\ localCalls' <= 2

ClientNext ==
  /\ \/ /\ scene = "formats" /\ FormatsNext
        /\ UNCHANGED <<clockVars, userVars, streamVars, mixVars>>
     \/ /\ scene = "clock" /\ ClockNext
        /\ UNCHANGED <<formatVars, userVars, streamVars, mixVars>>
     \/ /\ scene = "channels" /\ LocalNext
        /\ UNCHANGED <<formatVars, clockVars, tableVars, streamVars, mixVars>>
     \/ /\ scene = "users" /\ UsersNext /\ OneChannel
        /\ UNCHANGED <<formatVars, clockVars, streamVars, mixVars>>
     \/ /\ scene = "stream" /\ StreamNext
        /\ UNCHANGED <<formatVars, clockVars, userVars, mixVars>>
     \/ /\ scene = "mix" /\ MixNext
        /\ UNCHANGED <<formatVars, clockVars, userVars, streamVars>>
  /\ UNCHANGED scene

ClientSpec ==
  ClientInit /\ [][ClientNext]_<<formatVars, clockVars, userVars, streamVars, mixVars, scene>>
=============================================================================
