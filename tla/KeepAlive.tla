------------------------------ MODULE KeepAlive ------------------------------
(***************************************************************************)
(* The clocks of Net_Connection (netmsg.cpp): an end that has sent nothing *)
(* for m_keepalive seconds sends a keep-alive message, and one that has had*)
(* no whole message for three times as long takes the connection for dead. *)
(* Time passes in seconds, as time() does, and is kept as how long ago     *)
(* something was; both ends are polled in every one of them.  A message is *)
(* known by its age.  The network is external: what is written arrives in  *)
(* order and, from an end that lives, within Delay seconds.                *)
(***************************************************************************)
EXTENDS Integers, Sequences

CONSTANTS Ends,          \* the two ends
          keepalive,     \* m_keepalive of each end, in seconds
          Delay,         \* a message, queued or under way, is no older than this
          MaxUnderWay    \* bound: messages queued or under way, from one end

ASSUME KeepAliveAssumption ==
  /\ \E a, b \in Ends : a # b /\ Ends = {a, b}
  /\ keepalive \in [Ends -> Nat \ {0}] /\ {Delay, MaxUnderWay} \subseteq Nat
  /\ \A e, o \in Ends : e # o => keepalive[o] + 1 + Delay <= 3 * keepalive[e]

VARIABLES
  quiet,      \* seconds since m_last_send, of each end
  silence,    \* seconds since m_last_recv
  waiting,    \* m_sendq: ages
  underway,   \* ages of what it has written and the other one has not read
  polled,     \* Run was called in this second
  alive,      \* an end may stop without a word
  gaveup      \* m_error

aliveVars == <<quiet, silence, waiting, underway, polled, alive, gaveup>>

Peer(e) == CHOOSE o \in Ends : o # e
Runs(e) == alive[e] /\ gaveup[e] = 0
Older(s) == [i \in DOMAIN s |-> s[i] + 1]
Outstanding(e) == underway[e] \o waiting[e]

KeepAliveInit ==
  /\ quiet = [e \in Ends |-> 0] /\ silence = [e \in Ends |-> 0]
  /\ waiting = [e \in Ends |-> <<>>] /\ underway = [e \in Ends |-> <<>>]
  /\ polled = [e \in Ends |-> FALSE]
  /\ alive = [e \in Ends |-> TRUE]
  /\ gaveup = [e \in Ends |-> 0]
-----------------------------------------------------------------------------
(* NJClient sends a message of its own.                                    *)
SendMessage(e) ==
  /\ Runs(e) /\ Len(Outstanding(e)) < MaxUnderWay
  /\ waiting' = [waiting EXCEPT ![e] = Append(@, 0)]
  /\ UNCHANGED <<quiet, silence, underway, polled, alive, gaveup>>

(* Run(): is it time to say something?  A queue that waits is something.     *)
DueMutant(e) == waiting[e] = <<>> /\ quiet[e] >= 3 * keepalive[e]
Due(e) == waiting[e] = <<>> /\ quiet[e] > keepalive[e]

(* m_last_recv, after a Run that returned a message or not.                *)
HeardMutant(e, message) == IF message \/ waiting[e] # <<>> THEN 0 ELSE silence[e]
Heard(e, message) == IF message THEN 0 ELSE silence[e]

Run(e) ==
  LET o     == Peer(e)
      queue == IF Due(e) THEN <<0>> ELSE waiting[e]
  IN /\ Runs(e)
     /\ polled' = [polled EXCEPT ![e] = TRUE]
     /\ quiet' = [quiet EXCEPT ![e] = IF queue # <<>> THEN 0 ELSE @]
     /\ \E written \in 0 .. Len(queue), message \in {m \in BOOLEAN : m => underway[o] # <<>>} :
          /\ waiting' = [waiting EXCEPT ![e] = SubSeq(queue, written + 1, Len(queue))]
          /\ underway' = [underway EXCEPT ![e] = @ \o SubSeq(queue, 1, written),
                                         ![o] = IF message THEN Tail(@) ELSE @]
          /\ silence' = [silence EXCEPT ![e] = Heard(e, message)]
          /\ gaveup' = [gaveup EXCEPT ![e] =
                          IF ~message /\ silence[e] > 3 * keepalive[e] THEN -3 ELSE @]
     /\ UNCHANGED alive

(* An end is killed, or its network is gone.                               *)
Die(e) ==
  /\ alive[e] /\ alive' = [alive EXCEPT ![e] = FALSE]
  /\ UNCHANGED <<quiet, silence, waiting, underway, polled, gaveup>>

(* A second passes.                                                        *)
Second(n, last) == IF n > last THEN n ELSE n + 1

Tick ==
  /\ \A e \in Ends : Runs(e) => polled[e]
  /\ \A e \in Ends : Runs(e) /\ Runs(Peer(e)) =>
       \A i \in DOMAIN Outstanding(e) : Outstanding(e)[i] < Delay
  /\ \E e \in Ends : Runs(e)
  /\ polled' = [e \in Ends |-> FALSE]
  /\ quiet' = [e \in Ends |-> Second(quiet[e], keepalive[e])]
  /\ silence' = [e \in Ends |-> Second(silence[e], 3 * keepalive[e])]
  /\ IF \A e \in Ends : Runs(e)
       THEN /\ waiting' = [e \in Ends |-> Older(waiting[e])]
            /\ underway' = [e \in Ends |-> Older(underway[e])]
       ELSE UNCHANGED <<waiting, underway>>
  /\ UNCHANGED <<alive, gaveup>>
-----------------------------------------------------------------------------
KeepAliveNext ==
  \/ \E e \in Ends : SendMessage(e) \/ Run(e) \/ Die(e)
  \/ Tick

(* Time passes, and an end that lives is polled.                           *)
KeepAliveFairness ==
  WF_aliveVars(Tick) /\ \A e \in Ends : WF_aliveVars(~polled[e] /\ Run(e))

KeepAliveSpec == KeepAliveInit /\ [][KeepAliveNext]_aliveVars /\ KeepAliveFairness
-----------------------------------------------------------------------------
(* Properties.                                                             *)

KeepAliveTypeOK ==
  /\ \A e \in Ends : quiet[e] \in 0 .. keepalive[e] + 1 /\ silence[e] \in 0 .. 3 * keepalive[e] + 1
  /\ \A e \in Ends : \A i \in DOMAIN Outstanding(e) : Outstanding(e)[i] \in 0 .. Delay

(* A connection of two ends that run is never taken for dead, whatever they*)
(* send or do not send, as long as nothing is under way for long.          *)
HealthyStays == \A e \in Ends : gaveup[e] # 0 => ~Runs(Peer(e))

(* An end whose peer is gone without a word finds out.                     *)
DeadPeerFound == \A e \in Ends : ~alive[e] ~> ~Runs(Peer(e))
=============================================================================
