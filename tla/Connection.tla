------------------------------ MODULE Connection ------------------------------
(***************************************************************************)
(* Connecting and disconnecting (abNinjam/ninjamclientAdapter.cpp,         *)
(* abNinjam/ninjamclient.cpp, and the status of NJClient::Run).  Four      *)
(* threads meet here:                                                      *)
(*   - the app's thread calls connect() and disconnect(), one at a time;   *)
(*     connect() calls Run itself until the server has let us in;          *)
(*   - a connection thread (keepConnectionThread) then calls Run, under    *)
(*     gsMtx; disconnect() joins it;                                       *)
(*   - the app's timer calls process(), which calls Run under gsMtx too and*)
(*     reports a lost connection;                                          *)
(*   - the UI answers the licence dialog that one of them waits for.       *)
(* connect() after a lost connection does not call disconnect() first: the *)
(* old connection thread is expected to have noticed by itself.            *)
(***************************************************************************)
EXTENDS Naturals, FiniteSets

CONSTANTS MaxConnects,  \* bound: calls of connect()
          AppWaits      \* the app calls nothing while process() runs, and
                        \* connects only when no old connection thread runs

ASSUME ConnectionAssumption == MaxConnects \in Nat /\ AppWaits \in BOOLEAN

Keepers == 1 .. MaxConnects
App     == 0
Timer   == MaxConnects + 1
Nobody  == MaxConnects + 2

VARIABLES app,         \* where the app's thread is, and what it does next
          connected,   \* NinjamClientAdapter::connected
          clientUp,    \* NinjamClient::connected
          stop,        \* stopConnectionThread
          thread,      \* connectionThread: a keeper, or 0
          keeper,      \* where each connection thread is
          timer,       \* where process() is
          mtx,         \* who holds gsMtx
          license,     \* g_license_pending
          nj,          \* NJClient: m_status, m_in_auth, m_audio_enable, m_netcon
          inbox,       \* the server's message that Run reads next
          server,      \* how far the server is with us
          connects     \* calls of connect() so far

vars == <<app, connected, clientUp, stop, thread, keeper, timer, mtx, license,
          nj, inbox, server, connects>>
client  == <<nj, inbox, server, license>>
handles == <<connected, clientUp, stop, thread>>

Statuses == {"none", "connecting", "ok", "cantconnect", "invalidauth", "disconnected"}
Failed   == nj.status \in {"cantconnect", "invalidauth", "disconnected"}  \* GetStatus() < 0
Fresh    == [status |-> "none", in_auth |-> FALSE, audio |-> FALSE, net |-> "none"]

Init ==
  /\ app = [at |-> "idle", then |-> "idle"]
  /\ connected = FALSE /\ clientUp = FALSE /\ stop = TRUE /\ thread = 0
  /\ keeper = [k \in Keepers |-> "none"]
  /\ timer = "idle" /\ mtx = Nobody /\ license = FALSE
  /\ nj = Fresh /\ inbox = "none" /\ server = "new" /\ connects = 0
-----------------------------------------------------------------------------
(* The network: the server's next message, or the end of the connection; a *)
(* server that stays silent is given up by Net_Connection::Run.            *)
ServerSays ==
  /\ nj.net = "up" /\ inbox = "none"
  /\ \/ server = "new" /\ inbox' \in {"challenge", "license", "old version"} /\ server' = "asked"
     \/ server = "answered" /\ inbox' \in {"welcome", "refused"} /\ server' = "welcomed"
     \/ server = "welcomed" /\ inbox' = "config" /\ server' = "ready"
  /\ UNCHANGED <<app, handles, keeper, timer, mtx, license, nj, connects>>

NetDown ==
  /\ nj.net = "up" /\ nj' = [nj EXCEPT !.net = "down"]
  /\ UNCHANGED <<app, handles, keeper, timer, mtx, license, inbox, server, connects>>

(* The licence dialog is answered or cancelled.                            *)
UIAnswers ==
  /\ license /\ license' = FALSE
  /\ UNCHANGED <<app, handles, keeper, timer, mtx, nj, inbox, server, connects>>
-----------------------------------------------------------------------------
(* NJClient::Run.  It returns nonzero ("sleep") when it had nothing to do. *)

(* Without a message and without a connection.                             *)
DownMutant(status, in_auth) ==     \* an established session stays "ok"
  IF in_auth THEN "invalidauth" ELSE IF status = "connecting" THEN "cantconnect" ELSE status
Down(status, in_auth) ==
  IF in_auth THEN "invalidauth"
  ELSE IF status = "ok" THEN "disconnected"
  ELSE IF status = "connecting" THEN "cantconnect" ELSE status

RunIdle ==
  /\ inbox = "none"
  /\ nj' = IF nj.net # "down" THEN nj
           ELSE [nj EXCEPT !.audio = FALSE, !.status = Down(nj.status, nj.in_auth)]
  /\ UNCHANGED <<inbox, server, license>>

RunMessage ==
  /\ inbox \notin {"none", "license"}
  /\ inbox' = "none"
  /\ nj' = CASE inbox = "challenge"   -> [nj EXCEPT !.in_auth = TRUE]
             [] inbox = "old version" -> [nj EXCEPT !.status = "invalidauth", !.net = "down"]
             [] inbox = "welcome"     -> [nj EXCEPT !.status = "ok", !.in_auth = FALSE]
             [] inbox = "refused"     -> [nj EXCEPT !.status = "invalidauth", !.net = "down"]
             [] inbox = "config"      -> [nj EXCEPT !.audio = TRUE]
  /\ server' = IF inbox = "challenge" THEN "answered" ELSE server
  /\ UNCHANGED license

(* The challenge with a licence: licensecallback shows the dialog and waits*)
(* inside Run, at most two minutes.                                        *)
RunAsks == inbox = "license" /\ license' = TRUE /\ UNCHANGED <<nj, inbox, server>>

RunAnswered ==                      \* or timed out
  /\ inbox' = "none" /\ nj' = [nj EXCEPT !.in_auth = TRUE] /\ server' = "answered"
  /\ UNCHANGED license

InRun(t) ==
  \/ t = App /\ app.at \in {"run", "license"}
  \/ t = Timer /\ timer \in {"run", "license"}
  \/ t \in Keepers /\ keeper[t] \in {"run", "license"}
-----------------------------------------------------------------------------
(* The app's thread.                                                       *)
Goto(at)  == app' = [app EXCEPT !.at = at]
Return    == app' = [at |-> app.then, then |-> "idle"]

(* A connection thread that has not ended: waited for by disconnect() only.*)
Alive(k) == keeper[k] \notin {"none", "done"}

(* NinjamClientAdapter::connect disconnects first when it is connected.    *)
CallConnect ==
  /\ app.at = "idle" /\ connects < MaxConnects
  /\ AppWaits => timer = "idle" /\ (connected \/ \A k \in Keepers : ~Alive(k))
  /\ connects' = connects + 1
  /\ app' = IF connected THEN [at |-> "stop", then |-> "connect"]
            ELSE [at |-> "connect", then |-> "idle"]
  /\ UNCHANGED <<handles, keeper, timer, mtx, client>>

(* NinjamClient::connect.  NJClient::Connect begins with Disconnect; "open"*)
(* is inside of it.                                                        *)
EnterConnect ==
  /\ app.at = "connect"
  /\ Goto(IF nj.status = "ok" \/ nj.audio THEN "loop" ELSE "open")
  /\ UNCHANGED <<handles, keeper, timer, mtx, client, connects>>

NJConnect ==
  /\ app.at = "open" /\ Goto("loop")
  /\ nj' = [Fresh EXCEPT !.status = "connecting", !.net = "up"]
  /\ inbox' = "none" /\ server' = "new"
  /\ UNCHANGED <<handles, keeper, timer, mtx, license, connects>>

(* It goes by NinjamClient::connected, which nothing has reset when the    *)
(* connection before was lost.                                             *)
ConnectLoop ==
  /\ app.at = "loop"
  /\ \/ ~Failed /\ Goto("run") /\ UNCHANGED connected
     \/ Failed /\ clientUp /\ Goto("start") /\ UNCHANGED connected
     \/ Failed /\ ~clientUp /\ Return /\ connected' = FALSE
  /\ UNCHANGED <<clientUp, stop, thread, keeper, timer, mtx, client, connects>>

(* Run without gsMtx; the loop ends after a Run that found nothing to do.  *)
ConnectRun ==
  /\ \/ app.at = "run" /\ RunIdle /\ Goto(IF nj'.status = "ok" THEN "start" ELSE "loop")
     \/ app.at = "run" /\ RunMessage /\ Goto("loop")
     \/ app.at = "run" /\ RunAsks /\ Goto("license")
     \/ app.at = "license" /\ RunAnswered /\ Goto("loop")
  /\ UNCHANGED <<handles, keeper, timer, mtx, connects>>

StartThread ==
  /\ app.at = "start" /\ Return
  /\ clientUp' = TRUE /\ stop' = FALSE /\ connected' = TRUE
  /\ thread' = connects /\ keeper' = [keeper EXCEPT ![connects] = "born"]
  /\ UNCHANGED <<timer, mtx, client, connects>>

(* disconnect(): nothing to do unless connected.                           *)
CallDisconnect ==
  /\ app.at = "idle" /\ connected
  /\ AppWaits => timer = "idle"
  /\ app' = [at |-> "stop", then |-> "idle"]
  /\ UNCHANGED <<handles, keeper, timer, mtx, client, connects>>

StopThread ==
  /\ app.at = "stop" /\ Goto("join")
  /\ stop' = TRUE
  /\ license' = FALSE             \* NinjamClient_cancelPendingLicense
  /\ UNCHANGED <<connected, clientUp, thread, keeper, timer, mtx, nj, inbox, server, connects>>

JoinsMutant == TRUE                \* detach instead of join
Joins == thread = 0 \/ keeper[thread] = "done"

JoinThread ==
  /\ app.at = "join" /\ Joins
  /\ thread' = 0 /\ Goto(IF clientUp THEN "close" ELSE "closed")
  /\ UNCHANGED <<connected, clientUp, stop, keeper, timer, mtx, client, connects>>

NJDisconnect ==
  /\ app.at = "close" /\ Goto("closed")
  /\ nj' = Fresh /\ inbox' = "none" /\ server' = "new"
  /\ UNCHANGED <<handles, keeper, timer, mtx, license, connects>>

ReturnDisconnect ==
  /\ app.at = "closed" /\ Return
  /\ clientUp' = FALSE /\ connected' = FALSE
  /\ UNCHANGED <<stop, thread, keeper, timer, mtx, client, connects>>
-----------------------------------------------------------------------------
(* The connection threads.                                                 *)
Move(k, to) == keeper' = [keeper EXCEPT ![k] = to]

KeeperStartMutant(k) ==            \* resets the flag itself
  /\ keeper[k] = "born" /\ Move(k, "check") /\ stop' = FALSE
  /\ UNCHANGED <<app, connected, clientUp, thread, timer, mtx, client, connects>>
KeeperStart(k) ==
  /\ keeper[k] = "born" /\ Move(k, "check")
  /\ UNCHANGED <<app, handles, timer, mtx, client, connects>>

KeeperCheck(k) ==
  /\ keeper[k] = "check" /\ Move(k, IF Failed \/ stop THEN "done" ELSE "lock")
  /\ UNCHANGED <<app, handles, timer, mtx, client, connects>>

KeeperLock(k) ==
  /\ keeper[k] = "lock" /\ mtx = Nobody
  /\ mtx' = k /\ Move(k, "run")
  /\ UNCHANGED <<app, handles, timer, client, connects>>

KeeperRun(k) ==
  /\ \/ keeper[k] = "run" /\ (RunIdle \/ RunMessage) /\ mtx' = Nobody /\ Move(k, "check")
     \/ keeper[k] = "run" /\ RunAsks /\ Move(k, "license") /\ UNCHANGED mtx
     \/ keeper[k] = "license" /\ RunAnswered /\ mtx' = Nobody /\ Move(k, "check")
  /\ UNCHANGED <<app, handles, timer, connects>>
-----------------------------------------------------------------------------
(* process(), from the app's timer.                                        *)
CallProcess ==
  /\ timer = "idle" /\ connected /\ timer' = "lock"
  /\ AppWaits => app.at = "idle"
  /\ UNCHANGED <<app, handles, keeper, mtx, client, connects>>

ProcessLock ==
  /\ timer = "lock" /\ mtx = Nobody
  /\ mtx' = Timer /\ timer' = "run"
  /\ UNCHANGED <<app, handles, keeper, client, connects>>

ProcessRun ==
  /\ \/ timer = "run" /\ (RunIdle \/ RunMessage) /\ mtx' = Nobody /\ timer' = "status"
     \/ timer = "run" /\ RunAsks /\ timer' = "license" /\ UNCHANGED mtx
     \/ timer = "license" /\ RunAnswered /\ mtx' = Nobody /\ timer' = "status"
  /\ UNCHANGED <<app, handles, keeper, connects>>

(* A lost connection is reported, and is no longer one.                    *)
ProcessStatus ==
  /\ timer = "status" /\ timer' = "idle"
  /\ connected' = IF Failed THEN FALSE ELSE connected
  /\ UNCHANGED <<app, clientUp, stop, thread, keeper, mtx, client, connects>>
-----------------------------------------------------------------------------
AppSteps ==
  \/ EnterConnect \/ NJConnect \/ ConnectLoop \/ ConnectRun \/ StartThread
  \/ StopThread \/ JoinThread \/ NJDisconnect \/ ReturnDisconnect

Next ==
  \/ ServerSays \/ NetDown \/ UIAnswers
  \/ CallConnect \/ CallDisconnect \/ AppSteps
  \/ \E k \in Keepers : KeeperStart(k) \/ KeeperCheck(k) \/ KeeperLock(k) \/ KeeperRun(k)
  \/ CallProcess \/ ProcessLock \/ ProcessRun \/ ProcessStatus

(* The threads keep running, a mutex that is free again and again is got,  *)
(* the timer fires, and a server that does not go on with the login is     *)
(* given up after three keep-alive times (Net_Connection::Run).            *)
LoginGoesOn == server # "ready" /\ inbox = "none" /\ (ServerSays \/ NetDown)

Fairness ==
  /\ WF_vars(AppSteps)
  /\ \A k \in Keepers : /\ WF_vars(KeeperStart(k) \/ KeeperCheck(k) \/ KeeperRun(k))
                        /\ SF_vars(KeeperLock(k))
  /\ WF_vars(CallProcess \/ ProcessRun \/ ProcessStatus) /\ SF_vars(ProcessLock)
  /\ WF_vars(LoginGoesOn)

Spec == Init /\ [][Next]_vars /\ Fairness
-----------------------------------------------------------------------------
(* The types.  gsMtx is held by the thread that is in Run under it, and a  *)
(* session that is let in is no longer logging in.                         *)
ConnectionTypeOK ==
  /\ app \in [at : {"idle", "connect", "open", "loop", "run", "license", "start",
                    "stop", "join", "close", "closed"}, then : {"idle", "connect"}]
  /\ nj \in [status : Statuses, in_auth : BOOLEAN, audio : BOOLEAN, net : {"none", "up", "down"}]
  /\ thread \in 0 .. MaxConnects
  /\ \A t \in Keepers \union {Timer} : InRun(t) <=> mtx = t
  /\ nj.status = "ok" => ~nj.in_auth

(* Disconnect, which frees the connection and every user, never runs while *)
(* a connection thread is in Run ("Joined by disconnect(), so Disconnect() *)
(* never runs while this thread is in Run()").                             *)
DisconnectAlone == app.at \in {"open", "close"} => \A k \in Keepers : ~InRun(k)

(* disconnect() returns: the thread it joins sees the flag and ends.       *)
(* connect() returns too, with or without a connection, also when nobody   *)
(* ever answers the licence dialog.  And a connection that goes down while *)
(* we are connected is reported.                                           *)
CallsReturn ==
  /\ (app.at = "stop") ~> (app.at \in {"idle", "connect"})
  /\ (app.at = "connect") ~> (app.at = "idle")
  /\ (connected /\ nj.net = "down") ~> (~connected \/ nj.net = "up")
=============================================================================
