------------------------------ MODULE Transport ------------------------------
(***************************************************************************)
(* Messages over a socket: Net_Connection (netmsg.cpp) on the buffers of a *)
(* JNL_Connection (WDL/jnetlib/connection.cpp).  Two ends, each polled by  *)
(* the Run of its NJClient: the model joins the sending half of one to the *)
(* receiving half of the other.  A byte is a message and a place in it; the*)
(* first Header places are the type and the size.                          *)
(*                                                                         *)
(* The socket is external: it takes and gives a part of what it could, the *)
(* other side may end it or lose what is under way, and nothing is heard of*)
(* a send that failed.  Threads that call Send at the same time are taken  *)
(* one after the other.                                                    *)
(***************************************************************************)
EXTENDS Integers, Sequences, FiniteSetsExt

CONSTANTS Ring,         \* bytes in a buffer of JNL_Connection
          Margin,       \* a message goes on when there is room for more than this
          Header,       \* bytes of a message header
          Peek,         \* bytes looked at in one round of the receiving loop
          QueueMax,     \* NET_CON_MAX_MESSAGES
          Sizes,        \* sizes of messages
          WireMax,      \* bound: bytes in the sockets and the network
          MaxMessages   \* bound: messages sent in a run

ASSUME TransportAssumption ==
  /\ {Ring, Header, Peek, QueueMax, WireMax, MaxMessages} \subseteq Nat \ {0}
  /\ Margin \in Nat /\ Sizes \subseteq Nat
  /\ Header <= Margin + 1 /\ Margin < Ring /\ Header <= Peek

VARIABLES
  size,       \* of each message
  accepted,   \* messages that Send has taken
  sendq,      \* m_sendq
  sendpos,    \* m_msgsendpos
  out,        \* m_send_buffer, m_send_pos, m_send_len
  link,       \* m_state of the sending end
  sending,    \* the sending end is in Run
  failed,     \* m_error of the sending end
  wire,       \* bytes under way
  stream,     \* the socket: open, or ended by the sending side
  in,         \* m_recv_buffer, m_recv_pos, m_recv_len
  closed,     \* m_state of the receiving end is STATE_CLOSED
  recv,       \* m_recvmsg and m_recvstate
  receiving,  \* the receiving end in Run
  error,      \* m_error of the receiving end
  lost,       \* NJClient::Run has reported the end of the connection
  handled     \* messages handled; -1 once one was not what was sent

senderVars   == <<sendq, sendpos, out, link, sending, failed>>
receiverVars == <<in, closed, recv, receiving, error, lost, handled>>
transportVars == <<size, accepted, senderVars, wire, stream, receiverVars>>

Messages  == 1 .. MaxMessages
NoByte    == <<0, 0>>
EmptyRing == [at |-> [p \in 0 .. Ring - 1 |-> NoByte], pos |-> 0, len |-> 0]
NoMessage == [id |-> 0, got |-> 0, intact |-> TRUE]
Room(r)   == Ring - r.len
Rest(s, n) == SubSeq(s, n + 1, Len(s))
BytesOf(m, from, n) == [i \in 1 .. n |-> <<m, from + i - 1>>]

TransportInit ==
  /\ size \in [Messages -> Sizes] /\ accepted = 0
  /\ sendq = <<>> /\ sendpos = -1 /\ out = EmptyRing
  /\ link = "resolving" /\ sending = FALSE /\ failed = 0
  /\ wire = <<>> /\ stream = "open"
  /\ in = EmptyRing /\ closed = FALSE /\ recv = NoMessage
  /\ receiving = "away" /\ error = 0 /\ lost = FALSE /\ handled = 0
-----------------------------------------------------------------------------
(* JNL_Connection: the ring of bytes to send, from pos on.                 *)

(* s written from place p on, around the end of the ring.                  *)
Written(r, p, s) ==
  [i \in DOMAIN r |-> LET k == (i - p) % Ring IN IF k < Len(s) THEN s[k + 1] ELSE r[i]]
ReadFrom(r, p, n) == [i \in 1 .. n |-> r[(p + i - 1) % Ring]]

(* send(): all of it or, unnoticed by its callers, nothing.                *)
Put(r, s) ==
  IF Len(s) > Room(r) THEN r
  ELSE [r EXCEPT !.at = Written(@, r.pos + r.len, s), !.len = @ + Len(s)]

(* run() of the sending end, with r as its buffer.  What the socket takes, *)
(* in one part or two, comes off the ring; at the end of the stream the    *)
(* connection is closed.                                                   *)
Partly(n) == IF n = 0 THEN {0} ELSE 1 .. n

NetOut(r) ==
  \/ /\ link \in {"resolving", "connecting"}
     /\ link' \in {"resolving", "connecting", "connected", "error"}
     /\ link = "connecting" => link' # "resolving"
     /\ out' = r /\ UNCHANGED wire
  \/ /\ link \in {"connected", "closing"} /\ stream = "open"
     /\ \E n \in Partly(Min({r.len, WireMax - Len(wire)})) :
          /\ wire' = wire \o ReadFrom(r.at, r.pos, n)
          /\ out' = [r EXCEPT !.pos = (@ + n) % Ring, !.len = @ - n]
     /\ link' = IF link = "closing" /\ out'.len = 0 THEN "closed" ELSE link
  \/ /\ link \in {"connected", "closing"} /\ stream = "ended"
     /\ link' = "closed" /\ out' = r /\ UNCHANGED wire
  \/ /\ link \in {"closed", "error"}
     /\ out' = r /\ UNCHANGED <<link, wire>>
-----------------------------------------------------------------------------
(* Net_Connection, the sending end.                                        *)

(* Send(): with the queue full the connection is given up.                 *)
Send ==
  /\ accepted < MaxMessages
  /\ IF Len(sendq) < QueueMax
       THEN accepted' = accepted + 1 /\ sendq' = Append(sendq, accepted + 1) /\ UNCHANGED failed
       ELSE failed' = -2 /\ UNCHANGED <<accepted, sendq>>
  /\ UNCHANGED <<size, sendpos, out, link, sending, wire, stream, receiverVars>>

RunSend ==
  /\ ~sending /\ failed = 0
  /\ sending' = TRUE
  /\ NetOut(out)
  /\ UNCHANGED <<size, accepted, sendq, sendpos, failed, stream, receiverVars>>

MayWriteMutant == sendq # <<>> /\ out.len < Ring          \* any room will do
MayWriteMutant2 ==                                        \* room for all of it
  sendq # <<>> /\ Room(out) >= Header + size[Head(sendq)]
MayWrite == sendq # <<>> /\ Room(out) > Margin

(* One round of the sending loop: the header if it is not out yet, and then*)
(* a part of the message, or on to the next one.                           *)
WriteOut ==
  LET m      == Head(sendq)
      begun  == IF sendpos < 0 THEN Put(out, BytesOf(m, 0, Header)) ELSE out
      pos    == Max({sendpos, 0})
      n      == Min({size[m] - pos, Room(begun)})
  IN /\ sending /\ MayWrite
     /\ IF size[m] = pos
          THEN sendq' = Tail(sendq) /\ sendpos' = -1 /\ NetOut(begun)
          ELSE /\ sendpos' = pos + n /\ UNCHANGED sendq
               /\ NetOut(Put(begun, BytesOf(m, Header + pos, n)))
     /\ UNCHANGED <<size, accepted, sending, failed, stream, receiverVars>>

(* The end of Run.  Time is not kept here: as long as nothing has answered,*)
(* the connection may be given up.                                         *)
EndSend ==
  /\ sending /\ ~MayWrite
  /\ sending' = FALSE
  /\ NetOut(out)
  /\ failed' \in IF link \in {"resolving", "connecting"} THEN {failed, -3} ELSE {failed}
  /\ UNCHANGED <<size, accepted, sendq, sendpos, stream, receiverVars>>

(* Kill(), after a login that failed: what is in the ring still goes out.  *)
Kill ==
  /\ ~sending /\ link \in {"resolving", "connecting", "connected"}
  /\ IF link = "connected" THEN link' = "closing" /\ UNCHANGED out
                           ELSE link' = "closed" /\ out' = EmptyRing
  /\ UNCHANGED <<size, accepted, sendq, sendpos, sending, failed, wire, stream, receiverVars>>

(* The sending side is deleted, or the connection breaks: what is under way*)
(* comes, or is lost.                                                      *)
StreamEnds ==
  /\ stream = "open" /\ link # "resolving"
  /\ stream' = "ended" /\ wire' \in {wire, <<>>}
  /\ UNCHANGED <<size, accepted, senderVars, receiverVars>>
-----------------------------------------------------------------------------
(* JNL_Connection: the ring of received bytes, the last of them before pos.*)

(* One recv(): it stops at the end of the ring.                            *)
Received(r, w) ==
  IF w = <<>> THEN {[in |-> r, wire |-> w, closed |-> stream = "ended"]}
  ELSE {[in |-> [at  |-> Written(r.at, r.pos, SubSeq(w, 1, n)),
                 pos |-> (r.pos + n) % Ring, len |-> r.len + n],
         wire |-> Rest(w, n), closed |-> FALSE]
         : n \in 1 .. Min({Len(w), Ring - r.pos, Room(r)})}

(* run() of the receiving end: a second recv() when the first one came to  *)
(* the end of the ring and there is room.                                  *)
NetIn ==
  IF closed \/ Room(in) = 0 THEN UNCHANGED <<in, wire, closed>>
  ELSE \E first \in Received(in, wire) :
         \E last \in IF first.wire # wire /\ first.in.pos = 0 /\ Room(first.in) > 0
                       THEN Received(first.in, first.wire) ELSE {first} :
           in' = last.in /\ wire' = last.wire /\ closed' = last.closed
-----------------------------------------------------------------------------
(* Net_Connection, the receiving end.                                      *)

Unread(r) == ReadFrom(r.at, r.pos - r.len, r.len)
Peeked    == SubSeq(Unread(in), 1, Min({in.len, Peek}))
Parsing   == recv.id # 0

RunReceiveMutant ==      \* gives up as soon as the connection is closed
  /\ receiving = "away" /\ ~lost
  /\ receiving' = IF closed THEN "none" ELSE "receive"
  /\ NetIn
  /\ UNCHANGED <<size, accepted, senderVars, stream, recv, error, lost, handled>>
RunReceive ==
  /\ receiving = "away" /\ ~lost
  /\ receiving' = "receive"
  /\ NetIn
  /\ UNCHANGED <<size, accepted, senderVars, stream, recv, error, lost, handled>>

IsHeader(s) == s[1][2] = 0 /\ SubSeq(s, 1, Header) = BytesOf(s[1][1], 0, Header)

(* One round of the receiving loop: the header, when all of it is there,   *)
(* and what there is of the rest.                                          *)
ParseIn ==
  /\ receiving = "receive" /\ in.len > 0
  /\ Parsing \/ Len(Peeked) >= Header
  /\ IF ~Parsing /\ ~IsHeader(Peeked)
       THEN /\ error' = -1 /\ receiving' = "none" /\ handled' = -1
            /\ UNCHANGED <<in, recv>>
       ELSE LET msg  == IF Parsing THEN recv ELSE [NoMessage EXCEPT !.id = Peeked[1][1]]
                a    == IF Parsing THEN 0 ELSE Header
                n    == Min({size[msg.id] - msg.got, Len(Peeked) - a})
                data == SubSeq(Peeked, a + 1, a + n)
                now  == [msg EXCEPT !.got = @ + n,
                           !.intact = @ /\ data = BytesOf(msg.id, Header + msg.got, n)]
                whole == now.got = size[now.id]
            IN /\ in' = [in EXCEPT !.len = @ - a - n]
               /\ recv' = IF whole THEN NoMessage ELSE now
               /\ receiving' = IF whole THEN "message" ELSE "receive"
               /\ handled' = IF ~whole THEN handled
                             ELSE IF now.intact /\ now.id = handled + 1 THEN now.id ELSE -1
               /\ UNCHANGED error
  /\ UNCHANGED <<size, accepted, senderVars, wire, stream, closed, lost>>

(* The end of Run, and of NJClient::Run: with a message it does not look at*)
(* the connection, without one it reports one that has ended or failed.    *)
EndReceive ==
  /\ \/ receiving \in {"message", "none"}
     \/ receiving = "receive" /\ ~Parsing /\ Len(Peeked) < Header
     \/ receiving = "receive" /\ in.len = 0
  /\ receiving' = "away"
  /\ NetIn
  /\ error' \in IF receiving = "message" \/ error # 0 THEN {error} ELSE {0, -3}
  /\ lost' = (receiving # "message" /\ (error' # 0 \/ closed'))
  /\ UNCHANGED <<size, accepted, senderVars, stream, recv, handled>>
-----------------------------------------------------------------------------
SenderRuns   == RunSend \/ WriteOut \/ EndSend
ReceiverRuns == RunReceive \/ ParseIn \/ EndReceive

TransportNext == Send \/ SenderRuns \/ Kill \/ StreamEnds \/ ReceiverRuns

(* Both ends are polled, and a name that does not resolve or a server that *)
(* does not answer is given up in time.                                    *)
TransportFairness ==
  /\ WF_transportVars(SenderRuns) /\ WF_transportVars(ReceiverRuns)
  /\ SF_transportVars(EndSend /\ (link' # link \/ failed' # failed))

TransportSpec == TransportInit /\ [][TransportNext]_transportVars /\ TransportFairness
-----------------------------------------------------------------------------
(* Properties.                                                             *)

(* The types.  Nothing is in a ring twice, and the queue holds what has    *)
(* been accepted and is not yet written.                                   *)
TransportTypeOK ==
  /\ sendpos \in -1 .. Max(Sizes \union {0})
  /\ \A r \in {out, in} : r.pos \in 0 .. Ring - 1 /\ r.len \in 0 .. Ring
  /\ link \in {"resolving", "connecting", "connected", "closing", "closed", "error"}
  /\ \A i \in DOMAIN sendq : sendq[i] = accepted - Len(sendq) + i
  /\ recv.id # 0 => recv.got < size[recv.id]

(* Through queue, rings, partial writes and reads, and the parser, the     *)
(* connection is a channel: the messages come out whole, once each and in  *)
(* order, and all of them, until it breaks: a full queue, a connection that*)
(* is closed, or one that is taken for lost.                               *)
Broken == failed # 0 \/ error # 0 \/ stream = "ended" \/ link \in {"closing", "closed", "error"}
Pipe == INSTANCE Channel WITH sent <- accepted, got <- handled, open <- ~Broken
ImplementsChannel == Pipe!ChannelSpec

(* A connection that has ended is reported when every message that came    *)
(* whole has been handled: the refusal of a login and its text come before *)
(* the end of the connection.  But for the end of the stream met by the    *)
(* second recv(), at the end of the ring: what the first one brought then  *)
(* is still there when the end is reported.                                *)
WholeMessage ==
  LET bytes == Unread(in) IN
    IF Parsing THEN in.len >= size[recv.id] - recv.got
    ELSE in.len >= Header /\ in.len >= Header + size[bytes[1][1]]
HandledBeforeLost == lost /\ error = 0 => ~WholeMessage \/ in.pos = 0
=============================================================================
