------------------------------- MODULE Channel -------------------------------
(***************************************************************************)
(* What a Net_Connection promises in one direction: the messages it accepts*)
(* are numbered, and come out once each, in that order, until the          *)
(* connection breaks.  After that what is still on its way may come or not.*)
(***************************************************************************)
EXTENDS Naturals

VARIABLES sent,   \* messages accepted by Send
          got,    \* messages returned by Run at the other end
          open    \* the connection has not broken

channelVars == <<sent, got, open>>

ChannelInit == sent = 0 /\ got = 0 /\ open = TRUE

Accept  == sent' = sent + 1 /\ UNCHANGED <<got, open>>
Deliver == got < sent /\ got' = got + 1 /\ UNCHANGED <<sent, open>>
Break   == open /\ open' = FALSE /\ UNCHANGED <<sent, got>>

ChannelNext == Accept \/ Deliver \/ Break

ChannelSpec == ChannelInit /\ [][ChannelNext]_channelVars /\ WF_channelVars(open /\ Deliver)
=============================================================================
