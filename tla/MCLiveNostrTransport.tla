------------------------ MODULE MCLiveNostrTransport ------------------------
(***************************************************************************)
(* LiveNostrTransport for TLC: device 1 publishes twice, for device 2 or   *)
(* for itself, and device 2 connects twice.                                *)
(***************************************************************************)
EXTENDS LiveNostrTransport, TLC

Pair == 1..2

\* A share for device 2, sealed, so that a retry is another event, and a message of a
\* kind without secrets for the sender itself, which every client gets to see.
Share == [sender |-> 1, recipient |-> 2, session_id |-> 1, secret |-> TRUE]
Note == [sender |-> 1, recipient |-> 1, session_id |-> 2, secret |-> FALSE]

AllMessages == {Share, Note}
Keys == [d \in Pair |-> [r \in Pair |-> r]]
Connects == <<1, 2>>
Publishes == <<2, 0>>
=============================================================================
