------------------------- MODULE MCTransportService -------------------------
(***************************************************************************)
(* TransportService for TLC: two devices, on a fresh relay or on one with  *)
(* a history.                                                              *)
(***************************************************************************)
EXTENDS TransportService

Ids == 1..N
Draws == [s \in Ids |-> 2]

\* Commitments of an earlier run, under another session id or under the same.
LeftOver(session) == {Message(session, "FrostDkgRound1", k, All, <<k, 1>>) : k \in Ids}
AllHistories == SUBSET LeftOver(0) \cup SUBSET LeftOver(1)
=============================================================================
