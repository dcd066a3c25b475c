------------------------- MODULE MCFrostCoordinator -------------------------
(***************************************************************************)
(* FrostCoordinator for TLC: one session with nonces, shares and round 2   *)
(* packages, a second session, and messages that do not decode.            *)
(***************************************************************************)
EXTENDS FrostCoordinator

Package(session, kind, from, to) ==
    [session_id |-> session, kind |-> kind, sender |-> from, recipient |-> to,
     payload |-> [sender |-> from, recipient |-> to, session_id |-> session]]

\* Messages the publish_* methods make.
Nonce1 == Package(1, "FrostSigningNonce", 1, None)
Nonce2 == Package(2, "FrostSigningNonce", 1, None)
Share1 == Package(1, "FrostSignatureShare", 2, None)
Round2ToOne == Package(1, "FrostDkgRound2", 2, 1)
Round2ToTwo == Package(1, "FrostDkgRound2", 1, 2)

\* Messages the application makes itself: a nonce sent under another id, a round 2
\* package without a recipient, garbage, and a kind with a blank name.
Misattributed == [Nonce1 EXCEPT !.sender = 2]
Unaddressed == [Round2ToOne EXCEPT !.recipient = None]
Garbage == [Share1 EXCEPT !.payload = Undecodable]
BlankKind == [Share1 EXCEPT !.kind = "", !.payload = Undecodable]

Both == {"MemoryTransport", "LocalNostrEventTransport"}

AllMessages ==
    {Nonce1, Nonce2, Share1, Round2ToOne, Round2ToTwo,
     Misattributed, Unaddressed, Garbage, BlankKind}

Call(session, kind, to) == [session_id |-> session, kind |-> kind, recipient |-> to]

AllCalls ==
    {Call(1, "FrostSigningNonce", None), Call(2, "FrostSigningNonce", None),
     Call(1, "FrostSignatureShare", None),
     Call(1, "FrostDkgRound2", 1), Call(1, "FrostDkgRound2", 2),
     Call(1, AnyKind, None)}
=============================================================================
