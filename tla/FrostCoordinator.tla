-------------------------- MODULE FrostCoordinator --------------------------
(***************************************************************************)
(* FrostCoordinator of dkgkit-sdk over the two in-process transports:      *)
(* MemoryTransport (dkgkit-transport) and LocalNostrEventTransport         *)
(* (dkgkit-nostr).  Several participants and sessions share the buffer;    *)
(* the application also publishes messages of its own through              *)
(* transport_mut.                                                          *)
(*                                                                         *)
(* Data.  A payload is what its JSON decodes to: the sender, recipient and *)
(* session the package names, or Undecodable.  Sessions are numbers, 0 the *)
(* blank session id.                                                       *)
(***************************************************************************)
EXTENDS Integers, Sequences, FiniteSets

CONSTANTS
    Backends,     \* "MemoryTransport", "LocalNostrEventTransport" or both
    Messages,     \* the ProtocolMessages that may be published
    Calls,        \* the drain_* and drain_session calls: [session_id, kind, recipient]
    MaxPublished  \* bound on publish calls

\* The kinds whose packages go to one recipient, and the kinds whose packages
\* repeat the session id of the envelope.  "" is Custom with a blank name.
DirectKinds == {"FrostDkgRound2", "HtssDkgRound2"}
SigningKinds == {"FrostSigningNonce", "FrostSignatureShare",
                 "HtssSigningNonce", "HtssSignatureShare"}

\* The kind of a drain_session call, which takes all of them.
AnyKind == "*"

\* recipient: None.  A drain_* call without a recipient argument has it too.
None == 2^16

\* A payload that is not the JSON of the package its kind announces.
Undecodable == [sender |-> None, recipient |-> None, session_id |-> 0]

ASSUME CoordinatorAssumption ==
    /\ Backends \subseteq {"MemoryTransport", "LocalNostrEventTransport"}
    /\ MaxPublished \in Nat

VARIABLES
    backend,    \* the transport the coordinator was made with
    connected,  \* the transport's flag
    published,  \* how many messages were published
    buffer,     \* messages or events: sequence of [n, message], n-th published
    delivered,  \* sequence of [n, message, call]: what drain_* calls returned
    lost        \* set of [n, message, call]: what a failed drain_* call removed

vars == <<backend, connected, published, buffer, delivered, lost>>

-----------------------------------------------------------------------------
\* ProtocolMessage::is_for
IsFor(m, participant) == m.recipient = None \/ m.recipient = participant

\* The session and predicate a call hands to drain_matching.
Selects(call, m) ==
    /\ m.session_id = call.session_id
    /\ call.kind \in {m.kind, AnyKind}
    /\ call.kind \in DirectKinds => IsFor(m, call.recipient)

\* from_protocol_message returns Ok: for the round 1 packages,
BroadcastPackageOk(m) ==
    m.recipient = None /\ m.payload # Undecodable /\ m.payload.sender = m.sender

\* for the round 2 packages, which name their recipient,
DirectPackageOk(m) ==
    /\ m.payload # Undecodable
    /\ m.payload.sender = m.sender
    /\ m.payload.recipient = m.recipient

\* for nonces and signature shares, which name their session.
SigningPackageOk(m) ==
    BroadcastPackageOk(m) /\ m.payload.session_id = m.session_id

FromProtocolMessageOk(m) ==
    \/ m.kind \in DirectKinds /\ DirectPackageOk(m)
    \/ m.kind \in SigningKinds /\ SigningPackageOk(m)
    \/ m.kind \notin DirectKinds \cup SigningKinds /\ BroadcastPackageOk(m)

\* What a call makes of a message: drain_session returns it as it is.
Accepts(call, m) == call.kind = AnyKind \/ FromProtocolMessageOk(m)

\* NostrEnvelopeEvent::to_protocol_message of an event made by
\* from_protocol_message: tags and content agree, only validate_metadata can fail.
EnvelopeOk(m) ==
    m.session_id # 0 /\ m.sender # 0 /\ m.recipient # 0 /\ m.kind # ""

\* drain_matching returns Err: LocalNostrEventTransport decodes every event it
\* holds, of whatever session.
DrainMatchingFails ==
    /\ backend = "LocalNostrEventTransport"
    /\ \E i \in DOMAIN buffer : ~EnvelopeOk(buffer[i].message)

\* Deviation: what the session filter matches is removed, of every kind.
KeptOtherSessions(call) ==
    LET Other(e) == e.message.session_id # call.session_id IN SelectSeq(buffer, Other)

\* What drain_matching keeps, and what it returns, in order of publication.
Kept(call) ==
    LET Unselected(e) == ~Selects(call, e.message) IN SelectSeq(buffer, Unselected)

\* Deviation: the matches are collected from the back.
DrainedLastFirst(call) ==
    LET Selected(e) == Selects(call, e.message)
        all == SelectSeq(buffer, Selected)
    IN  [i \in DOMAIN all |-> all[Len(all) + 1 - i]]

\* Deviation: the predicate on kind and recipient is not applied.
DrainedWholeSession(call) ==
    LET Same(e) == e.message.session_id = call.session_id IN SelectSeq(buffer, Same)

Drained(call) ==
    LET Selected(e) == Selects(call, e.message) IN SelectSeq(buffer, Selected)

\* The elements of a buffer as handed out, or removed, by a call.
By(call, e) == [n |-> e.n, message |-> e.message, call |-> call]

-----------------------------------------------------------------------------
Init ==
    /\ backend \in Backends
    /\ connected = FALSE
    /\ published = 0
    /\ buffer = <<>>
    /\ delivered = <<>>
    /\ lost = {}

\* connect and disconnect set a flag that nothing else reads.
Connect ==
    /\ connected' = TRUE
    /\ UNCHANGED <<backend, published, buffer, delivered, lost>>

Disconnect ==
    /\ connected' = FALSE
    /\ UNCHANGED <<backend, published, buffer, delivered, lost>>

\* Deviation: every envelope is built by ProtocolMessage::broadcast.
PublishAsBroadcast(m) ==
    /\ published < MaxPublished
    /\ published' = published + 1
    /\ buffer' = Append(buffer, [n |-> published + 1, message |-> [m EXCEPT !.recipient = None]])
    /\ UNCHANGED <<backend, connected, delivered, lost>>

\* The publish_* calls, and publish of the transport: connected or not.
Publish(m) ==
    /\ published < MaxPublished
    /\ published' = published + 1
    /\ buffer' = Append(buffer, [n |-> published + 1, message |-> m])
    /\ UNCHANGED <<backend, connected, delivered, lost>>

\* A drain_* call whose drain_matching fails: `self.events.drain(..)` has emptied
\* the buffer when the error returns, and `self.events = kept` is not reached.
DrainTransportError(call) ==
    /\ DrainMatchingFails
    /\ buffer' = <<>>
    /\ lost' = lost \cup {By(call, buffer[i]) : i \in DOMAIN buffer}
    /\ UNCHANGED <<backend, connected, published, delivered>>

\* A drain_* call one of whose messages is no package: the others it drained are
\* dropped with it.
DrainDecodeError(call) ==
    LET drained == Drained(call) IN
    /\ ~DrainMatchingFails
    /\ \E i \in DOMAIN drained : ~Accepts(call, drained[i].message)
    /\ buffer' = Kept(call)
    /\ lost' = lost \cup {By(call, drained[i]) : i \in DOMAIN drained}
    /\ UNCHANGED <<backend, connected, published, delivered>>

\* A drain_* call that returns packages, maybe none.
DrainOk(call) ==
    LET drained == Drained(call) IN
    /\ ~DrainMatchingFails
    /\ \A i \in DOMAIN drained : Accepts(call, drained[i].message)
    /\ buffer' = Kept(call)
    /\ delivered' = delivered \o [i \in DOMAIN drained |-> By(call, drained[i])]
    /\ UNCHANGED <<backend, connected, published, lost>>

Next ==
    \/ Connect
    \/ Disconnect
    \/ \E m \in Messages : Publish(m)
    \/ \E call \in Calls :
          DrainTransportError(call) \/ DrainDecodeError(call) \/ DrainOk(call)

Spec == Init /\ [][Next]_vars

-----------------------------------------------------------------------------
\* Type correctness of the transport's fields and of what the calls returned.
TypeOK ==
    /\ backend \in Backends
    /\ connected \in BOOLEAN
    /\ published \in 0..MaxPublished
    /\ \A i \in DOMAIN buffer :
          buffer[i].n \in 1..published /\ buffer[i].message \in Messages
    /\ \A i \in DOMAIN delivered :
          delivered[i].n \in 1..published /\ delivered[i].call \in Calls

\* Publications that are still in the buffer, that a call returned, that one lost.
Buffered == {buffer[i].n : i \in DOMAIN buffer}
Returned == {delivered[i].n : i \in DOMAIN delivered}
Dropped == {l.n : l \in lost}

\* drain_matching keeps what it does not return: over any sequence of publishes
\* and drains of all sessions, each publication is in exactly one place, and none
\* is handed out twice.
EveryMessageInOnePlace ==
    /\ Buffered \cup Returned \cup Dropped = 1..published
    /\ Len(buffer) + Len(delivered) + Cardinality(Dropped) = published

\* "draining nonces does not consume signature shares from the same signing
\* session": no package is removed by a failing call other than a call for its own
\* session, kind and recipient.
LossIsSelective ==
    \A l \in lost : FromProtocolMessageOk(l.message) => Selects(l.call, l.message)

\* Calls fail for a reason: whatever a call lost, it met an event that does not
\* decode, or it selected both this message and one that is no package.
LossHasCause ==
    \A l \in lost : \E k \in lost :
        /\ k.call = l.call
        /\ \/ backend = "LocalNostrEventTransport" /\ ~EnvelopeOk(k.message)
           \/ /\ Selects(l.call, l.message)
              /\ Selects(k.call, k.message)
              /\ ~FromProtocolMessageOk(k.message)

\* What a reader gets was sent to it: the package names the sender and session of
\* its envelope, a direct package names the caller, and successive calls of one
\* reader see publications in order.
DeliveredAsAddressed ==
    \A i \in DOMAIN delivered :
        LET d == delivered[i] IN
        /\ d.call.kind # AnyKind => d.message.payload.sender = d.message.sender
        /\ d.call.kind \in DirectKinds => d.message.payload.recipient = d.call.recipient
        /\ d.call.kind \in SigningKinds => d.message.payload.session_id = d.call.session_id
        /\ \A j \in DOMAIN delivered : i < j /\ delivered[j].call = d.call => d.n < delivered[j].n

\* The abstract mailbox with one box, the shared buffer; what a failing call removed
\* was taken out of it all the same.  A LocalNostrEventTransport, whose failing calls
\* empty it, is mapped to a mailbox nobody uses.
Buffer == IF backend = "MemoryTransport" THEN [i \in DOMAIN buffer |-> buffer[i].message] ELSE <<>>
Removed ==
    IF backend = "MemoryTransport"
    THEN {delivered[i].message : i \in DOMAIN delivered} \cup {l.message : l \in lost}
    ELSE {}
ForAnyone(r, m) == TRUE
Abstract == INSTANCE Mailbox WITH
    Readers <- {"shared"}, Meant <- ForAnyone,
    sent <- {Buffer[i] : i \in DOMAIN Buffer} \cup Removed,
    box <- [r \in {"shared"} |-> Buffer],
    taken <- [r \in {"shared"} |-> Removed]

\* MemoryTransport implements the abstract mailbox: what a publish appends stays in
\* its place until a call whose session and predicate select it takes it out, and
\* no call, failing or not, touches what another one waits for.
ImplementsMailbox == Abstract!Spec
=============================================================================
