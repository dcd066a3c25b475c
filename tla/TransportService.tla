-------------------------- MODULE TransportService --------------------------
(***************************************************************************)
(* The nostr-transport-service example: one program runs the FROST key     *)
(* generation of N devices over live transports.  It composes FrostDkg     *)
(* with what LiveNostrTransport is shown to do for a device with one       *)
(* connection: a message of another device arrives at most once, at any    *)
(* time, from the relay thread, and an own message is put into the buffer  *)
(* by publish.                                                             *)
(*                                                                         *)
(* Data.  A message is its session, kind, sender, recipient and bytes.     *)
(* The program's session is 1.  Of an earlier run, made with other keys,   *)
(* the relay may still store commitments; shares of it do not decrypt.     *)
(***************************************************************************)
EXTENDS FrostDkg, Sequences, SequencesExt

CONSTANT
    Histories   \* sets of commitments of an earlier run, at most one of each device

VARIABLES
    history,    \* the commitments of an earlier run that the relay stores
    step,       \* the statement of main: [at, i], i the device it is about
    relay,      \* messages the relay stores
    seen,       \* seen[d]: messages of others delivered to device d
    inbound,    \* inbound[d]: the buffer of d's transport
    acc,        \* the packages collect has so far
    collected   \* collected[d]: round1_per_device

allVars == <<draws, pending, round1_packages, round1_out, round2_out, local_shares,
             history, step, relay, seen, inbound, acc, collected>>

\* recipient: None
All == 0

Devices == 1..N
At(at, i) == [at |-> at, i |-> i]
Done == At("done", 0)
Failed == At("failed", 0)
Faulted == At("fault", 0)

\* The statement after the one at device i: the same for the next device, or the next.
Advance(i, next) == IF i < N THEN [step EXCEPT !.i = i + 1] ELSE next

Message(session, kind, from, to, bytes) ==
    [session_id |-> session, kind |-> kind, sender |-> from, recipient |-> to, bytes |-> bytes]

IsFor(m, d) == m.recipient \in {All, d}

\* Deviation: publish leaves the own copy to the relay.
LoopbackNone(d, messages) == <<>>

\* Our own deliverable messages, which publish puts into the buffer.
Loopback(d, messages) == SetToSeq({m \in messages : IsFor(m, d)})

\* publish of messages by device d, all of which succeed.
Publishes(d, messages) ==
    /\ relay' = relay \cup messages
    /\ inbound' = [inbound EXCEPT ![d] = @ \o Loopback(d, messages)]

\* Deviation: messages of every session are drained.
SelectsAnySession(kind, m) == m.kind = kind

\* drain_round1 and drain_round2_for of a transport that holds only the caller's.
Selects(kind, m) == m.session_id = 1 /\ m.kind = kind

\* A collected list as the slice that round2 and finalize take.
Slice(messages) ==
    [k \in DOMAIN messages |-> [participant_id |-> messages[k].sender, bytes |-> messages[k].bytes]]

-----------------------------------------------------------------------------
\* The devices of an earlier run are gone, their commitments are not.
ServiceInit ==
    /\ history \in Histories
    /\ draws = [s \in Sessions |-> Cardinality({m \in history : m.sender = s})]
    /\ pending = [s \in Sessions |-> NoRuntime]
    /\ round1_packages = [s \in Sessions |-> [k \in {} |-> Malformed]]
    /\ round1_out = {[participant_id |-> m.sender, bytes |-> m.bytes] : m \in history}
    /\ round2_out = {}
    /\ local_shares = [s \in Sessions |-> {}]
    /\ step = At("round1", 1)
    /\ relay = history
    /\ seen = [d \in Devices |-> {}]
    /\ inbound = [d \in Devices |-> <<>>]
    /\ acc = <<>>
    /\ collected = [d \in Devices |-> <<>>]

\* round1 and publish_round1 of the next device.
PublishRound1 ==
    LET d == step.i IN
    /\ step.at = "round1"
    /\ Round1(d)
    /\ Publishes(d, {Message(1, "FrostDkgRound1", d, All, KeygenInput(d))})
    /\ step' = Advance(d, At("collect1", 1))
    /\ UNCHANGED <<history, seen, acc, collected>>

\* Deviation: an event is handed on each time the relay sends it.
NewToAlways(d, m) == Len(inbound[d]) < 3 * N

\* seen.insert in the relay thread
NewTo(d, m) == m \notin seen[d]

\* The relay thread of d hands on a message its client did not send, whatever main is
\* doing.
Deliver(d, m) ==
    /\ step \notin {Done, Failed, Faulted}
    /\ m.sender # d \/ m \in history
    /\ IsFor(m, d)
    /\ NewTo(d, m)
    /\ seen' = [seen EXCEPT ![d] = @ \cup {m}]
    /\ inbound' = [inbound EXCEPT ![d] = Append(@, m)]
    /\ UNCHANGED <<draws, pending, round1_packages, round1_out, round2_out, local_shares,
                   history, step, relay, acc, collected>>

\* One iteration of the loop of collect: what a drain of this kind adds, and keeps.
Drains(d, kind) ==
    LET Selected(m) == Selects(kind, m)
        Other(m) == ~Selects(kind, m)
    IN  /\ acc' = acc \o SelectSeq(inbound[d], Selected)
        /\ inbound' = [inbound EXCEPT ![d] = SelectSeq(@, Other)]

Poll(d, kind) ==
    /\ step.i = d
    /\ step.at = IF kind = "FrostDkgRound1" THEN "collect1" ELSE "collect2"
    /\ Len(acc) < N
    /\ Drains(d, kind)
    /\ UNCHANGED <<draws, pending, round1_packages, round1_out, round2_out, local_shares,
                   history, step, relay, seen, collected>>

\* collect returns enough, and main checks that it is not more.
Collected1 ==
    LET d == step.i IN
    /\ step.at = "collect1"
    /\ Len(acc) >= N
    /\ step' = IF Len(acc) = N THEN Advance(d, At("round2", 1)) ELSE Failed
    /\ collected' = [collected EXCEPT ![d] = acc]
    /\ acc' = <<>>
    /\ UNCHANGED <<draws, pending, round1_packages, round1_out, round2_out, local_shares,
                   history, relay, seen, inbound>>

\* round2 and publish_round2 of the next device; a set it refuses ends main.
PublishRound2 ==
    LET d == step.i
        packages == Slice(collected[d])
    IN
    /\ step.at = "round2"
    /\ IF ValidRound1Set(packages) /\ Aggregates(ById(packages))
       THEN /\ Round2(d)
            /\ round1_packages'[d] = ById(packages)
            /\ Publishes(d, {Message(1, "FrostDkgRound2", d, r, pending[d]) : r \in ShareIndices})
            /\ step' = Advance(d, At("collect2", 1))
       ELSE step' = Failed /\ UNCHANGED <<vars, relay, inbound>>
    /\ UNCHANGED <<history, seen, acc, collected>>

\* all_match
AllMatch ==
    \A a, b \in Devices : \A s \in local_shares[a], t \in local_shares[b] :
        s.group_key = t.group_key

\* collect returns enough round 2 packages, and finalize of the device; a set that is
\* too large or refused ends main, and so do different keys at the end.
FinalizeNext ==
    LET d == step.i
        share == {m.bytes : m \in ToSet(acc)}
    IN
    /\ step.at = "collect2"
    /\ Len(acc) >= N
    /\ \/ /\ Len(acc) = N
          /\ Cardinality({m.sender : m \in ToSet(acc)}) = N
          /\ Finalize(d)
          /\ \E made \in local_shares'[d] : made.secret_share = share
          /\ step' = Advance(d, IF AllMatch' THEN Done ELSE Failed)
       \/ /\ \/ Len(acc) # N
             \/ Cardinality({m.sender : m \in ToSet(acc)}) # N
             \/ ~ReceiveSecretShare(round1_packages[d], share)
          /\ step' = Failed
          /\ UNCHANGED vars
    /\ acc' = <<>>
    /\ UNCHANGED <<history, relay, seen, inbound, collected>>

\* A publish returns Err, or collect reaches its deadline short of packages.
Fail ==
    /\ \/ step.at \in {"round1", "round2"}
       \/ step.at \in {"collect1", "collect2"} /\ Len(acc) < N
    /\ step' = Faulted
    /\ UNCHANGED <<vars, history, relay, seen, inbound, acc, collected>>

Main ==
    \/ PublishRound1 \/ Collected1 \/ PublishRound2 \/ FinalizeNext
    \/ \E d \in Devices : Poll(d, "FrostDkgRound1") \/ Poll(d, "FrostDkgRound2")

ServiceNext ==
    \/ Main
    \/ Fail
    \/ \E d \in Devices : \E m \in relay : Deliver(d, m)

ServiceSpec == ServiceInit /\ [][ServiceNext]_allVars

\* main runs on, and the relay delivers what it stores to the devices subscribed.
FairServiceSpec ==
    /\ ServiceSpec
    /\ WF_allVars(Main)
    /\ \A d \in Devices : WF_allVars(\E m \in relay : Deliver(d, m))

-----------------------------------------------------------------------------
\* No earlier run used the session id.
OwnSession == \A m \in history : m.session_id # 1

\* Counting to N is enough under a session id of its own ("Unique per-run suffix so the
\* relay's persisted history does not leak in"): although collect only counts, and
\* messages of later rounds and earlier runs arrive in between, what a device collects
\* is one package of each participant, of this run.
CountingCollectsEveryone ==
    OwnSession => \A d \in Devices : collected[d] # <<>> =>
        /\ Len(collected[d]) = N
        /\ ToSet(collected[d]) =
              {Message(1, "FrostDkgRound1", k, All, <<k, draws[k]>>) : k \in Devices}

\* A share that some device finalizes is one of this run, to which every device
\* contributed, so all_match never fails: even if the session id was used before and
\* commitments of then leak in, a mix of runs is refused by round2 or finalize, before
\* the keys are compared.
FinalizedSharesAreOfThisRun ==
    \A d \in Devices : \A s \in local_shares[d] :
        s.group_key = {<<k, draws[k]>> : k \in Devices}

\* Under a session id of its own the key generation completes unless a publish fails or
\* a deadline passes: own copies and relayed messages add up to exactly N in every
\* collect, and no set of packages or comparison of keys is refused.
CompletesUnlessFault == OwnSession => <>(step \in {Done, Faulted})
=============================================================================
