------------------------- MODULE LiveNostrTransport -------------------------
(***************************************************************************)
(* LiveNostrTransport of dkgkit-nostr: the application thread of each      *)
(* device calls connect, publish, drain_matching and disconnect; connect   *)
(* spawns a relay thread that takes commands from a channel and pushes     *)
(* what the relay delivers to the inbound buffer.  Both waits of the       *)
(* application time out; a thread whose connect timed out runs on until it *)
(* finds its channel closed.                                               *)
(*                                                                         *)
(* Data.  A thread is <<d, g>>, the g-th connect of device d.  An event is *)
(* the fields its id hashes: author, message, the second it was made in,   *)
(* and the key and the salt it is sealed with.  The relay (external)       *)
(* stores events and delivers them to subscribed clients in any order,     *)
(* again and again or never, except to the client that sent them.  Only    *)
(* events the devices sent are modelled.  Events of other applications     *)
(* under the vault's hashtag do not pass the checks of                     *)
(* handle_inbound_event, and all they change is that their ids count as    *)
(* seen.  A well-formed event of another author with the app tag would     *)
(* pass, since the author is not looked up in the directory: who sent a    *)
(* message is for the application to establish (docs/SECURITY_MODEL.md).   *)
(***************************************************************************)
EXTENDS Integers, Sequences, FiniteSets, SequencesExt

CONSTANTS
    Devices,       \* self_id of each transport
    Messages,      \* ProtocolMessages: sender, recipient, session_id, secret (kind)
    Directory,     \* Directory[d][r]: the key device d has for participant r
    Stamps,        \* bound: the seconds in which events are made
    MaxConnects,   \* bound: MaxConnects[d] is the most threads device d spawns
    MaxPublishes   \* bound: MaxPublishes[d] is the most publish calls of device d

\* recipient: None; no key.
None == 0

\* The key of device d, and the messages device d publishes.
KeyOf(d) == d
Outbox(d) == {m \in Messages : m.sender = d}
Sessions == {m.session_id : m \in Messages}

Threads == UNION {{<<d, g>> : g \in 1..MaxConnects[d]} : d \in Devices}

\* Command::Shutdown, in a queue of Command::Publish [n, message].
Shutdown == [n |-> 0]

VARIABLES
    app,       \* app[d]: the call the application thread of d is in, with its ack
    spawned,   \* spawned[d]: threads device d has spawned
    current,   \* current[d]: generation of the thread cmd_tx and handle belong to, 0 if None
    thread,    \* thread[t]: phase, cmds (channel), open (its sender lives), ready, seen, own
    relay,     \* events stored by the relay
    inbound,   \* inbound[d]: the buffer of decoded messages
    drained,   \* drained[d]: what drain_matching returned, in order
    publishes, \* publishes[d]: number of publish calls
    sent       \* messages that reached a command channel

vars == <<app, spawned, current, thread, relay, inbound, drained, publishes, sent>>

Idle == [pc |-> "idle"]
NotSpawned ==
    [phase |-> "none", cmds |-> <<>>, open |-> FALSE, ready |-> "none", seen |-> {}, own |-> {}]

-----------------------------------------------------------------------------
\* ProtocolMessage::is_for
IsFor(m, d) == m.recipient \in {None, d}

\* is_secret_kind of a message with a recipient.
Sealed(m) == m.secret /\ m.recipient # None

\* publish finds the key it needs.
HasKey(d, m) == Sealed(m) => m.recipient \in DOMAIN Directory[d]

\* Deviation: the envelope is made without its recipient.
EventOfBroadcast(d, n, m, stamp) ==
    [author |-> d, message |-> [m EXCEPT !.recipient = None], stamp |-> stamp,
     to |-> IF Sealed(m) THEN Directory[d][m.recipient] ELSE None,
     salt |-> IF Sealed(m) THEN n ELSE None]

\* The event the relay thread of d makes of the message of the n-th publish: its
\* content is in clear, or was sealed by that publish with a salt of its own.
EventOf(d, n, m, stamp) ==
    [author |-> d, message |-> m, stamp |-> stamp,
     to |-> IF Sealed(m) THEN Directory[d][m.recipient] ELSE None,
     salt |-> IF Sealed(m) THEN n ELSE None]

\* Deviation: the recipient tag is not looked at.
ReadableByAnyone(d, e) == e.to \in {None, KeyOf(d)}

\* handle_inbound_event of an event of the application gets as far as the buffer: the
\* message is not for someone else, and decrypts if sealed.
Readable(d, e) == IsFor(e.message, d) /\ e.to \in {None, KeyOf(d)}

-----------------------------------------------------------------------------
Init ==
    /\ app = [d \in Devices |-> Idle]
    /\ spawned = [d \in Devices |-> 0]
    /\ current = [d \in Devices |-> 0]
    /\ thread = [t \in Threads |-> NotSpawned]
    /\ relay = {}
    /\ inbound = [d \in Devices |-> <<>>]
    /\ drained = [d \in Devices |-> <<>>]
    /\ publishes = [d \in Devices |-> 0]
    /\ sent = {}

\* connect of a transport that is not connected: spawns a thread and waits for ready.
Connect(d) ==
    /\ app[d] = Idle
    /\ current[d] = 0
    /\ spawned[d] < MaxConnects[d]
    /\ spawned' = [spawned EXCEPT ![d] = @ + 1]
    /\ thread' = [thread EXCEPT ![<<d, spawned[d] + 1>>] =
                     [NotSpawned EXCEPT !.phase = "starting", !.open = TRUE]]
    /\ app' = [app EXCEPT ![d] = [pc |-> "connect"]]
    /\ UNCHANGED <<current, relay, inbound, drained, publishes, sent>>

\* Deviation: a connect that times out keeps the sender of the channel alive.
ConnectReturnsLeaking(d) ==
    LET t == <<d, spawned[d]>> IN
    /\ app[d].pc = "connect"
    /\ app' = [app EXCEPT ![d] = Idle]
    /\ current' = [current EXCEPT ![d] = IF thread[t].ready = "ok" THEN spawned[d] ELSE 0]
    /\ UNCHANGED <<spawned, thread, relay, inbound, drained, publishes, sent>>

\* connect returns: Ok with the channel and handle kept, or Err, of the thread or of
\* the timeout, and both are dropped.
ConnectReturns(d) ==
    LET t == <<d, spawned[d]>>
        ok == thread[t].ready = "ok"
    IN
    /\ app[d].pc = "connect"
    /\ app' = [app EXCEPT ![d] = Idle]
    /\ current' = [current EXCEPT ![d] = IF ok THEN spawned[d] ELSE 0]
    /\ thread' = [thread EXCEPT ![t].open = ok]
    /\ UNCHANGED <<spawned, relay, inbound, drained, publishes, sent>>

\* publish, up to the wait for the ack.
Publish(d, m) ==
    /\ app[d] = Idle
    /\ current[d] # 0
    /\ HasKey(d, m)
    /\ publishes[d] < MaxPublishes[d]
    /\ publishes' = [publishes EXCEPT ![d] = @ + 1]
    /\ thread' = [thread EXCEPT ![<<d, current[d]>>].cmds =
                     Append(@, [n |-> publishes[d] + 1, message |-> m])]
    /\ app' = [app EXCEPT ![d] = [pc |-> "publish", n |-> publishes[d] + 1, message |-> m,
                                  ack |-> "none"]]
    /\ sent' = sent \cup {m}
    /\ UNCHANGED <<spawned, current, relay, inbound, drained>>

\* publish returns: after an ack Ok our own copy is put into the buffer; after an ack
\* Err or a timeout it is not, though the command may still be carried out.
PublishReturns(d) ==
    /\ app[d].pc = "publish"
    /\ app' = [app EXCEPT ![d] = Idle]
    /\ inbound' = IF app[d].ack = "ok" /\ IsFor(app[d].message, d)
                  THEN [inbound EXCEPT ![d] = Append(@, app[d].message)]
                  ELSE inbound
    /\ UNCHANGED <<spawned, current, thread, relay, drained, publishes, sent>>

\* Deviation: the buffer is emptied, not filtered.
KeptNone(d, session) == <<>>

\* What drain_matching keeps, and what it returns, for all messages of a session.
Kept(d, session) ==
    LET Other(m) == m.session_id # session IN SelectSeq(inbound[d], Other)

Matched(d, session) ==
    LET Same(m) == m.session_id = session IN SelectSeq(inbound[d], Same)

\* drain_matching, under the lock.
Drain(d, session) ==
    /\ app[d] = Idle
    /\ inbound' = [inbound EXCEPT ![d] = Kept(d, session)]
    /\ drained' = [drained EXCEPT ![d] = @ \o Matched(d, session)]
    /\ UNCHANGED <<app, spawned, current, thread, relay, publishes, sent>>

\* Deviation: disconnect joins without having sent Shutdown or dropped the sender.
DisconnectSilently(d) ==
    /\ app[d] = Idle
    /\ current[d] # 0
    /\ app' = [app EXCEPT ![d] = [pc |-> "disconnect"]]
    /\ UNCHANGED <<spawned, current, thread, relay, inbound, drained, publishes, sent>>

\* disconnect (and drop) of a connected transport, up to the join.
Disconnect(d) ==
    /\ app[d] = Idle
    /\ current[d] # 0
    /\ thread' = [thread EXCEPT ![<<d, current[d]>>].cmds = Append(@, Shutdown),
                                ![<<d, current[d]>>].open = FALSE]
    /\ app' = [app EXCEPT ![d] = [pc |-> "disconnect"]]
    /\ UNCHANGED <<spawned, current, relay, inbound, drained, publishes, sent>>

\* The thread is joined.
DisconnectReturns(d) ==
    /\ app[d].pc = "disconnect"
    /\ thread[<<d, current[d]>>].phase = "done"
    /\ app' = [app EXCEPT ![d] = Idle]
    /\ current' = [current EXCEPT ![d] = 0]
    /\ UNCHANGED <<spawned, thread, relay, inbound, drained, publishes, sent>>

-----------------------------------------------------------------------------
\* The relay thread reaches its loop, or returns early with an error.
ThreadStarts(t) ==
    /\ thread[t].phase = "starting"
    /\ \/ thread' = [thread EXCEPT ![t].phase = "running", ![t].ready = "ok"]
       \/ thread' = [thread EXCEPT ![t].phase = "done", ![t].ready = "err"]
    /\ UNCHANGED <<app, spawned, current, relay, inbound, drained, publishes, sent>>

\* cmd_rx.recv: the next Publish is taken; Shutdown, or None as the sender is gone and
\* nothing is queued, ends the loop.
HandleCommand(t) ==
    LET cmds == thread[t].cmds IN
    /\ thread[t].phase = "running"
    /\ cmds # <<>> \/ ~thread[t].open
    /\ thread' = IF cmds # <<>> /\ Head(cmds) # Shutdown
                 THEN [thread EXCEPT ![t].phase = "sending"]
                 ELSE [thread EXCEPT ![t].phase = "closing"]
    /\ UNCHANGED <<app, spawned, current, relay, inbound, drained, publishes, sent>>

\* send_event_builder returns: the relay has the event and says so, or the call fails,
\* with or without the relay having it.  The ack reaches the publish call that waits
\* for it; if that call has given up it reaches no one.
SendReturns(t) ==
    LET d == t[1]
        cmd == Head(thread[t].cmds)
    IN
    /\ thread[t].phase = "sending"
    /\ \E stamp \in Stamps, stored \in BOOLEAN, result \in {"ok", "err"} :
          LET e == EventOf(d, cmd.n, cmd.message, stamp) IN
          /\ result = "ok" => stored
          /\ relay' = IF stored THEN relay \cup {e} ELSE relay
          /\ thread' = [thread EXCEPT ![t].phase = "running",
                                      ![t].cmds = Tail(@),
                                      ![t].own = @ \cup {e}]
          /\ app' = IF app[d].pc = "publish" /\ app[d].n = cmd.n
                    THEN [app EXCEPT ![d].ack = result]
                    ELSE app
    /\ UNCHANGED <<spawned, current, inbound, drained, publishes, sent>>

\* Deviation: events are not deduplicated by id.
NewToAlways(t, e) == TRUE

\* seen.insert
NewTo(t, e) == e \notin thread[t].seen

\* handle_inbound_event of an event of a device that the relay delivers: it counts as
\* seen before it is known to be readable.
Receive(t, e) ==
    LET d == t[1] IN
    /\ thread[t].phase = "running"
    /\ e \notin thread[t].own
    /\ NewTo(t, e)
    /\ thread' = [thread EXCEPT ![t].seen = @ \cup {e}]
    /\ inbound' = IF Readable(d, e)
                  THEN [inbound EXCEPT ![d] = Append(@, e.message)]
                  ELSE inbound
    /\ UNCHANGED <<app, spawned, current, relay, drained, publishes, sent>>

\* client.disconnect, and the thread ends.
Close(t) ==
    /\ thread[t].phase = "closing"
    /\ thread' = [thread EXCEPT ![t].phase = "done"]
    /\ UNCHANGED <<app, spawned, current, relay, inbound, drained, publishes, sent>>

Next ==
    \/ \E d \in Devices :
          \/ Connect(d) \/ ConnectReturns(d)
          \/ \E m \in Outbox(d) : Publish(d, m)
          \/ PublishReturns(d)
          \/ \E session \in Sessions : Drain(d, session)
          \/ Disconnect(d) \/ DisconnectReturns(d)
    \/ \E t \in Threads :
          \/ ThreadStarts(t) \/ HandleCommand(t) \/ SendReturns(t) \/ Close(t)
          \/ \E e \in relay : Receive(t, e)

\* Started calls of the application return when they can (the two waits time out), and
\* relay threads run: select! picks its branches at random, so a command is taken
\* however much the relay delivers, and the client's calls return.  Nothing obliges
\* the relay to deliver or the application to call.
Fairness ==
    /\ \A d \in Devices :
          WF_vars(ConnectReturns(d)) /\ WF_vars(PublishReturns(d)) /\ WF_vars(DisconnectReturns(d))
    /\ \A t \in Threads :
          /\ WF_vars(ThreadStarts(t)) /\ WF_vars(HandleCommand(t))
          /\ WF_vars(SendReturns(t)) /\ WF_vars(Close(t))

Spec == Init /\ [][Next]_vars
FairSpec == Spec /\ Fairness

-----------------------------------------------------------------------------
\* Type correctness of the calls, threads and buffers.
TypeOK ==
    /\ \A d \in Devices :
          /\ app[d].pc \in {"idle", "connect", "publish", "disconnect"}
          /\ spawned[d] \in 0..MaxConnects[d]
          /\ current[d] \in 0..spawned[d]
          /\ inbound[d] \in Seq(Messages)
          /\ drained[d] \in Seq(Messages)
    /\ \A t \in Threads :
          thread[t].phase \in {"none", "starting", "running", "sending", "closing", "done"}
    /\ sent \subseteq Messages

\* The channel of a connected transport leads to a thread that is in its loop, so
\* publish never finds "relay thread is gone", and no other thread of the device can
\* be given commands: threads of timed-out connects only listen until they end.
ConnectionHasItsThread ==
    \A d \in Devices :
        /\ current[d] # 0 /\ app[d].pc # "disconnect" =>
              thread[<<d, current[d]>>].phase \in {"running", "sending"}
        /\ \A g \in 1..spawned[d] :
              thread[<<d, g>>].open =>
                  g = IF app[d].pc = "connect" THEN spawned[d] ELSE current[d]

\* How often message m is or was in the buffer of d.
Copies(d, m) ==
    Cardinality({i \in DOMAIN inbound[d] : inbound[d][i] = m})
        + Cardinality({i \in DOMAIN drained[d] : drained[d][i] = m})

\* What device d gets from others it gets once per event and thread that saw it, no
\* more and no less: with one event and one thread exactly once, however drains,
\* reconnects and late threads interleave; twice only if the message was published
\* again (a retry) or two threads of d saw the event (a reconnect, or a connect that
\* timed out while its thread went on).
OneCopyPerEventAndThread ==
    \A d \in Devices : \A m \in Messages : m.sender # d =>
        Copies(d, m) =
            Cardinality({<<g, e>> \in (1..spawned[d]) \X relay :
                            /\ e \in thread[<<d, g>>].seen
                            /\ e.message = m
                            /\ Readable(d, e)})

\* The abstract mailbox, with inbound as the boxes and drained as what was taken.
MeantFor(d, m) == IsFor(m, d)
OfSession(session, m) == m.session_id = session
Abstract == INSTANCE Mailbox WITH
    Readers <- Devices, Meant <- MeantFor, Calls <- Sessions, Selects <- OfSession,
    box <- inbound, taken <- [d \in Devices |-> ToSet(drained[d])]

\* The live transport implements the abstract mailbox: of the events the devices send,
\* in whatever order and however often the relay delivers them, every device gets only
\* messages that were published and are for it, and drain_matching takes what the
\* session selects and keeps the rest in order.
ImplementsMailbox == Abstract!Spec

\* Every call of the application returns: connect and publish by their timeouts, and
\* disconnect although it joins the thread without one, behind all queued commands.
CallsReturn == \A d \in Devices : app[d] # Idle ~> app[d] = Idle

\* A thread that its device neither uses nor waits for.
Abandoned(d, g) ==
    /\ g \in 1..spawned[d]
    /\ g # current[d]
    /\ app[d].pc = "connect" => g # spawned[d]

\* A thread whose connect timed out, whose handle and channel nobody has any more,
\* does not stay subscribed for ever: once ready it finds its channel closed and ends.
AbandonedThreadsEnd ==
    \A d \in Devices : \A g \in 1..MaxConnects[d] :
        Abandoned(d, g) ~> thread[<<d, g>>].phase = "done"
=============================================================================
