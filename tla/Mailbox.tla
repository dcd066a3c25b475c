------------------------------- MODULE Mailbox -------------------------------
(***************************************************************************)
(* What the Transport trait of dkgkit-transport promises its readers: each *)
(* has a box that fills with messages that were published and are meant    *)
(* for the reader, possibly late, more than once or never, and from which  *)
(* drain_matching takes exactly what a call selects, leaving the rest in   *)
(* its order.                                                              *)
(***************************************************************************)
EXTENDS Sequences

CONSTANTS
    Messages,        \* the messages that may be published
    Readers,         \* the holders of boxes
    Meant(_, _),     \* Meant(r, m): m may be put into the box of r
    Calls,           \* the drain_matching calls
    Selects(_, _)    \* Selects(call, m): session and predicate of the call match m

VARIABLES
    sent,  \* set of messages handed to publish
    box,   \* box[r]: sequence of messages waiting for r
    taken  \* taken[r]: set of messages handed out to r

Init ==
    /\ sent = {}
    /\ box = [r \in Readers |-> <<>>]
    /\ taken = [r \in Readers |-> {}]

Deposit(r, m) ==
    /\ Meant(r, m)
    /\ box' = [box EXCEPT ![r] = Append(@, m)]

\* A message is published, and may be put into one of the boxes at once.
Publish(m) ==
    /\ sent' = sent \cup {m}
    /\ UNCHANGED box \/ \E r \in Readers : Deposit(r, m)
    /\ UNCHANGED taken

\* A published message arrives.
Arrive(r, m) ==
    /\ m \in sent
    /\ Deposit(r, m)
    /\ UNCHANGED <<sent, taken>>

\* drain_matching
Take(r, call) ==
    LET Other(m) == ~Selects(call, m) IN
    /\ box' = [box EXCEPT ![r] = SelectSeq(@, Other)]
    /\ taken' = [taken EXCEPT ![r] =
                    @ \cup {m \in {box[r][i] : i \in DOMAIN box[r]} : Selects(call, m)}]
    /\ UNCHANGED sent

Next ==
    \/ \E m \in Messages : Publish(m)
    \/ \E r \in Readers : \E m \in Messages : Arrive(r, m)
    \/ \E r \in Readers : \E call \in Calls : Take(r, call)

Spec == Init /\ [][Next]_<<sent, box, taken>>
=============================================================================
