------------------------------ MODULE FrostDkg ------------------------------
(***************************************************************************)
(* FrostDkgSession of dkgkit-frost: the per-device FROST key generation    *)
(* (round1, round2, finalize) as the devices of one ceremony run it, in    *)
(* any order, with round1 repeated, sessions recreated and packages        *)
(* passed late, twice or not at all.                                       *)
(*                                                                         *)
(* Data.  What round1 draws is a random polynomial.  It is the pair        *)
(* <<s, d>>: the d-th polynomial drawn by the device with id s.  A         *)
(* Round1Package carries its commitment, a Round2Package its value at the  *)
(* recipient's index.  A sum of polynomials of different devices, or of    *)
(* their values at one index, is the set of the polynomials summed: two    *)
(* sums agree iff the sets do, up to a collision in a 256-bit field.       *)
(***************************************************************************)
EXTENDS Integers, FiniteSets

CONSTANTS
    N,          \* config.threshold.participants
    Sessions,   \* ids the devices pass to create_frost_session, some maybe above N
    Broken,     \* ids under which a package with malformed bytes may arrive
    MaxDraws    \* bound: MaxDraws[s] is the most round1 calls device s makes

ASSUME DkgAssumption ==
    /\ N \in Nat \ {0}
    /\ Sessions \subseteq Nat \ {0}
    /\ Broken \subseteq Sessions
    /\ MaxDraws \in [Sessions -> Nat]

VARIABLES
    draws,            \* draws[s]: polynomials device s has drawn
    pending,          \* pending[s]: DkgRuntime.pending_secret_shares, NoRuntime if None
    round1_packages,  \* round1_packages[s]: DkgRuntime.round1_packages, id -> bytes
    round1_out,       \* Round1Packages returned by round1
    round2_out,       \* Round2Packages returned by round2
    local_shares      \* local_shares[s]: the LocalKeyShares finalize returned to s

vars == <<draws, pending, round1_packages, round1_out, round2_out, local_shares>>

Polynomials == Sessions \X (Nat \ {0})

\* Bytes no keygen input or scalar decodes from, or which the coordinator refuses
\* (wrong number of coefficients, bad proof of possession).
Malformed == <<0, 0>>

\* The runtime cell holds None: round1 was not called on this session object.
NoRuntime == <<0, 1>>

Bytes == Polynomials \cup {Malformed}

Round1Package == [participant_id : Sessions, bytes : Bytes]
Round2Package == [sender : Sessions, recipient : Sessions \cup 1..N, bytes : Bytes]
LocalKeyShare == [group_key : SUBSET Polynomials, secret_share : SUBSET Polynomials]

\* The slices of at most max elements of S.
Slices(S, max) == UNION {[1..m -> S] : m \in 0..max}

\* What an application may hold: the packages produced, and malformed ones.
Round1Inputs == round1_out \cup [participant_id : Broken, bytes : {Malformed}]

\* What the filter on the recipient leaves of the packages held for s.
Round2Inputs(s) ==
    {p \in round2_out : p.recipient = s}
        \cup [sender : Broken, recipient : {s}, bytes : {Malformed}]

-----------------------------------------------------------------------------
\* Deviation: the contributor is numbered from zero.
KeygenInputFromZero(s) == <<s - 1, draws[s] + 1>>

\* Contributor::gen_keygen_input: the polynomial the next round1 of s draws.
KeygenInput(s) == <<s, draws[s] + 1>>

\* Deviation: one index too many.
ShareIndicesInclusive == 1 .. N + 1

\* share_indices: who gets a share of a polynomial.
ShareIndices == 1..N

\* validate_round1_set: the count, every id in range, no id twice.
ValidRound1Set(pkgs) ==
    /\ DOMAIN pkgs = 1..N
    /\ \A i \in DOMAIN pkgs : pkgs[i].participant_id <= N
    /\ \A i, j \in DOMAIN pkgs :
          i # j => pkgs[i].participant_id # pkgs[j].participant_id

\* The map a list of packages is collected into, keyed by participant id.
ById(pkgs) ==
    [k \in {pkgs[i].participant_id : i \in DOMAIN pkgs} |->
        pkgs[CHOOSE i \in DOMAIN pkgs : pkgs[i].participant_id = k].bytes]

\* aggregate_keygen_inputs: the coordinator takes every input and misses none.
Aggregates(m) == DOMAIN m = 1..N /\ \A k \in DOMAIN m : m[k] # Malformed

\* AggKeygenInput: the sum of the committed polynomials, its shared_key the group key.
AggregatePolynomial(m) == {m[k] : k \in DOMAIN m}

\* collect_secret_inputs: the sum of the values received.
CollectSecretInputs(pkgs) == {pkgs[i].bytes : i \in DOMAIN pkgs}

\* receive_secret_share: the summed value lies on the aggregate polynomial.
ReceiveSecretShare(m, share) == share = AggregatePolynomial(m)

-----------------------------------------------------------------------------
Init ==
    /\ draws = [s \in Sessions |-> 0]
    /\ pending = [s \in Sessions |-> NoRuntime]
    /\ round1_packages = [s \in Sessions |-> [k \in {} |-> Malformed]]
    /\ round1_out = {}
    /\ round2_out = {}
    /\ local_shares = [s \in Sessions |-> {}]

\* FrostDkgSession::new for a device whose session object is gone (a restart):
\* the runtime is lost, the packages already handed out are not.
NewSession(s) ==
    /\ pending' = [pending EXCEPT ![s] = NoRuntime]
    /\ round1_packages' = [round1_packages EXCEPT ![s] = [k \in {} |-> Malformed]]
    /\ UNCHANGED <<draws, round1_out, round2_out, local_shares>>

\* round1: always draws afresh and replaces the whole runtime.
Round1(s) ==
    LET poly == KeygenInput(s) IN
    /\ draws[s] < MaxDraws[s]
    /\ draws' = [draws EXCEPT ![s] = @ + 1]
    /\ pending' = [pending EXCEPT ![s] = poly]
    /\ round1_packages' = [round1_packages EXCEPT ![s] = [k \in {s} |-> poly]]
    /\ round1_out' = round1_out \cup {[participant_id |-> s, bytes |-> poly]}
    /\ UNCHANGED <<round2_out, local_shares>>

\* round2: the set is stored before its inputs are aggregated, so a call that
\* fails on them still replaces it; only a call that succeeds returns shares.
Round2(s) ==
    /\ pending[s] # NoRuntime
    /\ \E pkgs \in Slices(Round1Inputs, N) :
          /\ ValidRound1Set(pkgs)
          /\ round1_packages' = [round1_packages EXCEPT ![s] = ById(pkgs)]
          /\ round2_out' = IF Aggregates(ById(pkgs))
                           THEN round2_out \cup
                                  [sender : {s}, recipient : ShareIndices, bytes : {pending[s]}]
                           ELSE round2_out
    /\ UNCHANGED <<draws, pending, round1_out, local_shares>>

\* The checks of finalize on the shares addressed to the caller.
ValidRound2Set(pkgs) ==
    /\ DOMAIN pkgs = 1..N
    /\ \A i, j \in DOMAIN pkgs : i # j => pkgs[i].sender # pkgs[j].sender
    /\ \A i \in DOMAIN pkgs : pkgs[i].bytes # Malformed

\* Deviation: the summed share is not verified against the aggregate input.
FinalizeUnverified(s) ==
    LET m == round1_packages[s] IN
    /\ pending[s] # NoRuntime
    /\ Cardinality(DOMAIN m) = N
    /\ Aggregates(m)
    /\ \E pkgs \in Slices(Round2Inputs(s), N) :
          /\ ValidRound2Set(pkgs)
          /\ local_shares' = [local_shares EXCEPT ![s] = @ \cup
                {[group_key |-> AggregatePolynomial(m),
                  secret_share |-> CollectSecretInputs(pkgs)]}]
    /\ UNCHANGED <<draws, pending, round1_packages, round1_out, round2_out>>

\* finalize: every error leaves the session as it was.
Finalize(s) ==
    LET m == round1_packages[s] IN
    /\ pending[s] # NoRuntime
    /\ Cardinality(DOMAIN m) = N
    /\ Aggregates(m)
    /\ \E pkgs \in Slices(Round2Inputs(s), N) :
          /\ ValidRound2Set(pkgs)
          /\ ReceiveSecretShare(m, CollectSecretInputs(pkgs))
          /\ local_shares' = [local_shares EXCEPT ![s] = @ \cup
                {[group_key |-> AggregatePolynomial(m),
                  secret_share |-> CollectSecretInputs(pkgs)]}]
    /\ UNCHANGED <<draws, pending, round1_packages, round1_out, round2_out>>

Next ==
    \E s \in Sessions :
        NewSession(s) \/ Round1(s) \/ Round2(s) \/ Finalize(s)

Spec == Init /\ [][Next]_vars

-----------------------------------------------------------------------------
\* Type correctness of the session cells and of the packages handed out.
TypeOK ==
    /\ draws \in [Sessions -> Nat]
    /\ pending \in [Sessions -> Polynomials \cup {NoRuntime}]
    /\ \A s \in Sessions :
          /\ DOMAIN round1_packages[s] \subseteq Sessions
          /\ \A k \in DOMAIN round1_packages[s] : round1_packages[s][k] \in Bytes
    /\ DOMAIN round1_packages = Sessions
    /\ round1_out \subseteq Round1Package
    /\ round2_out \subseteq Round2Package
    /\ local_shares \in [Sessions -> SUBSET LocalKeyShare]

\* Polynomials of which device k has sent at least one share in round 2.
Released(k) == {p.bytes : p \in {q \in round2_out : q.sender = k}}

\* A local share is worth something only together with the others: whatever
\* finalize returned sums exactly one polynomial of every participant, each one
\* drawn by that participant and sent by it to this device in a round2 call that
\* succeeded, and its group key is the key of the same polynomials.
EveryoneContributed ==
    \A s \in Sessions : \A share \in local_shares[s] :
        /\ share.secret_share = share.group_key
        /\ \A k \in 1..N : \E poly \in share.group_key :
              /\ \A other \in share.group_key : other[1] = k <=> other = poly
              /\ [sender |-> k, recipient |-> s, bytes |-> poly] \in round2_out
        /\ \A poly \in share.group_key : poly[1] \in 1..N

\* Devices derive the same group key (what the ceremony is for) as long as no
\* participant let two different polynomials out of round2.  Repeating round1, or
\* restarting, before round2 has answered can therefore never split the key, in
\* whatever mix of old and new packages the devices finalize.
AgreementUnlessReleasedTwice ==
    (\A k \in 1..N : \A p, q \in Released(k) : p = q) =>
        \A s, t \in Sessions : \A a \in local_shares[s], b \in local_shares[t] :
            a.group_key = b.group_key

\* create_frost_session does not compare the local id with the participant count.
\* A device with an id above it can run round1 and round2 but never gets a share.
OutsiderNeverFinalizes ==
    \A s \in Sessions : local_shares[s] # {} => s \in 1..N
=============================================================================
