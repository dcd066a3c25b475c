------------------------------- MODULE HtssDkg -------------------------------
(***************************************************************************)
(* The distributed HTSS key generation of dkgkit-frost as the devices of a *)
(* group call it through HtssDkgService: htss_dkg_round1, htss_dkg_round2  *)
(* and finalize_htss_dkg, in any order, with round 1 repeated and packages *)
(* passed late, twice or not at all.  The functions keep nothing between   *)
(* calls: every device passes the round 1 packages to round 2 and again to *)
(* finalize, and may pass others.  Devices may hold different policies.    *)
(*                                                                         *)
(* Data.  The polynomial device s draws the d-th time is <<s, d>>.  A      *)
(* Round1Package carries its commitments, a Round2Package its derivative   *)
(* at the recipient.  Sums are sets of polynomials, as in FrostDkg.  A     *)
(* call that fails changes nothing, so only lists it may accept are        *)
(* offered to it.                                                          *)
(***************************************************************************)
EXTENDS SignerPolicy

CONSTANTS
    Devices,   \* the participants that run the protocol
    ConfigOf,  \* ConfigOf[s]: the HierarchicalThresholdConfig of device s
    MaxDraws   \* bound: MaxDraws[s] is the most round 1 calls device s makes

ASSUME HtssDkgAssumption ==
    /\ Devices \subseteq Nat \ {0}
    /\ DOMAIN ConfigOf = Devices
    /\ \A s \in Devices :
          /\ ConfigOf[s].threshold \in Nat \ {0}
          /\ DOMAIN ConfigOf[s].ranks \subseteq Nat \ {0}
          /\ \A k \in DOMAIN ConfigOf[s].ranks : ConfigOf[s].ranks[k] \in Nat
    /\ MaxDraws \in [Devices -> Nat]

VARIABLES
    draws,          \* draws[s]: polynomials device s has drawn
    round1_states,  \* round1_states[s]: the polynomials of the HtssDkgRound1States s holds
    round1_out,     \* HtssDkgRound1Packages returned by round 1
    round2_out,     \* HtssDkgRound2Packages returned by round 2
    finalized       \* finalized[s]: what finalize_htss_dkg returned to s

vars == <<draws, round1_states, round1_out, round2_out, finalized>>

Polynomials == Devices \X (Nat \ {0})

Participants(s) == DOMAIN ConfigOf[s].ranks
RankOf(s, k) == ConfigOf[s].ranks[k]
Threshold(s) == ConfigOf[s].threshold

\* commitments: how many there are.  A polynomial has one per coefficient.
Round1Package ==
    [participant_id : Devices, rank : Nat, commitments : Nat, polynomial : Polynomials]

Round2Package ==
    [sender : Devices, recipient : Nat, recipient_rank : Nat, polynomial : Polynomials]

\* A list of packages with one from each participant of s, in whatever order.
OnePerParticipant(s, packages) == [Participants(s) -> packages]

-----------------------------------------------------------------------------
\* Deviation: ranks are not compared.
ValidRound1SetUnranked(s, pkgs) ==
    \A k \in Participants(s) :
        pkgs[k].participant_id = k /\ pkgs[k].commitments = Threshold(s)

\* validate_htss_dkg_round1_set: one package of each participant, of the rank and
\* with as many commitments as the policy of s says.
ValidRound1Set(s, pkgs) ==
    \A k \in Participants(s) :
        /\ pkgs[k].participant_id = k
        /\ pkgs[k].rank = RankOf(s, k)
        /\ pkgs[k].commitments = Threshold(s)

\* Deviation: the rank in a package is compared with that of its sender.
ValidRound2SetSenderRank(s, pkgs) ==
    \A k \in Participants(s) :
        /\ pkgs[k].sender = k
        /\ pkgs[k].recipient = s
        /\ pkgs[k].recipient_rank = RankOf(s, k)

\* validate_htss_dkg_round2_set: one package from each participant, for s at its rank.
ValidRound2Set(s, pkgs) ==
    \A k \in Participants(s) :
        /\ pkgs[k].sender = k
        /\ pkgs[k].recipient = s
        /\ pkgs[k].recipient_rank = RankOf(s, s)

\* A derivative of order threshold or higher of a polynomial with threshold
\* coefficients is zero, whichever polynomial it is.
Vanishes(s) == RankOf(s, s) >= Threshold(s)

\* Deviation: the share is not held against the commitments.
DerivativeShareUnverified(s, share, round1) == share.sender = round1.participant_id

\* verify_htss_dkg_derivative_share: the value matches the sender's commitments, of
\* which only those with a non-zero basis count.
VerifyDerivativeShare(s, share, round1) ==
    /\ share.sender = round1.participant_id
    /\ Vanishes(s) \/ share.polynomial = round1.polynomial

\* The group key: the sum of the constant commitments.
GroupKey(pkgs) == {pkgs[k].polynomial : k \in DOMAIN pkgs}

\* The sum of the shares.
ShareValue(s, pkgs) == IF Vanishes(s) THEN {} ELSE {pkgs[k].polynomial : k \in DOMAIN pkgs}

-----------------------------------------------------------------------------
Init ==
    /\ draws = [s \in Devices |-> 0]
    /\ round1_states = [s \in Devices |-> {}]
    /\ round1_out = {}
    /\ round2_out = {}
    /\ finalized = [s \in Devices |-> {}]

\* The polynomial the next round 1 of s draws.
FreshPolynomial(s) == <<s, draws[s] + 1>>

\* htss_dkg_round1: a fresh polynomial on every call.
Round1(s) ==
    LET poly == FreshPolynomial(s) IN
    /\ s \in Participants(s)
    /\ draws[s] < MaxDraws[s]
    /\ draws' = [draws EXCEPT ![s] = @ + 1]
    /\ round1_states' = [round1_states EXCEPT ![s] = @ \cup {poly}]
    /\ round1_out' = round1_out \cup
          {[participant_id |-> s, rank |-> RankOf(s, s), commitments |-> Threshold(s),
            polynomial |-> poly]}
    /\ UNCHANGED <<round2_out, finalized>>

\* htss_dkg_round2, with any state the device holds: a package under its own id must
\* be in the list, but need not be the one of that state.  The state has as many
\* coefficients as the policy asks for, as the policy of a device does not change.
Round2(s) ==
    /\ s \in Participants(s)
    /\ \E poly \in round1_states[s] :
          round2_out' = round2_out \cup
            {[sender |-> s, recipient |-> k, recipient_rank |-> RankOf(s, k),
              polynomial |-> poly] : k \in Participants(s)}
    /\ \E pkgs \in OnePerParticipant(s, round1_out) : ValidRound1Set(s, pkgs)
    /\ UNCHANGED <<draws, round1_states, round1_out, finalized>>

\* finalize_htss_dkg
Finalize(s) ==
    /\ s \in Participants(s)
    /\ \E pkgs \in OnePerParticipant(s, round1_out) :
          /\ ValidRound1Set(s, pkgs)
          /\ \E shares \in OnePerParticipant(s, {p \in round2_out : p.recipient = s}) :
                /\ ValidRound2Set(s, shares)
                /\ \A k \in Participants(s) : VerifyDerivativeShare(s, shares[k], pkgs[k])
                /\ finalized' = [finalized EXCEPT ![s] = @ \cup
                      {[group_key |-> GroupKey(pkgs), share_value |-> ShareValue(s, shares)]}]
    /\ UNCHANGED <<draws, round1_states, round1_out, round2_out>>

Next == \E s \in Devices : Round1(s) \/ Round2(s) \/ Finalize(s)

Spec == Init /\ [][Next]_vars

-----------------------------------------------------------------------------
\* Type correctness of the states, packages and results.
TypeOK ==
    /\ draws \in [Devices -> Nat]
    /\ round1_states \in [Devices -> SUBSET Polynomials]
    /\ round1_out \subseteq Round1Package
    /\ round2_out \subseteq Round2Package
    /\ finalized \in [Devices ->
          SUBSET [group_key : SUBSET Polynomials, share_value : SUBSET Polynomials]]

\* Polynomials of which device k has sent at least one share in round 2.
Released(k) == {p.polynomial : p \in {q \in round2_out : q.sender = k}}

\* f sums one polynomial of each participant of s, and if the rank of s is below the
\* threshold each participant sent s the share of that very polynomial.
SumsContributions(s, f) ==
    /\ \A k \in Participants(s) : \E poly \in f.group_key :
          /\ \A other \in f.group_key : other[1] = k <=> other = poly
          /\ ~Vanishes(s) =>
                [sender |-> k, recipient |-> s, recipient_rank |-> RankOf(s, s),
                 polynomial |-> poly] \in round2_out
    /\ \A poly \in f.group_key : poly[1] \in Participants(s)
    /\ ~Vanishes(s) => f.share_value = f.group_key

\* A key a device finalizes sums one polynomial of each of its participants.  If the
\* device's rank is below the threshold, every participant sent it the share of that
\* very polynomial, and its own share sums them.  (At a higher rank its shares are
\* zero and verify against any commitments, so they attest nothing.)
EveryoneContributed ==
    \A s \in Devices : \A f \in finalized[s] : SumsContributions(s, f)

\* Devices with the same participants and ranks below the threshold derive the same
\* group key as long as no participant sent out shares of two polynomials, although
\* the round 1 list is passed anew to each call.
AgreementUnlessReleasedTwice ==
    (\A k \in Devices : \A p, q \in Released(k) : p = q) =>
        \A s, t \in Devices :
            (Participants(s) = Participants(t) /\ ~Vanishes(s) /\ ~Vanishes(t)) =>
                \A f \in finalized[s], g \in finalized[t] : f.group_key = g.group_key

\* The policies of s and k agree on what concerns the two: the threshold and both ranks.
PoliciesAgree(s, k) ==
    /\ k \in Devices
    /\ s \in Participants(k)
    /\ Threshold(k) = Threshold(s)
    /\ RankOf(k, k) = RankOf(s, k)
    /\ RankOf(k, s) = RankOf(s, s)

\* A device finalizes only with participants whose policy agrees with its own as far
\* as the two are concerned: on the threshold and on both their ranks.
FinalizedPoliciesAgree ==
    \A s \in Devices : finalized[s] # {} =>
        \A k \in Participants(s) : PoliciesAgree(s, k)

\* Conversely, nothing else stands in the way: once every participant of a device holds
\* a policy that agrees with its own and has answered round 2, there are packages
\* finalize_htss_dkg accepts, whatever was drawn again before or since and whichever of
\* its states each participant answered with.
AgreeingDevicesCanFinalize ==
    \A s \in Devices :
        (/\ s \in Participants(s)
         /\ \A k \in Participants(s) : PoliciesAgree(s, k) /\ Released(k) # {}) =>
            \E pkgs \in OnePerParticipant(s, round1_out) :
                /\ ValidRound1Set(s, pkgs)
                /\ \E shares \in OnePerParticipant(s, {p \in round2_out : p.recipient = s}) :
                      /\ ValidRound2Set(s, shares)
                      /\ \A k \in Participants(s) : VerifyDerivativeShare(s, shares[k], pkgs[k])
=============================================================================
