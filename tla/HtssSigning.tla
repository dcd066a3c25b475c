----------------------------- MODULE HtssSigning -----------------------------
(***************************************************************************)
(* HTSS threshold signing of dkgkit-frost: htss_nonce, htss_sign_share and *)
(* aggregate_htss_signature_shares as the devices of a group call them,    *)
(* for several digests and signer sets at once, in any order.  No state is *)
(* kept between calls: a device holds its HtssLocalNonces, passes one by   *)
(* reference with the nonce packages it chooses, and may pass it again.    *)
(* Every device brings its own policy.                                     *)
(*                                                                         *)
(* Data.  A nonce is the pair <<i, c>>: the c-th nonce device i drew; a    *)
(* sum of nonces is the set of them.  A signature share is the record of   *)
(* what it adds up: the secret nonce, what its challenge hashes (the       *)
(* aggregate nonce, key and digest), and the Birkhoff coefficient that     *)
(* weighs the key share.  Key shares are values of a random polynomial, so *)
(* a sum of weighted shares is the key only if the weights make it so for  *)
(* every polynomial.                                                       *)
(***************************************************************************)
EXTENDS Birkhoff

CONSTANTS
    Devices,     \* participant ids of the devices that hold an HtssLocalKeyShare
    LocalShare,  \* LocalShare[i]: rank and group_key of i's share
    Degree,      \* number of coefficients of the polynomials the keys were made with
    ConfigOf,    \* ConfigOf[i]: the HierarchicalThresholdConfig device i passes
    Requests,    \* what is to be signed: group_key, digest, signer_set
    SessionIds,  \* signing session ids
    MaxNonces    \* bound: MaxNonces[i] is the most htss_nonce calls device i makes

ASSUME HtssSigningAssumption ==
    /\ Devices \subseteq Nat \ {0}
    /\ DOMAIN LocalShare = Devices
    /\ Degree \in Nat \ {0}
    /\ DOMAIN ConfigOf = Devices
    /\ \A r \in Requests : r.signer_set \in Seq(Nat \ {0})
    /\ MaxNonces \in [Devices -> Nat]

VARIABLES
    nonce_count,  \* nonce_count[i]: nonces device i has drawn
    nonces,       \* HtssNoncePackages handed out, each with an HtssLocalNonce its device keeps
    share_out,    \* HtssSignatureSharePackages returned by htss_sign_share
    signatures    \* what aggregate_htss_signature_shares returned

vars == <<nonce_count, nonces, share_out, signatures>>

SignerSet(r) == Range(r.signer_set)

NoncePackage ==
    [participant_id : Devices, signing_session_id : SessionIds,
     public_nonce : Devices \X (Nat \ {0})]

\* One package of each signer, in whatever order.
OnePerSigner(r, packages) == [SignerSet(r) -> packages]

-----------------------------------------------------------------------------
\* birkhoff_points_from_hierarchical_signer_set and
\* birkhoff_interpolation_coefficients return Ok for device i.
MayInterpolate ==
    [i \in Devices |-> [r \in Requests |->
        /\ ValidHierarchicalSignerSet(r.signer_set, ConfigOf[i])
        /\ Interpolates(BirkhoffPoints(r.signer_set, ConfigOf[i]))]]

\* Deviation: the coefficient of the first point is taken, whoever signs.
CoefficientsOfFirst(r, c) ==
    LET coefficients == Coefficients(BirkhoffPoints(r.signer_set, c))
    IN  [k \in SignerSet(r) |-> coefficients[1]]

\* The coefficient found under each signer's id.
CoefficientsById(r, c) ==
    LET coefficients == Coefficients(BirkhoffPoints(r.signer_set, c))
    IN  [k \in SignerSet(r) |->
            coefficients[CHOOSE j \in DOMAIN coefficients : r.signer_set[j] = k]]

CoefficientOf ==
    [i \in Devices |-> [r \in {q \in Requests : MayInterpolate[i][q]} |->
        CoefficientsById(r, ConfigOf[i])]]

\* validate_htss_nonce_set and validate_htss_signature_share_set: one package of each
\* signer, all of one session.
ValidPackageSet(r, pkgs) ==
    /\ \A k \in SignerSet(r) : pkgs[k].participant_id = k
    /\ \A k, l \in SignerSet(r) : pkgs[k].signing_session_id = pkgs[l].signing_session_id

\* aggregate_htss_public_nonce
AggregateNonce(pkgs) == {pkgs[k].public_nonce : k \in DOMAIN pkgs}

\* The challenge a share answers.
Challenge(nonce, r) == [nonce |-> nonce, group_key |-> r.group_key, digest |-> r.digest]

\* The weighted key share is not zero: the coefficient is not, and the key share is a
\* derivative that does not vanish.
Weighs(share) ==
    share.coefficient # 0 /\ LocalShare[share.participant_id].rank < Degree

\* The weights make the key shares add up to the key, whatever the polynomial.
WeightsReconstruct(shares) ==
    \A degree \in 0 .. Degree - 1 :
        ScalarSum([k \in DOMAIN shares |->
            ScalarMul(shares[k].coefficient,
                      DerivativeBasisScalar(degree, LocalShare[k].rank, k))])
          = IF degree = 0 THEN 1 ELSE 0

\* Deviation: the sum is handed out unverified.
SumUnverified(r, aggregate, shares) == shares # <<>>

\* schnorr.verify of the sum of the shares under the aggregate nonce.
SumVerifies(r, aggregate, shares) ==
    /\ {shares[k].nonce : k \in DOMAIN shares} = aggregate
    /\ \A k \in DOMAIN shares : Weighs(shares[k]) =>
          /\ shares[k].challenge = Challenge(aggregate, r)
          /\ LocalShare[k].group_key = r.group_key
    /\ WeightsReconstruct(shares)

-----------------------------------------------------------------------------
Init ==
    /\ nonce_count = [i \in Devices |-> 0]
    /\ nonces = {}
    /\ share_out = {}
    /\ signatures = {}

\* The nonce the next htss_nonce of i draws.
FreshNonce(i) == <<i, nonce_count[i] + 1>>

\* htss_nonce
Nonce(i, session) ==
    /\ nonce_count[i] < MaxNonces[i]
    /\ nonce_count' = [nonce_count EXCEPT ![i] = @ + 1]
    /\ nonces' = nonces \cup
          {[participant_id |-> i, signing_session_id |-> session,
            public_nonce |-> FreshNonce(i)]}
    /\ UNCHANGED <<share_out, signatures>>

\* Deviation: a nonce is matched with the list by its device only.
SameDevice(own, listed) == own.participant_id = listed.participant_id

\* The nonce is of the session of the list, which is that of any package in it.
SameSession(own, listed) == own.signing_session_id = listed.signing_session_id

\* htss_sign_share, with any nonce the device ever drew.  The list must hold a nonce
\* of the device and be of the same session, but need not hold this nonce.
SignShare(i, r) ==
    /\ i \in SignerSet(r)
    /\ MayInterpolate[i][r]
    /\ LocalShare[i].rank = ConfigOf[i].ranks[i]
    /\ \E own \in {n \in nonces : n.participant_id = i} :
       \E pkgs \in OnePerSigner(r, nonces) :
          /\ ValidPackageSet(r, pkgs)
          /\ SameSession(own, pkgs[i])
          /\ share_out' = share_out \cup
                {[participant_id |-> i,
                  signing_session_id |-> own.signing_session_id,
                  nonce |-> own.public_nonce,
                  challenge |-> Challenge(AggregateNonce(pkgs), r),
                  coefficient |-> CoefficientOf[i][r][i]]}
    /\ UNCHANGED <<nonce_count, nonces, signatures>>

\* aggregate_htss_signature_shares by device i.  The session of the nonces is not
\* compared with that of the shares.
Aggregate(i, r) ==
    /\ ValidHierarchicalSignerSet(r.signer_set, ConfigOf[i])
    /\ \E pkgs \in OnePerSigner(r, nonces) :
          /\ ValidPackageSet(r, pkgs)
          /\ \E shares \in OnePerSigner(r, share_out) :
                /\ ValidPackageSet(r, shares)
                /\ SumVerifies(r, AggregateNonce(pkgs), shares)
                /\ signatures' = signatures \cup
                      {[request |-> r, nonces |-> AggregateNonce(pkgs),
                        shares |-> {shares[k] : k \in DOMAIN shares}]}
    /\ UNCHANGED <<nonce_count, nonces, share_out>>

Next ==
    \E i \in Devices :
        \/ \E session \in SessionIds : Nonce(i, session)
        \/ \E r \in Requests : SignShare(i, r) \/ Aggregate(i, r)

Spec == Init /\ [][Next]_vars

-----------------------------------------------------------------------------
\* Type correctness of the packages handed out.
TypeOK ==
    /\ nonce_count \in [Devices -> Nat]
    /\ nonces \subseteq NoncePackage
    /\ \A s \in share_out :
          /\ s.participant_id \in Devices
          /\ s.signing_session_id \in SessionIds
          /\ s.nonce \in Devices \X (Nat \ {0})
    /\ \A sig \in signatures : sig.request \in Requests /\ sig.shares \subseteq share_out

\* sig has a share of signer k, made with k's nonce of the aggregate in one of the
\* sessions the aggregate was collected in, and if the share weighs anything it was
\* made for this very digest, key and aggregate.
SpeaksFor(sig, k) ==
    \E s \in sig.shares :
        /\ s.participant_id = k
        /\ s.nonce \in sig.nonces
        /\ [participant_id |-> k, signing_session_id |-> s.signing_session_id,
            public_nonce |-> s.nonce] \in nonces
        /\ Weighs(s) => s.challenge = Challenge(sig.nonces, sig.request)

\* A signature that aggregates speaks for its signers, although the nonce list and the
\* nonce are passed to htss_sign_share separately, the aggregator passes the nonces
\* again, and shares are not verified one by one: every signer's share is made with its
\* own nonce of this aggregate and session, and every share with weight is made for
\* this digest, key and aggregate.
AggregateSpeaksForSigners ==
    \A sig \in signatures :
        /\ \A k \in SignerSet(sig.request) : SpeaksFor(sig, k)
        /\ \A s, t \in sig.shares : s.signing_session_id = t.signing_session_id

\* No secret nonce was used for two different shares: what the guides ask of callers.
NoncesUsedOnce ==
    \A s, t \in share_out : s.nonce = t.nonce => s = t

\* As long as callers use each HtssLocalNonce once, a share that weighs anything is in
\* signatures of one digest under one key and aggregate nonce only.
SingleUseKeepsSignaturesApart ==
    NoncesUsedOnce =>
        \A a, b \in signatures : \A s \in a.shares, t \in b.shares :
            s.nonce = t.nonce /\ Weighs(s) =>
                Challenge(a.nonces, a.request) = Challenge(b.nonces, b.request)

\* All of these nonces were drawn for the session.
DrawnFor(session, drawn) ==
    \A n \in drawn : \E pkg \in nonces :
        pkg.public_nonce = n /\ pkg.signing_session_id = session

\* A nonce serves one session, although a device may hold nonces of several sessions at
\* once and may pass one again: whatever shares were made with it, the nonce and all the
\* nonces their challenges hash were drawn for the session these shares name.
ReuseStaysInSession ==
    \A s, t \in share_out : s.nonce = t.nonce =>
        DrawnFor(s.signing_session_id, {s.nonce} \cup s.challenge.nonce \cup t.challenge.nonce)

\* The signers of r hold shares of its key and one policy, the one the key was made for.
OnePolicy(r) ==
    \A k \in SignerSet(r) :
        /\ k \in Devices
        /\ LocalShare[k].group_key = r.group_key
        /\ ConfigOf[k] = ConfigOf[r.signer_set[1]]
        /\ ConfigOf[k].threshold = Degree

\* If the signers of a request hold one policy and shares of its key, and each signs
\* once over the same nonce list, the sum verifies: whichever valid signer set it is.
HonestRoundVerifies ==
    \A r \in {q \in Requests : OnePolicy(q)} : \A pkgs \in OnePerSigner(r, nonces) :
        LET aggregate == AggregateNonce(pkgs)
            signed == {s \in share_out :
                          s.challenge = Challenge(aggregate, r) /\ s.nonce \in aggregate}
        IN  ValidPackageSet(r, pkgs) =>
                \A shares \in OnePerSigner(r, signed) :
                    ValidPackageSet(r, shares) => SumVerifies(r, aggregate, shares)
=============================================================================
