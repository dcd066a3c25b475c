---------------------------- MODULE FrostSigning ----------------------------
(***************************************************************************)
(* SigningRequest and FrostSigningSession of dkgkit-frost: nonce,          *)
(* sign_share and aggregate as the devices of a group call them, for       *)
(* several requests at once (which may share a session id or a digest),    *)
(* in any order, with nonces regenerated, sessions recreated and packages  *)
(* passed late, twice, to the wrong request or not at all.                 *)
(*                                                                         *)
(* Data.  A nonce is the pair <<i, c>>: the c-th nonce device i drew.  Its *)
(* public half is named by the same pair.  A signature share is the record *)
(* of what went into it: the secret nonce, and the nonce map, digest and   *)
(* group key its challenge and binding factor hash.  It verifies against   *)
(* other values only by a collision of hashes, which the model excludes.   *)
(***************************************************************************)
EXTENDS SignerPolicy

CONSTANTS
    Devices,    \* participant ids of the devices that hold a LocalKeyShare
    ShareKey,   \* ShareKey[i]: the group_key of device i's share
    Handles,    \* the signing requests; two handles may carry equal requests
    Request,    \* Request[h]: session_id, group_key, message_digest, signer_set
    PolicyOf,   \* PolicyOf[h]: the SigningPolicy h is created under
    Broken,     \* ids under which a nonce package with malformed bytes may arrive
    MaxNonces   \* bound: MaxNonces[i] is the most nonce calls device i makes

SessionIds == {Request[h].session_id : h \in Handles}

ASSUME SigningAssumption ==
    /\ Devices \subseteq Nat \ {0}
    /\ DOMAIN ShareKey = Devices
    /\ DOMAIN Request = Handles
    /\ \A h \in Handles : Request[h].signer_set \in Seq(Nat \ {0})
    /\ Broken \subseteq Devices
    /\ MaxNonces \in [Devices -> Nat]

VARIABLES
    opened,         \* handles whose SigningRequest was created
    nonce_count,    \* nonce_count[i]: nonces device i has drawn
    nonce_runtime,  \* nonce_runtime[i][h]: the cell of i's session for h, 0 if None
    nonce_out,      \* NoncePackages returned by nonce
    share_out,      \* SignatureSharePackages returned by sign_share
    signatures      \* what aggregate returned

vars == <<opened, nonce_count, nonce_runtime, nonce_out, share_out, signatures>>

Nonces == Devices \X (Nat \ {0})

\* Bytes no public nonce decodes from.
Malformed == <<0, 0>>

NoncePackage ==
    [participant_id : Devices, signing_session_id : SessionIds,
     public_nonce : Nonces \cup {Malformed}]

\* The slices of at most max elements of S.
Slices(S, max) == UNION {[1..m -> S] : m \in 0..max}

SignerSet(h) == Range(Request[h].signer_set)

\* What a caller may hold: the packages produced, and malformed ones.
NonceInputs ==
    nonce_out \cup [participant_id : Broken, signing_session_id : SessionIds,
                    public_nonce : {Malformed}]

-----------------------------------------------------------------------------
\* nonces_to_map returns Ok: every package is of this session, from a signer,
\* decodes and is the only one of its sender, and none is missing.
NoncesToMapOk(pkgs, h) ==
    /\ \A i \in DOMAIN pkgs :
          /\ pkgs[i].signing_session_id = Request[h].session_id
          /\ pkgs[i].participant_id \in SignerSet(h)
          /\ pkgs[i].public_nonce # Malformed
    /\ \A i, j \in DOMAIN pkgs :
          i # j => pkgs[i].participant_id # pkgs[j].participant_id
    /\ Cardinality(DOMAIN pkgs) = Len(Request[h].signer_set)

\* The map it returns.
NoncesMap(pkgs) ==
    [k \in {pkgs[i].participant_id : i \in DOMAIN pkgs} |->
        pkgs[CHOOSE i \in DOMAIN pkgs : pkgs[i].participant_id = k].public_nonce]

\* validate_signature_share_set: of this session, from signers, one of each.
ValidSignatureShareSet(shares, h) ==
    /\ \A i \in DOMAIN shares :
          /\ shares[i].signing_session_id = Request[h].session_id
          /\ shares[i].participant_id \in SignerSet(h)
    /\ \A i, j \in DOMAIN shares :
          i # j => shares[i].participant_id # shares[j].participant_id
    /\ Cardinality(DOMAIN shares) = Len(Request[h].signer_set)

\* verify_signature_share: the share was made with the secret half of the nonce
\* the map has for its signer, over this map, digest and key.
VerifyShare(share, nonces, h) ==
    /\ share.nonce = nonces[share.participant_id]
    /\ share.nonces = nonces
    /\ share.message_digest = Request[h].message_digest
    /\ share.group_key = Request[h].group_key

-----------------------------------------------------------------------------
Init ==
    /\ opened = {}
    /\ nonce_count = [i \in Devices |-> 0]
    /\ nonce_runtime = [i \in Devices |-> [h \in Handles |-> 0]]
    /\ nonce_out = {}
    /\ share_out = {}
    /\ signatures = {}

\* SigningRequest::new_with_policy (SigningRequest::new under a Threshold policy).
NewRequest(h) ==
    /\ ValidSignerSetWithPolicy(Request[h].signer_set, PolicyOf[h])
    /\ opened' = opened \cup {h}
    /\ UNCHANGED <<nonce_count, nonce_runtime, nonce_out, share_out, signatures>>

\* FrostSigningSession::new, again where there was a session before (a restart):
\* the cell is empty, the packages handed out are not taken back.
NewSession(i, h) ==
    /\ h \in opened
    /\ nonce_runtime' = [nonce_runtime EXCEPT ![i][h] = 0]
    /\ UNCHANGED <<opened, nonce_count, nonce_out, share_out, signatures>>

\* nonce: draws afresh on every call and replaces what the cell held.  It does
\* not ask whether the caller is in the signer set.
Nonce(i, h) ==
    /\ h \in opened
    /\ ShareKey[i] = Request[h].group_key
    /\ nonce_count[i] < MaxNonces[i]
    /\ nonce_count' = [nonce_count EXCEPT ![i] = @ + 1]
    /\ nonce_runtime' = [nonce_runtime EXCEPT ![i][h] = nonce_count[i] + 1]
    /\ nonce_out' = nonce_out \cup
          {[participant_id |-> i, signing_session_id |-> Request[h].session_id,
            public_nonce |-> <<i, nonce_count[i] + 1>>]}
    /\ UNCHANGED <<opened, share_out, signatures>>

\* Deviation: sign_share does not insist on a nonce.
HasNonceUnchecked(i, h) == TRUE

\* The cell holds a nonce, "nonce must be generated before sign_share".
HasNonce(i, h) == nonce_runtime[i][h] # 0

\* Deviation: the nonce is read but stays in the cell.
TakenByReference(i, h) == nonce_runtime

\* The cell after sign_share took the nonce out of it.
Taken(i, h) == [nonce_runtime EXCEPT ![i][h] = 0]

\* sign_share: the nonce leaves the cell before the nonce packages are looked at,
\* so a call that fails on them has spent it.
SignShare(i, h) ==
    /\ h \in opened
    /\ ShareKey[i] = Request[h].group_key
    /\ i \in SignerSet(h)
    /\ HasNonce(i, h)
    /\ nonce_runtime' = Taken(i, h)
    /\ \E pkgs \in Slices(NonceInputs, Len(Request[h].signer_set)) :
          share_out' =
            IF NoncesToMapOk(pkgs, h)
            THEN share_out \cup
                  {[participant_id |-> i,
                    signing_session_id |-> Request[h].session_id,
                    public_nonce |-> NoncesMap(pkgs)[i],
                    nonce |-> <<i, nonce_runtime[i][h]>>,
                    nonces |-> NoncesMap(pkgs),
                    message_digest |-> Request[h].message_digest,
                    group_key |-> ShareKey[i]]}
            ELSE share_out
    /\ UNCHANGED <<opened, nonce_count, nonce_out, signatures>>

\* Deviation: the shares are combined without being verified.
AggregateUnverified(h) ==
    /\ h \in opened
    /\ \E shares \in [1..Len(Request[h].signer_set) -> share_out] :
          /\ ValidSignatureShareSet(shares, h)
          /\ NoncesToMapOk(shares, h)
          /\ signatures' = signatures \cup {[handle |-> h, nonces |-> NoncesMap(shares)]}
    /\ UNCHANGED <<opened, nonce_count, nonce_runtime, nonce_out, share_out>>

\* aggregate, by whoever holds the request and shares: the nonce map is rebuilt
\* from the nonces the shares announce.  A call that fails changes nothing.
Aggregate(h) ==
    /\ h \in opened
    /\ \E shares \in [1..Len(Request[h].signer_set) -> share_out] :
          /\ ValidSignatureShareSet(shares, h)
          /\ NoncesToMapOk(shares, h)
          /\ \A i \in DOMAIN shares : VerifyShare(shares[i], NoncesMap(shares), h)
          /\ signatures' = signatures \cup {[handle |-> h, nonces |-> NoncesMap(shares)]}
    /\ UNCHANGED <<opened, nonce_count, nonce_runtime, nonce_out, share_out>>

Next ==
    \E h \in Handles :
        \/ NewRequest(h)
        \/ Aggregate(h)
        \/ \E i \in Devices : NewSession(i, h) \/ Nonce(i, h) \/ SignShare(i, h)

Spec == Init /\ [][Next]_vars

-----------------------------------------------------------------------------
\* Type correctness of the session cells and of the packages handed out.
TypeOK ==
    /\ opened \subseteq Handles
    /\ nonce_count \in [Devices -> Nat]
    /\ nonce_runtime \in [Devices -> [Handles -> Nat]]
    /\ nonce_out \subseteq NoncePackage
    /\ \A s \in share_out :
          /\ s.participant_id \in Devices
          /\ s.nonce \in Nonces
          /\ s.nonce[1] = s.participant_id
    /\ \A sig \in signatures : sig.handle \in opened

\* Secret nonce material is consumed by sign_share: over all requests, repeated
\* nonce and sign_share calls and restarts, no two different signature shares are
\* ever made with one secret nonce.
NonceSignsOnce ==
    \A s, t \in share_out : s.nonce = t.nonce => s = t

\* A signature aggregate accepts speaks for its signers: they are the signer set
\* of a request its policy accepts, and every one of them called sign_share for
\* this very digest and group key, with its own nonce of the aggregate.  Shares of
\* another request with the same session id, or made with a nonce that nonce has
\* replaced since, never get into one.
AggregateSpeaksForSigners ==
    \A sig \in signatures :
        /\ ValidSignerSetWithPolicy(Request[sig.handle].signer_set, PolicyOf[sig.handle])
        /\ DOMAIN sig.nonces = SignerSet(sig.handle)
        /\ \A k \in DOMAIN sig.nonces : \E s \in share_out :
              /\ s.participant_id = k
              /\ s.nonce = sig.nonces[k]
              /\ s.nonces = sig.nonces
              /\ s.message_digest = Request[sig.handle].message_digest
              /\ ShareKey[k] = Request[sig.handle].group_key

\* Two aggregate signatures in which some signer uses the same nonce are one and
\* the same: same nonces of all signers, same digest, same key.
NoNonceInTwoSignatures ==
    \A a, b \in signatures :
        (\E k \in DOMAIN a.nonces \cap DOMAIN b.nonces : a.nonces[k] = b.nonces[k]) =>
            /\ a.nonces = b.nonces
            /\ Request[a.handle].message_digest = Request[b.handle].message_digest
            /\ Request[a.handle].group_key = Request[b.handle].group_key
=============================================================================
