------------------------ MODULE FrostSigning_proofs ------------------------
(***************************************************************************)
(* Proofs about FrostSigning, for every group, set of requests, policies   *)
(* and number of nonce calls.                                              *)
(***************************************************************************)
EXTENDS FrostSigning, FiniteSetTheorems, TLAPS

\* A nonce in a cell was drawn, is in no other cell of its device, and is in no
\* share: a nonce moves from its cell into at most one share.
NonceMoves ==
    /\ \A i \in Devices : \A h \in Handles :
          /\ nonce_runtime[i][h] <= nonce_count[i]
          /\ nonce_runtime[i][h] # 0 =>
                /\ \A g \in Handles : g # h => nonce_runtime[i][g] # nonce_runtime[i][h]
                /\ \A s \in share_out : s.nonce # <<i, nonce_runtime[i][h]>>
    /\ \A s \in share_out : s.nonce[2] <= nonce_count[s.participant_id]

\* A share is made under the key of its maker, and only by opened requests.
SharesOwnKey ==
    /\ \A s \in share_out : s.group_key = ShareKey[s.participant_id]
    /\ \A h \in opened : ValidSignerSetWithPolicy(Request[h].signer_set, PolicyOf[h])

\* The inductive invariant.
IInv ==
    TypeOK /\ NonceMoves /\ SharesOwnKey /\ NonceSignsOnce /\ AggregateSpeaksForSigners

USE DEF Nonces, Malformed

LEMMA InitIInv == Init => IInv
BY DEF Init, IInv, TypeOK, NonceMoves, SharesOwnKey, NonceSignsOnce,
       AggregateSpeaksForSigners

\* Every policy refuses a signer set that names a signer twice.
LEMMA PolicyDistinct ==
    ASSUME NEW signers, NEW policy, ValidSignerSetWithPolicy(signers, policy)
    PROVE  \A i, j \in DOMAIN signers : i # j => signers[i] # signers[j]
BY DEF ValidSignerSetWithPolicy, ValidSignerSet, ValidHierarchicalSignerSet,
       ValidGroupedSignerSet

\* As many packages of different signers as there are signers come from all of
\* them: counting, in nonces_to_map and validate_signature_share_set, is enough.
LEMMA CountingSigners ==
    ASSUME NEW h \in Handles,
           ValidSignerSetWithPolicy(Request[h].signer_set, PolicyOf[h]),
           NEW ids \in [1..Len(Request[h].signer_set) -> SignerSet(h)],
           \A i, j \in DOMAIN ids : i # j => ids[i] # ids[j]
    PROVE  {ids[i] : i \in DOMAIN ids} = SignerSet(h)
<1> DEFINE signers == Request[h].signer_set
           n == Len(signers)
<1>1. signers \in Seq(Nat \ {0}) /\ n \in Nat /\ DOMAIN signers = 1..n
  BY SigningAssumption
<1>2. IsFiniteSet(1..n) /\ Cardinality(1..n) = n
  BY <1>1, FS_Interval
<1>3. signers \in Surjection(1..n, SignerSet(h))
  <2>1. signers = [i \in 1..n |-> signers[i]]
    BY <1>1
  <2>2. SignerSet(h) = {signers[i] : i \in 1..n}
    BY <1>1 DEF SignerSet, Range
  <2>3. signers \in [1..n -> SignerSet(h)]
    BY <2>1, <2>2
  <2> QED
    BY <2>2, <2>3 DEF Surjection
<1>4. signers \in Injection(1..n, SignerSet(h))
  BY <1>1, <1>3, PolicyDistinct DEF Injection, IsInjective, SignerSet, Range
<1>5. IsFiniteSet(SignerSet(h)) /\ Cardinality(SignerSet(h)) = Cardinality(1..n)
  BY <1>2, <1>3, <1>4, FS_Surjection
<1>6. ids \in Injection(1..n, SignerSet(h))
  BY DEF Injection, IsInjective
<1>7. ids \in Surjection(1..n, SignerSet(h))
  BY <1>5, <1>6, FS_Injection
<1> QED
  BY <1>7 DEF Surjection

\* The map collected from packages maps an id to the nonce of a package under it.
LEMMA NoncesMapValue ==
    ASSUME NEW pkgs, NEW k \in DOMAIN NoncesMap(pkgs)
    PROVE  \E i \in DOMAIN pkgs :
              pkgs[i].participant_id = k /\ NoncesMap(pkgs)[k] = pkgs[i].public_nonce
<1>1. PICK i \in DOMAIN pkgs : pkgs[i].participant_id = k
  BY DEF NoncesMap
<1> DEFINE c == CHOOSE j \in DOMAIN pkgs : pkgs[j].participant_id = k
<1>2. c \in DOMAIN pkgs /\ pkgs[c].participant_id = k
  BY <1>1
<1>3. NoncesMap(pkgs)[k] = pkgs[c].public_nonce
  BY DEF NoncesMap
<1> QED
  BY <1>2, <1>3

LEMMA NextIInv == IInv /\ [Next]_vars => IInv'
<1> SUFFICES ASSUME IInv, [Next]_vars
             PROVE  IInv'
  OBVIOUS
<1> USE SigningAssumption
<1>1. ASSUME NEW h \in Handles, NewRequest(h)
      PROVE  IInv'
  <2>1. TypeOK'
    BY <1>1 DEF IInv, NewRequest, TypeOK
  <2>2. NonceMoves'
    BY <1>1 DEF IInv, NewRequest, NonceMoves
  <2>3. SharesOwnKey'
    BY <1>1 DEF IInv, NewRequest, SharesOwnKey
  <2>4. NonceSignsOnce' /\ AggregateSpeaksForSigners'
    BY <1>1 DEF IInv, NewRequest, NonceSignsOnce, AggregateSpeaksForSigners
  <2> QED
    BY <2>1, <2>2, <2>3, <2>4 DEF IInv
<1>2. ASSUME NEW h \in Handles, NEW i \in Devices, NewSession(i, h)
      PROVE  IInv'
  <2>1. TypeOK'
    BY <1>2 DEF IInv, NewSession, TypeOK
  <2>2. NonceMoves'
    BY <1>2 DEF IInv, NewSession, TypeOK, NonceMoves
  <2>3. SharesOwnKey' /\ NonceSignsOnce' /\ AggregateSpeaksForSigners'
    BY <1>2 DEF IInv, NewSession, SharesOwnKey, NonceSignsOnce, AggregateSpeaksForSigners
  <2> QED
    BY <2>1, <2>2, <2>3 DEF IInv
<1>3. ASSUME NEW h \in Handles, NEW i \in Devices, Nonce(i, h)
      PROVE  IInv'
  <2>1. TypeOK'
    <3> DEFINE pkg == [participant_id |-> i, signing_session_id |-> Request[h].session_id,
                       public_nonce |-> <<i, nonce_count[i] + 1>>]
    <3>1. nonce_count[i] + 1 \in Nat \ {0}
      BY DEF IInv, TypeOK
    <3>2. <<i, nonce_count[i] + 1>> \in Nonces
      BY <3>1
    <3>3. pkg \in NoncePackage
      BY <3>2 DEF NoncePackage, SessionIds
    <3>4. nonce_out' \subseteq NoncePackage
      BY <1>3, <3>3 DEF IInv, TypeOK, Nonce
    <3>5. nonce_count' \in [Devices -> Nat] /\ nonce_runtime' \in [Devices -> [Handles -> Nat]]
      BY <1>3, <3>1 DEF IInv, TypeOK, Nonce
    <3> QED
      BY <1>3, <3>4, <3>5 DEF IInv, TypeOK, Nonce
  <2>2. NonceMoves'
    BY <1>3 DEF IInv, Nonce, TypeOK, NonceMoves
  <2>3. SharesOwnKey' /\ NonceSignsOnce' /\ AggregateSpeaksForSigners'
    BY <1>3 DEF IInv, Nonce, SharesOwnKey, NonceSignsOnce, AggregateSpeaksForSigners
  <2> QED
    BY <2>1, <2>2, <2>3 DEF IInv
<1>4. ASSUME NEW h \in Handles, NEW i \in Devices, SignShare(i, h)
      PROVE  IInv'
  <2> DEFINE mine == <<i, nonce_runtime[i][h]>>
  <2>1. PICK new :
          /\ share_out' \subseteq share_out \cup {new}
          /\ share_out \subseteq share_out'
          /\ new.participant_id = i
          /\ new.nonce = mine
          /\ new.group_key = ShareKey[i]
    <3>1. PICK pkgs \in Slices(NonceInputs, Len(Request[h].signer_set)) :
            share_out' =
              IF NoncesToMapOk(pkgs, h)
              THEN share_out \cup
                    {[participant_id |-> i,
                      signing_session_id |-> Request[h].session_id,
                      public_nonce |-> NoncesMap(pkgs)[i],
                      nonce |-> mine,
                      nonces |-> NoncesMap(pkgs),
                      message_digest |-> Request[h].message_digest,
                      group_key |-> ShareKey[i]]}
              ELSE share_out
      BY <1>4 DEF SignShare
    <3> WITNESS [participant_id |-> i,
                 signing_session_id |-> Request[h].session_id,
                 public_nonce |-> NoncesMap(pkgs)[i],
                 nonce |-> mine,
                 nonces |-> NoncesMap(pkgs),
                 message_digest |-> Request[h].message_digest,
                 group_key |-> ShareKey[i]]
    <3> QED
      BY <3>1
  <2>2. /\ nonce_runtime[i][h] \in Nat \ {0}
        /\ nonce_runtime' = [nonce_runtime EXCEPT ![i][h] = 0]
        /\ UNCHANGED <<opened, nonce_count, nonce_out, signatures>>
    BY <1>4 DEF IInv, TypeOK, SignShare, HasNonce, Taken
  <2>3. TypeOK'
    <3>1. mine \in Nonces /\ mine[1] = i
      BY <2>2
    <3>2. nonce_runtime' \in [Devices -> [Handles -> Nat]]
      BY <2>2 DEF IInv, TypeOK
    <3>3. \A s \in share_out' :
            s.participant_id \in Devices /\ s.nonce \in Nonces /\ s.nonce[1] = s.participant_id
      <4>1. \A s \in share_out :
              s.participant_id \in Devices /\ s.nonce \in Nonces /\ s.nonce[1] = s.participant_id
        BY DEF IInv, TypeOK
      <4> QED
        BY <2>1, <3>1, <4>1
    <3> QED
      BY <2>2, <3>2, <3>3 DEF IInv, TypeOK
  <2>4. NonceMoves'
    <3>1. ASSUME NEW j \in Devices, NEW g \in Handles, nonce_runtime'[j][g] # 0
          PROVE  /\ nonce_runtime'[j][g] = nonce_runtime[j][g]
                 /\ <<j, nonce_runtime[j][g]>> # mine
      <4>1. nonce_runtime'[j][g] = IF j = i /\ g = h THEN 0 ELSE nonce_runtime[j][g]
        BY <2>2 DEF IInv, TypeOK
      <4>2. j = i => g # h
        BY <3>1, <4>1
      <4>3. j = i => nonce_runtime[j][g] # nonce_runtime[i][h]
        BY <2>2, <4>2 DEF IInv, NonceMoves
      <4> QED
        BY <3>1, <4>1, <4>2, <4>3
    <3>2. \A j \in Devices : \A g \in Handles :
            nonce_runtime'[j][g] <= nonce_count'[j]
      BY <2>2 DEF IInv, TypeOK, NonceMoves
    <3>3. \A s \in share_out' : s.nonce[2] <= nonce_count'[s.participant_id]
      BY <2>1, <2>2 DEF IInv, TypeOK, NonceMoves
    <3>4. ASSUME NEW j \in Devices, NEW g \in Handles, nonce_runtime'[j][g] # 0
          PROVE  /\ \A s \in share_out' : s.nonce # <<j, nonce_runtime'[j][g]>>
                 /\ \A f \in Handles : f # g => nonce_runtime'[j][f] # nonce_runtime'[j][g]
      <4>1. /\ nonce_runtime'[j][g] = nonce_runtime[j][g]
            /\ <<j, nonce_runtime[j][g]>> # mine
        BY <3>1, <3>4
      <4>2. \A s \in share_out : s.nonce # <<j, nonce_runtime[j][g]>>
        BY <3>4, <4>1 DEF IInv, NonceMoves
      <4>3. \A s \in share_out' : s.nonce # <<j, nonce_runtime'[j][g]>>
        BY <2>1, <4>1, <4>2
      <4>4. \A f \in Handles : f # g => nonce_runtime'[j][f] # nonce_runtime'[j][g]
        <5> SUFFICES ASSUME NEW f \in Handles, f # g, nonce_runtime'[j][f] # 0
                     PROVE  nonce_runtime'[j][f] # nonce_runtime'[j][g]
          BY <3>4
        <5>1. nonce_runtime'[j][f] = nonce_runtime[j][f]
          BY <3>1
        <5> QED
          BY <3>4, <4>1, <5>1 DEF IInv, NonceMoves
      <4> QED
        BY <4>3, <4>4
    <3> QED
      BY <3>2, <3>3, <3>4 DEF NonceMoves
  <2>5. SharesOwnKey'
    BY <2>1, <2>2 DEF IInv, SharesOwnKey
  <2>6. NonceSignsOnce'
    <3>1. \A s \in share_out : s.nonce # new.nonce
      BY <2>1, <2>2 DEF IInv, NonceMoves
    <3> QED
      BY <2>1, <3>1 DEF IInv, NonceSignsOnce
  <2>7. AggregateSpeaksForSigners'
    BY <2>1, <2>2 DEF IInv, AggregateSpeaksForSigners
  <2> QED
    BY <2>3, <2>4, <2>5, <2>6, <2>7 DEF IInv
<1>5. ASSUME NEW h \in Handles, Aggregate(h)
      PROVE  IInv'
  <2>1. PICK shares \in [1..Len(Request[h].signer_set) -> share_out] :
          /\ ValidSignatureShareSet(shares, h)
          /\ NoncesToMapOk(shares, h)
          /\ \A i \in DOMAIN shares : VerifyShare(shares[i], NoncesMap(shares), h)
          /\ signatures' = signatures \cup {[handle |-> h, nonces |-> NoncesMap(shares)]}
    BY <1>5 DEF Aggregate
  <2>2. h \in opened /\ UNCHANGED <<opened, nonce_count, nonce_runtime, nonce_out, share_out>>
    BY <1>5 DEF Aggregate
  <2>3. TypeOK'
    BY <2>1, <2>2 DEF IInv, TypeOK
  <2>4. NonceMoves' /\ SharesOwnKey' /\ NonceSignsOnce'
    BY <2>2 DEF IInv, NonceMoves, SharesOwnKey, NonceSignsOnce
  <2>5. AggregateSpeaksForSigners'
    <3> DEFINE ids == [i \in 1..Len(Request[h].signer_set) |-> shares[i].participant_id]
    <3>1. ValidSignerSetWithPolicy(Request[h].signer_set, PolicyOf[h])
      BY <2>2 DEF IInv, SharesOwnKey
    <3>2. DOMAIN NoncesMap(shares) = SignerSet(h)
      <4>1. ids \in [1..Len(Request[h].signer_set) -> SignerSet(h)]
        BY <2>1 DEF ValidSignatureShareSet
      <4>2. \A i, j \in DOMAIN ids : i # j => ids[i] # ids[j]
        BY <2>1 DEF ValidSignatureShareSet
      <4>3. {ids[i] : i \in DOMAIN ids} = SignerSet(h)
        BY <3>1, <4>1, <4>2, CountingSigners
      <4> QED
        BY <2>1, <4>3 DEF NoncesMap
    <3>3. ASSUME NEW k \in DOMAIN NoncesMap(shares)
          PROVE  \E s \in share_out :
                    /\ s.participant_id = k
                    /\ s.nonce = NoncesMap(shares)[k]
                    /\ s.nonces = NoncesMap(shares)
                    /\ s.message_digest = Request[h].message_digest
                    /\ ShareKey[k] = Request[h].group_key
      <4>1. PICK i \in DOMAIN shares : shares[i].participant_id = k
        BY NoncesMapValue
      <4>2. VerifyShare(shares[i], NoncesMap(shares), h) /\ shares[i] \in share_out
        BY <2>1
      <4> QED
        BY <4>1, <4>2 DEF VerifyShare, IInv, SharesOwnKey
    <3> QED
      BY <2>1, <2>2, <3>1, <3>2, <3>3 DEF IInv, AggregateSpeaksForSigners
  <2> QED
    BY <2>3, <2>4, <2>5 DEF IInv
<1>6. CASE UNCHANGED vars
  <2>1. TypeOK' /\ NonceMoves' /\ SharesOwnKey'
    BY <1>6 DEF IInv, vars, TypeOK, NonceMoves, SharesOwnKey
  <2>2. NonceSignsOnce' /\ AggregateSpeaksForSigners'
    BY <1>6 DEF IInv, vars, NonceSignsOnce, AggregateSpeaksForSigners
  <2> QED
    BY <2>1, <2>2 DEF IInv
<1> QED
  BY <1>1, <1>2, <1>3, <1>4, <1>5, <1>6 DEF Next

\* The inductive invariant holds of every behaviour of the signing sessions.
THEOREM Invariance == Spec => []IInv
BY InitIInv, NextIInv, PTL DEF Spec

\* The session cells and packages always have their types.
THEOREM TypeCorrect == Spec => []TypeOK
<1>1. IInv => TypeOK
  BY DEF IInv
<1> QED
  BY <1>1, Invariance, PTL

\* sign_share consumes the nonce: no two shares are made with one secret nonce,
\* whatever requests are open and however often devices restart.
THEOREM SingleUse == Spec => []NonceSignsOnce
<1>1. IInv => NonceSignsOnce
  BY DEF IInv
<1> QED
  BY <1>1, Invariance, PTL

\* aggregate only returns signatures all signers of the request made shares for.
THEOREM SpeaksForSigners == Spec => []AggregateSpeaksForSigners
<1>1. IInv => AggregateSpeaksForSigners
  BY DEF IInv
<1> QED
  BY <1>1, Invariance, PTL

\* Two signatures with a nonce in common are over the same nonces, digest and key.
THEOREM NonceFixesSignature == Spec => []NoNonceInTwoSignatures
<1>1. IInv => NoNonceInTwoSignatures
  <2> SUFFICES ASSUME IInv, NEW a \in signatures, NEW b \in signatures,
                      NEW k \in DOMAIN a.nonces \cap DOMAIN b.nonces,
                      a.nonces[k] = b.nonces[k]
               PROVE  /\ a.nonces = b.nonces
                      /\ Request[a.handle].message_digest = Request[b.handle].message_digest
                      /\ Request[a.handle].group_key = Request[b.handle].group_key
    BY DEF NoNonceInTwoSignatures
  <2>1. PICK s \in share_out :
          /\ s.nonce = a.nonces[k]
          /\ s.nonces = a.nonces
          /\ s.message_digest = Request[a.handle].message_digest
          /\ ShareKey[k] = Request[a.handle].group_key
    BY DEF IInv, AggregateSpeaksForSigners
  <2>2. PICK t \in share_out :
          /\ t.nonce = b.nonces[k]
          /\ t.nonces = b.nonces
          /\ t.message_digest = Request[b.handle].message_digest
          /\ ShareKey[k] = Request[b.handle].group_key
    BY DEF IInv, AggregateSpeaksForSigners
  <2>3. s = t
    BY <2>1, <2>2 DEF IInv, NonceSignsOnce
  <2> QED
    BY <2>1, <2>2, <2>3
<1> QED
  BY <1>1, Invariance, PTL
=============================================================================
