------------------------- MODULE HtssSigning_proofs -------------------------
(***************************************************************************)
(* Proofs about HtssSigning, for every set of devices, key shares,         *)
(* policies, requests and sessions, and any number of nonces.  What the    *)
(* Birkhoff coefficients are is not used: the theorems hold for whatever   *)
(* weights the devices compute.                                            *)
(***************************************************************************)
EXTENDS HtssSigning, TLAPS

\* A share was made with a nonce its device drew for the share's session.
SharesHaveNonces ==
    \A s \in share_out :
        [participant_id |-> s.participant_id, signing_session_id |-> s.signing_session_id,
         public_nonce |-> s.nonce] \in nonces

\* A share of a signature that weighs anything was made for what the signature signs.
SharesFit ==
    \A sig \in signatures : \A s \in sig.shares :
        Weighs(s) => s.challenge = Challenge(sig.nonces, sig.request)

\* A nonce is of its device and of one session only.
NoncesDistinct ==
    /\ \A n \in nonces :
          n.public_nonce[1] = n.participant_id
          /\ n.public_nonce[2] <= nonce_count[n.participant_id]
    /\ \A n, m \in nonces : n.public_nonce = m.public_nonce => n = m

\* The nonces the challenge of a share hashes were drawn for the share's session.
ChallengesInSession ==
    \A s \in share_out : DrawnFor(s.signing_session_id, s.challenge.nonce)

\* The inductive invariant.
IInv ==
    /\ TypeOK /\ SharesHaveNonces /\ SharesFit /\ AggregateSpeaksForSigners
    /\ NoncesDistinct /\ ChallengesInSession

USE DEF FreshNonce

LEMMA InitIInv == Init => IInv
BY HtssSigningAssumption
   DEF Init, IInv, TypeOK, SharesHaveNonces, SharesFit, AggregateSpeaksForSigners,
       NoncesDistinct, ChallengesInSession

\* A signature stays good while more nonces are drawn.
LEMMA SpeaksForStable ==
    ASSUME nonces \subseteq nonces', NEW sig, NEW k, SpeaksFor(sig, k)
    PROVE  SpeaksFor(sig, k)'
BY DEF SpeaksFor, Weighs, Challenge

LEMMA NextIInv == IInv /\ [Next]_vars => IInv'
<1> SUFFICES ASSUME IInv, [Next]_vars
             PROVE  IInv'
  OBVIOUS
<1> USE HtssSigningAssumption
<1>1. ASSUME NEW i \in Devices, NEW session \in SessionIds, Nonce(i, session)
      PROVE  IInv'
  <2> DEFINE pkg == [participant_id |-> i, signing_session_id |-> session,
                     public_nonce |-> <<i, nonce_count[i] + 1>>]
  <2>1. /\ nonce_count' = [nonce_count EXCEPT ![i] = @ + 1]
        /\ nonces' = nonces \cup {pkg}
        /\ UNCHANGED <<share_out, signatures>>
    BY <1>1 DEF Nonce
  <2>2. pkg \in NoncePackage
    BY DEF IInv, TypeOK, NoncePackage
  <2>3. TypeOK'
    BY <2>1, <2>2 DEF IInv, TypeOK
  <2>4. SharesHaveNonces'
    BY <2>1 DEF IInv, SharesHaveNonces
  <2>5. SharesFit'
    BY <2>1 DEF IInv, SharesFit, Weighs, Challenge
  <2>6. AggregateSpeaksForSigners'
    BY <2>1, SpeaksForStable DEF IInv, AggregateSpeaksForSigners, SignerSet
  <2>7. NoncesDistinct'
    <3>1. ASSUME NEW n \in nonces
          PROVE  /\ n.participant_id \in Devices
                 /\ n.public_nonce[1] = n.participant_id
                 /\ n.public_nonce[2] \in Nat
                 /\ n.public_nonce[2] <= nonce_count[n.participant_id]
                 /\ n.public_nonce[2] <= nonce_count'[n.participant_id]
                 /\ n.public_nonce # pkg.public_nonce
      BY <2>1 DEF IInv, TypeOK, NoncePackage, NoncesDistinct
    <3>2. /\ pkg.public_nonce[1] = pkg.participant_id
          /\ pkg.public_nonce[2] <= nonce_count'[pkg.participant_id]
      BY <2>1 DEF IInv, TypeOK
    <3> HIDE DEF pkg
    <3>3. \A n \in nonces' : n.public_nonce[1] = n.participant_id
                              /\ n.public_nonce[2] <= nonce_count'[n.participant_id]
      BY <2>1, <3>1, <3>2
    <3>4. \A n, m \in nonces' : n.public_nonce = m.public_nonce => n = m
      BY <2>1, <3>1 DEF IInv, NoncesDistinct
    <3> QED
      BY <3>3, <3>4 DEF NoncesDistinct
  <2>8. ChallengesInSession'
    BY <2>1 DEF IInv, ChallengesInSession, DrawnFor
  <2> QED
    BY <2>3, <2>4, <2>5, <2>6, <2>7, <2>8 DEF IInv
<1>2. ASSUME NEW i \in Devices, NEW r \in Requests, SignShare(i, r)
      PROVE  IInv'
  <2>1. PICK own \in nonces, pkgs \in OnePerSigner(r, nonces) :
           /\ own.participant_id = i
           /\ ValidPackageSet(r, pkgs)
           /\ SameSession(own, pkgs[i])
           /\ share_out' = share_out \cup
                {[participant_id |-> i,
                  signing_session_id |-> own.signing_session_id,
                  nonce |-> own.public_nonce,
                  challenge |-> Challenge(AggregateNonce(pkgs), r),
                  coefficient |-> CoefficientOf[i][r][i]]}
    BY <1>2 DEF SignShare
  <2>2. i \in SignerSet(r) /\ UNCHANGED <<nonce_count, nonces, signatures>>
    BY <1>2 DEF SignShare
  <2>3. /\ own \in NoncePackage
        /\ own = [participant_id |-> i, signing_session_id |-> own.signing_session_id,
                  public_nonce |-> own.public_nonce]
    BY <2>1 DEF IInv, TypeOK, NoncePackage
  <2>4. ASSUME NEW s \in share_out', s \notin share_out
        PROVE  /\ s.participant_id = i
               /\ s.signing_session_id = own.signing_session_id
               /\ s.nonce = own.public_nonce
               /\ s.challenge.nonce = AggregateNonce(pkgs)
    BY <2>1, <2>4 DEF Challenge
  <2>5. TypeOK'
    <3>1. \A s \in share_out' :
             /\ s.participant_id \in Devices
             /\ s.signing_session_id \in SessionIds
             /\ s.nonce \in Devices \X (Nat \ {0})
      BY <2>3, <2>4 DEF IInv, TypeOK, NoncePackage
    <3>2. \A sig \in signatures' : sig.request \in Requests /\ sig.shares \subseteq share_out'
      BY <2>1, <2>2 DEF IInv, TypeOK
    <3> QED
      BY <2>2, <3>1, <3>2 DEF IInv, TypeOK
  <2>6. SharesHaveNonces'
    BY <2>2, <2>3, <2>4 DEF IInv, SharesHaveNonces
  <2>7. SharesFit'
    BY <2>2 DEF IInv, SharesFit, Weighs, Challenge
  <2>8. AggregateSpeaksForSigners'
    BY <2>2, SpeaksForStable DEF IInv, AggregateSpeaksForSigners, SignerSet
  <2>9. NoncesDistinct'
    BY <2>2 DEF IInv, NoncesDistinct
  <2>10. DrawnFor(own.signing_session_id, AggregateNonce(pkgs))
    <3> SUFFICES ASSUME NEW k \in DOMAIN pkgs
                 PROVE  \E pkg \in nonces : /\ pkg.public_nonce = pkgs[k].public_nonce
                                            /\ pkg.signing_session_id = own.signing_session_id
      BY DEF DrawnFor, AggregateNonce
    <3>1. k \in SignerSet(r) /\ pkgs[k] \in nonces
      BY <2>1 DEF OnePerSigner
    <3>2. pkgs[k].signing_session_id = pkgs[i].signing_session_id
      BY <2>1, <2>2, <3>1 DEF ValidPackageSet
    <3> QED
      BY <2>1, <3>1, <3>2 DEF SameSession
  <2>11. ChallengesInSession'
    BY <2>2, <2>4, <2>10 DEF IInv, ChallengesInSession, DrawnFor
  <2> QED
    BY <2>5, <2>6, <2>7, <2>8, <2>9, <2>11 DEF IInv
<1>3. ASSUME NEW i \in Devices, NEW r \in Requests, Aggregate(i, r)
      PROVE  IInv'
  <2>1. PICK pkgs \in OnePerSigner(r, nonces), shares \in OnePerSigner(r, share_out) :
           /\ ValidPackageSet(r, shares)
           /\ SumVerifies(r, AggregateNonce(pkgs), shares)
           /\ signatures' = signatures \cup
                 {[request |-> r, nonces |-> AggregateNonce(pkgs),
                   shares |-> {shares[k] : k \in DOMAIN shares}]}
    BY <1>3 DEF Aggregate
  <2>2. UNCHANGED <<nonce_count, nonces, share_out>>
    BY <1>3 DEF Aggregate
  <2> DEFINE new == [request |-> r, nonces |-> AggregateNonce(pkgs),
                     shares |-> {shares[k] : k \in DOMAIN shares}]
  <2>3. /\ DOMAIN shares = SignerSet(r)
        /\ \A k \in SignerSet(r) : shares[k] \in share_out
    BY <2>1 DEF OnePerSigner
  <2>4. new.shares \subseteq share_out
    BY <2>3
  <2>5. \A k \in SignerSet(r) : Weighs(shares[k]) =>
           shares[k].challenge = Challenge(new.nonces, new.request)
    BY <2>1, <2>3 DEF SumVerifies
  <2>6. ASSUME NEW k \in SignerSet(r)
        PROVE  SpeaksFor(new, k)
    <3>1. shares[k] \in new.shares /\ shares[k].participant_id = k
      BY <2>1, <2>3 DEF ValidPackageSet
    <3>2. shares[k].nonce \in new.nonces
      BY <2>1, <2>3 DEF SumVerifies
    <3>3. [participant_id |-> k, signing_session_id |-> shares[k].signing_session_id,
           public_nonce |-> shares[k].nonce] \in nonces
      BY <2>3, <3>1 DEF IInv, SharesHaveNonces
    <3> QED
      BY <2>5, <3>1, <3>2, <3>3 DEF SpeaksFor
  <2>7. \A s, t \in new.shares : s.signing_session_id = t.signing_session_id
    BY <2>1, <2>3 DEF ValidPackageSet
  <2>8. new.request = r
    OBVIOUS
  <2>9. \A s \in new.shares : Weighs(s) => s.challenge = Challenge(new.nonces, new.request)
    BY <2>3, <2>5
  <2>10. signatures' = signatures \cup {new}
    BY <2>1
  <2> HIDE DEF new
  <2>11. TypeOK'
    BY <2>2, <2>4, <2>8, <2>10 DEF IInv, TypeOK
  <2>12. SharesHaveNonces'
    BY <2>2 DEF IInv, SharesHaveNonces
  <2>13. SharesFit'
    BY <2>9, <2>10 DEF IInv, SharesFit, Weighs, Challenge
  <2>14. AggregateSpeaksForSigners'
    <3>1. ASSUME NEW sig \in signatures', NEW k \in SignerSet(sig.request)
          PROVE  SpeaksFor(sig, k)
      <4>1. CASE sig \in signatures
        BY <4>1 DEF IInv, AggregateSpeaksForSigners
      <4>2. CASE sig = new
        BY <4>2, <2>6, <2>8
      <4> QED
        BY <4>1, <4>2, <2>10
    <3>2. \A sig \in signatures' : \A s, t \in sig.shares :
             s.signing_session_id = t.signing_session_id
      BY <2>7, <2>10 DEF IInv, AggregateSpeaksForSigners
    <3> QED
      BY <3>1, <3>2, <2>2, SpeaksForStable DEF AggregateSpeaksForSigners, SignerSet
  <2>15. NoncesDistinct' /\ ChallengesInSession'
    BY <2>2 DEF IInv, NoncesDistinct, ChallengesInSession, DrawnFor
  <2> QED
    BY <2>11, <2>12, <2>13, <2>14, <2>15 DEF IInv
<1>4. CASE UNCHANGED vars
  <2>1. TypeOK' /\ SharesHaveNonces'
    BY <1>4 DEF vars, IInv, TypeOK, SharesHaveNonces
  <2>2. SharesFit'
    BY <1>4 DEF vars, IInv, SharesFit, Weighs, Challenge
  <2>3. AggregateSpeaksForSigners'
    BY <1>4, SpeaksForStable DEF vars, IInv, AggregateSpeaksForSigners, SignerSet
  <2>4. NoncesDistinct' /\ ChallengesInSession'
    BY <1>4 DEF vars, IInv, NoncesDistinct, ChallengesInSession, DrawnFor
  <2> QED
    BY <2>1, <2>2, <2>3, <2>4 DEF IInv
<1> QED
  BY <1>1, <1>2, <1>3, <1>4 DEF Next

\* The nonce and share packages of HTSS signing keep their types.
THEOREM HtssSigningTypeCorrect == Spec => []TypeOK
<1>1. IInv => TypeOK
  BY DEF IInv
<1> QED
  BY <1>1, InitIInv, NextIInv, PTL DEF Spec

\* Every signature aggregate_htss_signature_shares returns speaks for its signers,
\* whatever lists, nonces and policies the devices pass.
THEOREM HtssSpeaksForSigners == Spec => []AggregateSpeaksForSigners
<1>1. IInv => AggregateSpeaksForSigners
  BY DEF IInv
<1> QED
  BY <1>1, InitIInv, NextIInv, PTL DEF Spec

\* Callers that use each HtssLocalNonce once never have a share of weight in signatures
\* of two digests.
THEOREM HtssSingleUse == Spec => []SingleUseKeepsSignaturesApart
<1>1. IInv => SingleUseKeepsSignaturesApart
  <2> SUFFICES ASSUME IInv, NoncesUsedOnce,
                      NEW a \in signatures, NEW b \in signatures,
                      NEW s \in a.shares, NEW t \in b.shares,
                      s.nonce = t.nonce, Weighs(s)
               PROVE  Challenge(a.nonces, a.request) = Challenge(b.nonces, b.request)
    BY DEF SingleUseKeepsSignaturesApart
  <2>1. s \in share_out /\ t \in share_out
    BY DEF IInv, TypeOK
  <2>2. s = t
    BY <2>1 DEF NoncesUsedOnce
  <2> QED
    BY <2>2 DEF IInv, SharesFit
<1> QED
  BY <1>1, InitIInv, NextIInv, PTL DEF Spec

\* Whatever shares htss_sign_share makes with one nonce, the nonce and all nonces their
\* challenges hash were drawn for the session these shares name.
THEOREM HtssReuseInSession == Spec => []ReuseStaysInSession
<1>1. IInv => ReuseStaysInSession
  <2> SUFFICES ASSUME IInv, NEW s \in share_out, NEW t \in share_out, s.nonce = t.nonce
               PROVE  DrawnFor(s.signing_session_id,
                               {s.nonce} \cup s.challenge.nonce \cup t.challenge.nonce)
    BY DEF ReuseStaysInSession
  <2> DEFINE Drawn(u) == [participant_id |-> u.participant_id,
                          signing_session_id |-> u.signing_session_id,
                          public_nonce |-> u.nonce]
  <2>1. Drawn(s) \in nonces /\ Drawn(t) \in nonces
    BY DEF IInv, SharesHaveNonces
  <2>2. Drawn(s) = Drawn(t)
    BY <2>1 DEF IInv, NoncesDistinct
  <2>3. s.signing_session_id = t.signing_session_id
    BY <2>2
  <2>4. DrawnFor(s.signing_session_id, s.challenge.nonce)
    BY DEF IInv, ChallengesInSession
  <2>5. DrawnFor(s.signing_session_id, t.challenge.nonce)
    BY <2>3 DEF IInv, ChallengesInSession
  <2>6. DrawnFor(s.signing_session_id, {s.nonce})
    BY <2>1 DEF DrawnFor
  <2> QED
    BY <2>4, <2>5, <2>6 DEF DrawnFor
<1> QED
  BY <1>1, InitIInv, NextIInv, PTL DEF Spec
=============================================================================
