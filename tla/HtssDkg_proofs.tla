--------------------------- MODULE HtssDkg_proofs ---------------------------
(***************************************************************************)
(* Proofs about HtssDkg, for every set of devices, every policy each of    *)
(* them holds and any number of round 1 calls.                             *)
(***************************************************************************)
EXTENDS HtssDkg, TLAPS

\* Where packages come from: they carry a polynomial of the device they name, and what
\* the policy of that device says of the threshold and the ranks.
Provenance ==
    /\ \A s \in Devices : \A poly \in round1_states[s] : poly[1] = s
    /\ \A p \in round1_out :
          /\ p.polynomial[1] = p.participant_id
          /\ p.rank = RankOf(p.participant_id, p.participant_id)
          /\ p.commitments = Threshold(p.participant_id)
    /\ \A p \in round2_out :
          /\ p.polynomial[1] = p.sender
          /\ p.recipient \in Participants(p.sender)
          /\ p.recipient_rank = RankOf(p.sender, p.recipient)

\* The packages rounds 1 and 2 of device s return for a polynomial.
PackageOf(s, poly) ==
    [participant_id |-> s, rank |-> RankOf(s, s), commitments |-> Threshold(s),
     polynomial |-> poly]
ShareFor(s, k, poly) ==
    [sender |-> s, recipient |-> k, recipient_rank |-> RankOf(s, k), polynomial |-> poly]

\* A polynomial in a state was published, and one that was shared at all was published
\* and shared with every participant of its device.
Published ==
    /\ \A s \in Devices : \A poly \in round1_states[s] : PackageOf(s, poly) \in round1_out
    /\ \A p \in round2_out :
          /\ PackageOf(p.sender, p.polynomial) \in round1_out
          /\ \A k \in Participants(p.sender) :
                ShareFor(p.sender, k, p.polynomial) \in round2_out

\* The inductive invariant.
IInv == TypeOK /\ Provenance /\ Published /\ EveryoneContributed /\ FinalizedPoliciesAgree

USE DEF FreshPolynomial, Participants, RankOf, Threshold, PoliciesAgree

LEMMA InitIInv == Init => IInv
BY HtssDkgAssumption
   DEF Init, IInv, TypeOK, Provenance, Published, EveryoneContributed, FinalizedPoliciesAgree

LEMMA NextIInv == IInv /\ [Next]_vars => IInv'
<1> SUFFICES ASSUME IInv, [Next]_vars
             PROVE  IInv'
  OBVIOUS
<1> USE HtssDkgAssumption
<1>1. ASSUME NEW s \in Devices, Round1(s)
      PROVE  IInv'
  <2> DEFINE poly == <<s, draws[s] + 1>>
             pkg == [participant_id |-> s, rank |-> ConfigOf[s].ranks[s],
                     commitments |-> ConfigOf[s].threshold, polynomial |-> poly]
  <2>1. poly \in Polynomials /\ poly[1] = s
    BY DEF IInv, TypeOK, Polynomials
  <2>2. pkg \in Round1Package
    BY <1>1, <2>1 DEF Round1, Round1Package
  <2>3. /\ draws' = [draws EXCEPT ![s] = @ + 1]
        /\ round1_states' = [round1_states EXCEPT ![s] = @ \cup {poly}]
        /\ round1_out' = round1_out \cup {pkg}
        /\ UNCHANGED <<round2_out, finalized>>
    BY <1>1 DEF Round1
  <2>4. TypeOK'
    <3>1. draws' \in [Devices -> Nat]
      BY <2>3 DEF IInv, TypeOK
    <3>2. round1_states' \in [Devices -> SUBSET Polynomials]
      BY <2>1, <2>3 DEF IInv, TypeOK
    <3> QED
      BY <2>2, <2>3, <3>1, <3>2 DEF IInv, TypeOK
  <2>5. Provenance'
    <3>1. \A u \in Devices : \A p \in round1_states'[u] : p[1] = u
      BY <2>1, <2>3 DEF IInv, TypeOK, Provenance
    <3>2. \A p \in round1_out' :
             /\ p.polynomial[1] = p.participant_id
             /\ p.rank = RankOf(p.participant_id, p.participant_id)
             /\ p.commitments = Threshold(p.participant_id)
      BY <2>1, <2>3 DEF IInv, Provenance
    <3> QED
      BY <2>3, <3>1, <3>2 DEF IInv, Provenance
  <2>6. EveryoneContributed'
    BY <2>3 DEF IInv, EveryoneContributed, SumsContributions, Vanishes
  <2>7. FinalizedPoliciesAgree'
    BY <2>3 DEF IInv, FinalizedPoliciesAgree
  <2>8. Published'
    <3>1. PackageOf(s, poly) = pkg
      BY DEF PackageOf
    <3>2. \A u \in Devices : \A p \in round1_states'[u] : PackageOf(u, p) \in round1_out'
      BY <2>3, <3>1 DEF IInv, TypeOK, Published
    <3>3. \A p \in round2_out' : PackageOf(p.sender, p.polynomial) \in round1_out'
      BY <2>3 DEF IInv, Published
    <3> QED
      BY <2>3, <3>2, <3>3 DEF IInv, Published, PackageOf, ShareFor
  <2> QED
    BY <2>4, <2>5, <2>6, <2>7, <2>8 DEF IInv
<1>2. ASSUME NEW s \in Devices, Round2(s)
      PROVE  IInv'
  <2>1. PICK poly \in round1_states[s] :
           round2_out' = round2_out \cup
             {[sender |-> s, recipient |-> k, recipient_rank |-> RankOf(s, k),
               polynomial |-> poly] : k \in Participants(s)}
    BY <1>2 DEF Round2
  <2>2. UNCHANGED <<draws, round1_states, round1_out, finalized>>
    BY <1>2 DEF Round2
  <2>3. poly \in Polynomials /\ poly[1] = s
    BY <2>1 DEF IInv, TypeOK, Provenance
  <2>4. ASSUME NEW p \in round2_out', p \notin round2_out
        PROVE  /\ p \in Round2Package
               /\ p.polynomial[1] = p.sender
               /\ p.recipient \in Participants(p.sender)
               /\ p.recipient_rank = RankOf(p.sender, p.recipient)
    <3>1. PICK k \in Participants(s) :
             p = [sender |-> s, recipient |-> k, recipient_rank |-> RankOf(s, k),
                  polynomial |-> poly]
      BY <2>1, <2>4
    <3>2. k \in Nat /\ RankOf(s, k) \in Nat
      OBVIOUS
    <3> QED
      BY <2>3, <3>1, <3>2 DEF Round2Package
  <2>5. TypeOK'
    BY <2>2, <2>4 DEF IInv, TypeOK
  <2>6. Provenance'
    <3>1. \A p \in round2_out' :
             /\ p.polynomial[1] = p.sender
             /\ p.recipient \in Participants(p.sender)
             /\ p.recipient_rank = RankOf(p.sender, p.recipient)
      BY <2>4 DEF IInv, Provenance
    <3> QED
      BY <2>2, <3>1 DEF IInv, Provenance
  <2>7. round2_out \subseteq round2_out'
    BY <2>1
  <2>8. EveryoneContributed'
    <3>1. ASSUME NEW u \in Devices, NEW f, SumsContributions(u, f)
          PROVE  SumsContributions(u, f)'
      <4>1. ASSUME NEW k \in Participants(u)
            PROVE  \E own \in f.group_key :
                      /\ \A other \in f.group_key : other[1] = k <=> other = own
                      /\ ~Vanishes(u) =>
                            [sender |-> k, recipient |-> u, recipient_rank |-> RankOf(u, u),
                             polynomial |-> own] \in round2_out'
        <5>1. PICK own \in f.group_key :
                 /\ \A other \in f.group_key : other[1] = k <=> other = own
                 /\ ~Vanishes(u) =>
                       [sender |-> k, recipient |-> u, recipient_rank |-> RankOf(u, u),
                        polynomial |-> own] \in round2_out
          BY <3>1 DEF SumsContributions
        <5> QED
          BY <2>7, <5>1
      <4> QED
        BY <3>1, <4>1 DEF SumsContributions, Vanishes
    <3> QED
      BY <2>2, <3>1 DEF IInv, EveryoneContributed
  <2>9. FinalizedPoliciesAgree'
    BY <2>2 DEF IInv, FinalizedPoliciesAgree
  <2>10. Published'
    <3>1. PackageOf(s, poly) \in round1_out
      BY <2>1 DEF IInv, Published
    <3>2. \A k \in Participants(s) : ShareFor(s, k, poly) \in round2_out'
      BY <2>1 DEF ShareFor
    <3>3. ASSUME NEW p \in round2_out', p \notin round2_out
          PROVE  p.sender = s /\ p.polynomial = poly
      BY <2>1, <3>3
    <3>4. ASSUME NEW p \in round2_out'
          PROVE  /\ PackageOf(p.sender, p.polynomial) \in round1_out
                 /\ \A k \in Participants(p.sender) :
                       ShareFor(p.sender, k, p.polynomial) \in round2_out'
      <4>1. CASE p \in round2_out
        BY <4>1, <2>7 DEF IInv, Published
      <4>2. CASE p \notin round2_out
        BY <4>2, <3>1, <3>2, <3>3
      <4> QED
        BY <4>1, <4>2
    <3> QED
      BY <2>2, <3>4 DEF IInv, Published, PackageOf, ShareFor
  <2> QED
    BY <2>5, <2>6, <2>8, <2>9, <2>10 DEF IInv
<1>3. ASSUME NEW s \in Devices, Finalize(s)
      PROVE  IInv'
  <2>1. PICK pkgs \in OnePerParticipant(s, round1_out),
             shares \in OnePerParticipant(s, {p \in round2_out : p.recipient = s}) :
           /\ ValidRound1Set(s, pkgs)
           /\ ValidRound2Set(s, shares)
           /\ \A k \in Participants(s) : VerifyDerivativeShare(s, shares[k], pkgs[k])
           /\ finalized' = [finalized EXCEPT ![s] = @ \cup
                 {[group_key |-> GroupKey(pkgs), share_value |-> ShareValue(s, shares)]}]
    BY <1>3 DEF Finalize
  <2>2. /\ s \in Participants(s)
        /\ UNCHANGED <<draws, round1_states, round1_out, round2_out>>
    BY <1>3 DEF Finalize
  <2>3. ASSUME NEW k \in Participants(s)
        PROVE  /\ pkgs[k] \in round1_out
               /\ pkgs[k].participant_id = k
               /\ pkgs[k].rank = RankOf(s, k)
               /\ pkgs[k].commitments = Threshold(s)
               /\ pkgs[k].polynomial \in Polynomials
               /\ pkgs[k].polynomial[1] = k
    <3>1. pkgs[k] \in round1_out
      BY <2>1 DEF OnePerParticipant
    <3>2. pkgs[k] \in Round1Package
      BY <3>1 DEF IInv, TypeOK
    <3> QED
      BY <2>1, <3>1, <3>2 DEF ValidRound1Set, IInv, Provenance, Round1Package
  <2>4. ASSUME NEW k \in Participants(s)
        PROVE  /\ shares[k] \in round2_out
               /\ shares[k].sender = k
               /\ shares[k].recipient = s
               /\ shares[k].recipient_rank = RankOf(s, s)
               /\ shares[k].polynomial \in Polynomials
               /\ shares[k] = [sender |-> k, recipient |-> s, recipient_rank |-> RankOf(s, s),
                               polynomial |-> shares[k].polynomial]
    <3>1. shares[k] \in round2_out
      BY <2>1 DEF OnePerParticipant
    <3>2. shares[k] \in Round2Package
      BY <3>1 DEF IInv, TypeOK
    <3> QED
      BY <2>1, <3>1, <3>2 DEF ValidRound2Set, Round2Package
  <2>5. ASSUME ~Vanishes(s), NEW k \in Participants(s)
        PROVE  shares[k].polynomial = pkgs[k].polynomial
    BY <2>1, <2>5 DEF VerifyDerivativeShare
  <2>6. DOMAIN pkgs = Participants(s) /\ DOMAIN shares = Participants(s)
    BY <2>1 DEF OnePerParticipant
  <2> DEFINE key == GroupKey(pkgs)
             value == ShareValue(s, shares)
             result == [group_key |-> key, share_value |-> value]
  <2>7. key = {pkgs[k].polynomial : k \in Participants(s)}
    BY <2>6 DEF GroupKey
  <2>8. key \subseteq Polynomials /\ value \subseteq Polynomials
    <3>1. key \subseteq Polynomials
      BY <2>3, <2>7
    <3>2. value = {} \/ value = {shares[k].polynomial : k \in Participants(s)}
      BY <2>6 DEF ShareValue
    <3>3. value \subseteq Polynomials
      <4>1. \A k \in Participants(s) : shares[k].polynomial \in Polynomials
        BY <2>4
      <4> HIDE DEF value
      <4> QED
        BY <3>2, <4>1
    <3> QED
      BY <3>1, <3>3
  <2>9. ~Vanishes(s) => value = key
    BY <2>5, <2>6, <2>7 DEF ShareValue
  <2> HIDE DEF key, value
  <2>10. \A u \in Devices : \A f \in finalized'[u] : f \in finalized[u] \/ (u = s /\ f = result)
    BY <2>1 DEF IInv, TypeOK, key, value
  <2>11. TypeOK'
    <3>1. result \in [group_key : SUBSET Polynomials, share_value : SUBSET Polynomials]
      BY <2>8
    <3>2. finalized' = [finalized EXCEPT ![s] = @ \cup {result}]
      BY <2>1 DEF key, value
    <3> QED
      BY <2>2, <3>1, <3>2 DEF IInv, TypeOK
  <2>12. Provenance'
    BY <2>2 DEF IInv, Provenance
  <2>13. EveryoneContributed'
    <3> SUFFICES ASSUME NEW u \in Devices, NEW f \in finalized'[u]
                 PROVE  SumsContributions(u, f)
      <4>1. \A u \in Devices : \A f : SumsContributions(u, f)' <=> SumsContributions(u, f)
        BY <2>2 DEF SumsContributions, Vanishes
      <4> QED
        BY <4>1 DEF EveryoneContributed
    <3>1. CASE f \in finalized[u]
      BY <3>1 DEF IInv, EveryoneContributed
    <3>2. CASE u = s /\ f = result
      <4>1. ASSUME NEW k \in Participants(s)
            PROVE  \E poly \in key :
                      /\ \A other \in key : other[1] = k <=> other = poly
                      /\ ~Vanishes(s) =>
                            [sender |-> k, recipient |-> s, recipient_rank |-> RankOf(s, s),
                             polynomial |-> poly] \in round2_out
        <5>1. pkgs[k].polynomial \in key
          BY <2>7
        <5>2. \A other \in key : other[1] = k <=> other = pkgs[k].polynomial
          BY <2>3, <2>7
        <5>3. ~Vanishes(s) =>
                 [sender |-> k, recipient |-> s, recipient_rank |-> RankOf(s, s),
                  polynomial |-> pkgs[k].polynomial] \in round2_out
          BY <2>4, <2>5
        <5> QED
          BY <5>1, <5>2, <5>3
      <4>2. \A poly \in key : poly[1] \in Participants(s)
        BY <2>3, <2>7
      <4> QED
        BY <3>2, <4>1, <4>2, <2>9 DEF SumsContributions
    <3> QED
      BY <3>1, <3>2, <2>10
  <2>14. FinalizedPoliciesAgree'
    <3>1. ASSUME NEW k \in Participants(s)
          PROVE  /\ k \in Devices
                 /\ s \in Participants(k)
                 /\ Threshold(k) = Threshold(s)
                 /\ RankOf(k, k) = RankOf(s, k)
                 /\ RankOf(k, s) = RankOf(s, s)
      <4>1. shares[k] \in Round2Package
        BY <2>4 DEF IInv, TypeOK
      <4>2. k \in Devices
        BY <2>4, <4>1 DEF Round2Package
      <4>3. Threshold(k) = Threshold(s) /\ RankOf(k, k) = RankOf(s, k)
        BY <2>3 DEF IInv, Provenance
      <4>4. s \in Participants(k) /\ RankOf(k, s) = RankOf(s, s)
        <5>1. /\ shares[k].recipient \in Participants(shares[k].sender)
              /\ shares[k].recipient_rank = RankOf(shares[k].sender, shares[k].recipient)
          BY <2>4 DEF IInv, Provenance
        <5> QED
          BY <2>4, <5>1
      <4> QED
        BY <4>2, <4>3, <4>4
    <3> SUFFICES ASSUME NEW u \in Devices, finalized'[u] # {}, NEW k \in Participants(u)
                 PROVE  /\ k \in Devices
                        /\ u \in Participants(k)
                        /\ Threshold(k) = Threshold(u)
                        /\ RankOf(k, k) = RankOf(u, k)
                        /\ RankOf(k, u) = RankOf(u, u)
      BY DEF FinalizedPoliciesAgree
    <3>2. CASE u = s
      BY <3>1, <3>2
    <3>3. CASE finalized[u] # {}
      BY <3>3 DEF IInv, FinalizedPoliciesAgree
    <3> QED
      BY <3>2, <3>3, <2>10
  <2>15. Published'
    BY <2>2 DEF IInv, Published, PackageOf, ShareFor
  <2> QED
    BY <2>11, <2>12, <2>13, <2>14, <2>15 DEF IInv
<1>4. CASE UNCHANGED vars
  <2>1. TypeOK' /\ Provenance' /\ Published'
    BY <1>4 DEF vars, IInv, TypeOK, Provenance, Published, PackageOf, ShareFor
  <2>2. EveryoneContributed'
    BY <1>4 DEF vars, IInv, EveryoneContributed, SumsContributions, Vanishes
  <2>3. FinalizedPoliciesAgree'
    BY <1>4 DEF vars, IInv, FinalizedPoliciesAgree
  <2> QED
    BY <2>1, <2>2, <2>3 DEF IInv
<1> QED
  BY <1>1, <1>2, <1>3, <1>4 DEF Next

\* The states, packages and results of the HTSS key generation keep their types.
THEOREM HtssTypeCorrect == Spec => []TypeOK
<1>1. IInv => TypeOK
  BY DEF IInv
<1> QED
  BY <1>1, InitIInv, NextIInv, PTL DEF Spec

\* A key finalize_htss_dkg returns sums one polynomial of each participant, each sent
\* to the device by its owner if the device's rank is below the threshold.
THEOREM HtssContribution == Spec => []EveryoneContributed
<1>1. IInv => EveryoneContributed
  BY DEF IInv
<1> QED
  BY <1>1, InitIInv, NextIInv, PTL DEF Spec

\* A device that finalizes holds a policy that agrees with its participants' policies
\* on the threshold and on the ranks of the two.
THEOREM HtssPoliciesAgree == Spec => []FinalizedPoliciesAgree
<1>1. IInv => FinalizedPoliciesAgree
  BY DEF IInv
<1> QED
  BY <1>1, InitIInv, NextIInv, PTL DEF Spec

\* Devices with the same participants and ranks below the threshold derive one group
\* key unless a participant sent out shares of two polynomials.
THEOREM HtssAgreement == Spec => []AgreementUnlessReleasedTwice
<1>1. IInv => AgreementUnlessReleasedTwice
  <2> SUFFICES ASSUME IInv,
                      \A k \in Devices : \A p, q \in Released(k) : p = q,
                      NEW s \in Devices, NEW t \in Devices,
                      Participants(s) = Participants(t), ~Vanishes(s), ~Vanishes(t),
                      NEW f \in finalized[s], NEW g \in finalized[t]
               PROVE  f.group_key = g.group_key
    BY DEF AgreementUnlessReleasedTwice
  <2>1. ASSUME NEW u \in Devices, NEW v \in Devices,
               Participants(u) = Participants(v), ~Vanishes(u), ~Vanishes(v),
               NEW x \in finalized[u], NEW y \in finalized[v],
               NEW poly \in x.group_key
        PROVE  poly \in y.group_key
    <3> DEFINE k == poly[1]
    <3>1. k \in Participants(u) /\ k \in Participants(v) /\ k \in Devices
      BY <2>1 DEF IInv, EveryoneContributed, SumsContributions, FinalizedPoliciesAgree
    <3>2. PICK own \in x.group_key :
             /\ \A z \in x.group_key : z[1] = k <=> z = own
             /\ [sender |-> k, recipient |-> u, recipient_rank |-> RankOf(u, u),
                 polynomial |-> own] \in round2_out
      BY <2>1, <3>1 DEF IInv, EveryoneContributed, SumsContributions
    <3>3. PICK other \in y.group_key :
             [sender |-> k, recipient |-> v, recipient_rank |-> RankOf(v, v),
              polynomial |-> other] \in round2_out
      BY <2>1, <3>1 DEF IInv, EveryoneContributed, SumsContributions
    <3>4. own \in Released(k) /\ other \in Released(k)
      BY <3>2, <3>3 DEF Released
    <3>5. poly = own
      BY <3>2
    <3> QED
      BY <3>1, <3>3, <3>4, <3>5
  <2>2. f.group_key \subseteq g.group_key
    BY <2>1
  <2>3. g.group_key \subseteq f.group_key
    BY <2>1
  <2> QED
    BY <2>2, <2>3
<1> QED
  BY <1>1, InitIInv, NextIInv, PTL DEF Spec

\* A device whose participants hold policies that agree with its own and have answered
\* round 2 finds packages that finalize_htss_dkg accepts.
THEOREM HtssCanFinalize == Spec => []AgreeingDevicesCanFinalize
<1>1. IInv => AgreeingDevicesCanFinalize
  <2> SUFFICES ASSUME IInv, NEW s \in Devices, s \in Participants(s),
                      \A k \in Participants(s) : PoliciesAgree(s, k) /\ Released(k) # {}
               PROVE  \E pkgs \in OnePerParticipant(s, round1_out) :
                         /\ ValidRound1Set(s, pkgs)
                         /\ \E shares \in OnePerParticipant(s, {p \in round2_out :
                                                                   p.recipient = s}) :
                               /\ ValidRound2Set(s, shares)
                               /\ \A k \in Participants(s) :
                                     VerifyDerivativeShare(s, shares[k], pkgs[k])
    BY DEF AgreeingDevicesCanFinalize
  <2> DEFINE poly(k) == CHOOSE p \in Released(k) : TRUE
             pkgs == [k \in Participants(s) |-> PackageOf(k, poly(k))]
             shares == [k \in Participants(s) |-> ShareFor(k, s, poly(k))]
  <2>1. ASSUME NEW k \in Participants(s)
        PROVE  PackageOf(k, poly(k)) \in round1_out /\ ShareFor(k, s, poly(k)) \in round2_out
    <3>1. PICK q \in round2_out : q.sender = k /\ q.polynomial = poly(k)
      BY DEF Released
    <3> QED
      BY <3>1 DEF IInv, Published
  <2>2. pkgs \in OnePerParticipant(s, round1_out) /\ ValidRound1Set(s, pkgs)
    BY <2>1 DEF OnePerParticipant, ValidRound1Set, PackageOf
  <2>3. /\ shares \in OnePerParticipant(s, {p \in round2_out : p.recipient = s})
        /\ ValidRound2Set(s, shares)
    BY <2>1 DEF OnePerParticipant, ValidRound2Set, ShareFor
  <2>4. \A k \in Participants(s) : VerifyDerivativeShare(s, shares[k], pkgs[k])
    BY DEF VerifyDerivativeShare, PackageOf, ShareFor
  <2> QED
    BY <2>2, <2>3, <2>4
<1> QED
  BY <1>1, InitIInv, NextIInv, PTL DEF Spec
=============================================================================
