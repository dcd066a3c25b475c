--------------------------- MODULE FrostDkg_proofs ---------------------------
(***************************************************************************)
(* Proofs about FrostDkg, for every participant count, set of devices and  *)
(* number of round1 calls.                                                 *)
(***************************************************************************)
EXTENDS FrostDkg, TLAPS

\* Where polynomials come from: a device's pending shares are of a polynomial of
\* its own, and a package labelled with an id carries a polynomial of that id.
Provenance ==
    /\ \A s \in Sessions : pending[s] # NoRuntime => pending[s][1] = s
    /\ \A p \in round1_out : p.bytes \in Polynomials /\ p.bytes[1] = p.participant_id
    /\ \A s \in Sessions : \A k \in DOMAIN round1_packages[s] :
          round1_packages[s][k] # Malformed => round1_packages[s][k][1] = k
    /\ \A p \in round2_out :
          /\ p.bytes \in Polynomials
          /\ p.bytes[1] = p.sender
          /\ p.recipient \in 1..N

\* The inductive invariant.
IInv == TypeOK /\ Provenance /\ EveryoneContributed

USE DEF Polynomials, Malformed, NoRuntime, Bytes, KeygenInput, ShareIndices

\* No polynomial is one of the two markers.
LEMMA Markers ==
    ASSUME NEW p \in Polynomials
    PROVE  p # Malformed /\ p # NoRuntime /\ p[1] \in Sessions
BY DkgAssumption

LEMMA InitIInv == Init => IInv
BY DEF Init, IInv, TypeOK, Provenance, EveryoneContributed, LocalKeyShare

\* The map collected from packages maps an id to the bytes of a package under it.
LEMMA ByIdValue ==
    ASSUME NEW pkgs, NEW k \in DOMAIN ById(pkgs)
    PROVE  \E i \in DOMAIN pkgs : pkgs[i].participant_id = k /\ ById(pkgs)[k] = pkgs[i].bytes
<1>1. PICK i \in DOMAIN pkgs : pkgs[i].participant_id = k
  BY DEF ById
<1> DEFINE c == CHOOSE j \in DOMAIN pkgs : pkgs[j].participant_id = k
<1>2. c \in DOMAIN pkgs /\ pkgs[c].participant_id = k
  BY <1>1
<1>3. ById(pkgs)[k] = pkgs[c].bytes
  BY DEF ById
<1> QED
  BY <1>2, <1>3

LEMMA NextIInv == IInv /\ [Next]_vars => IInv'
<1> SUFFICES ASSUME IInv, [Next]_vars
             PROVE  IInv'
  OBVIOUS
<1> USE DkgAssumption
<1>1. ASSUME NEW s \in Sessions, NewSession(s)
      PROVE  IInv'
  <2>1. TypeOK'
    BY <1>1 DEF IInv, NewSession, TypeOK
  <2>2. Provenance'
    BY <1>1 DEF IInv, NewSession, TypeOK, Provenance
  <2>3. EveryoneContributed'
    BY <1>1 DEF IInv, NewSession, EveryoneContributed
  <2> QED
    BY <2>1, <2>2, <2>3 DEF IInv
<1>2. ASSUME NEW s \in Sessions, Round1(s)
      PROVE  IInv'
  <2> DEFINE poly == <<s, draws[s] + 1>>
  <2>1. poly \in Polynomials /\ poly[1] = s
    BY DEF IInv, TypeOK
  <2>2. TypeOK'
    BY <1>2, <2>1 DEF IInv, TypeOK, Round1, Round1Package
  <2>3. Provenance'
    BY <1>2, <2>1 DEF IInv, TypeOK, Provenance, Round1
  <2>4. EveryoneContributed'
    BY <1>2 DEF IInv, EveryoneContributed, Round1
  <2> QED
    BY <2>2, <2>3, <2>4 DEF IInv
<1>3. ASSUME NEW s \in Sessions, Round2(s)
      PROVE  IInv'
  <2>1. PICK pkgs \in Slices(Round1Inputs, N) :
           /\ ValidRound1Set(pkgs)
           /\ round1_packages' = [round1_packages EXCEPT ![s] = ById(pkgs)]
           /\ round2_out' = IF Aggregates(ById(pkgs))
                            THEN round2_out \cup
                                   [sender : {s}, recipient : ShareIndices, bytes : {pending[s]}]
                            ELSE round2_out
    BY <1>3 DEF Round2
  <2>2. UNCHANGED <<draws, pending, round1_out, local_shares>> /\ pending[s] # NoRuntime
    BY <1>3 DEF Round2
  <2>3. ASSUME NEW k \in DOMAIN ById(pkgs)
        PROVE  /\ k \in Sessions
               /\ ById(pkgs)[k] \in Bytes
               /\ ById(pkgs)[k] # Malformed => ById(pkgs)[k][1] = k
    <3>1. PICK m \in Nat : pkgs \in [1..m -> Round1Inputs]
      BY <2>1 DEF Slices
    <3>2. PICK p \in Round1Inputs : p.participant_id = k /\ ById(pkgs)[k] = p.bytes
      <4>1. PICK i \in DOMAIN pkgs : pkgs[i].participant_id = k /\ ById(pkgs)[k] = pkgs[i].bytes
        BY ByIdValue
      <4> QED
        BY <3>1, <4>1
    <3>3. CASE p \in round1_out
      BY <3>2, <3>3 DEF IInv, TypeOK, Provenance, Round1Package
    <3>4. CASE p \in [participant_id : Broken, bytes : {Malformed}]
      BY <3>2, <3>4
    <3> QED
      BY <3>3, <3>4 DEF Round1Inputs
  <2>4. ASSUME NEW p \in round2_out'
        PROVE  \/ p \in round2_out
               \/ /\ p \in [sender : {s}, recipient : ShareIndices, bytes : {pending[s]}]
                  /\ p \in Round2Package
                  /\ p.bytes \in Polynomials /\ p.bytes[1] = p.sender
                  /\ p.recipient \in 1..N
    BY <2>1, <2>2 DEF IInv, TypeOK, Provenance, Round2Package
  <2>5. round2_out \subseteq round2_out'
    BY <2>1
  <2>6. TypeOK'
    BY <2>1, <2>2, <2>3, <2>4 DEF IInv, TypeOK
  <2>7. Provenance'
    <3>1. \A u \in Sessions : \A k \in DOMAIN round1_packages'[u] :
             round1_packages'[u][k] # Malformed => round1_packages'[u][k][1] = k
      BY <2>1, <2>3 DEF IInv, TypeOK, Provenance
    <3>2. \A p \in round2_out' : /\ p.bytes \in Polynomials
                                 /\ p.bytes[1] = p.sender
                                 /\ p.recipient \in 1..N
      BY <2>4 DEF IInv, Provenance
    <3> QED
      BY <2>2, <3>1, <3>2 DEF IInv, Provenance
  <2>8. EveryoneContributed'
    <3> SUFFICES ASSUME NEW u \in Sessions, NEW share \in local_shares[u]
                 PROVE  /\ share.secret_share = share.group_key
                        /\ \A k \in 1..N : \E poly \in share.group_key :
                              /\ \A other \in share.group_key : other[1] = k <=> other = poly
                              /\ [sender |-> k, recipient |-> u, bytes |-> poly] \in round2_out'
                        /\ \A poly \in share.group_key : poly[1] \in 1..N
      BY <2>2 DEF EveryoneContributed
    <3> QED
      BY <2>5 DEF IInv, EveryoneContributed
  <2> QED
    BY <2>6, <2>7, <2>8 DEF IInv
<1>4. ASSUME NEW s \in Sessions, Finalize(s)
      PROVE  IInv'
  <2> DEFINE m == round1_packages[s]
  <2>1. PICK pkgs \in Slices(Round2Inputs(s), N) :
           /\ ValidRound2Set(pkgs)
           /\ ReceiveSecretShare(m, CollectSecretInputs(pkgs))
           /\ local_shares' = [local_shares EXCEPT ![s] = @ \cup
                 {[group_key |-> AggregatePolynomial(m),
                   secret_share |-> CollectSecretInputs(pkgs)]}]
    BY <1>4 DEF Finalize
  <2>2. /\ UNCHANGED <<draws, pending, round1_packages, round1_out, round2_out>>
        /\ Aggregates(m)
    BY <1>4 DEF Finalize
  <2>3. ASSUME NEW k \in 1..N
        PROVE  m[k] \in Polynomials /\ m[k][1] = k
    BY <2>2 DEF Aggregates, IInv, TypeOK, Provenance
  <2>4. \A i \in DOMAIN pkgs :
           pkgs[i] \in round2_out /\ pkgs[i].recipient = s
    BY <2>1 DEF Slices, ValidRound2Set, Round2Inputs
  <2>5. ASSUME NEW k \in 1..N
        PROVE  [sender |-> k, recipient |-> s, bytes |-> m[k]] \in round2_out
    <3>1. m[k] \in CollectSecretInputs(pkgs)
      BY <2>1, <2>2 DEF ReceiveSecretShare, AggregatePolynomial, Aggregates
    <3>2. PICK i \in DOMAIN pkgs : pkgs[i].bytes = m[k]
      BY <3>1 DEF CollectSecretInputs
    <3>3. pkgs[i].sender = k
      BY <3>2, <2>3, <2>4 DEF IInv, Provenance
    <3>4. pkgs[i] \in Round2Package
      BY <2>4 DEF IInv, TypeOK
    <3> QED
      BY <3>2, <3>3, <3>4, <2>4 DEF Round2Package
  <2> DEFINE key == AggregatePolynomial(m)
             share == [group_key |-> key, secret_share |-> CollectSecretInputs(pkgs)]
  <2>6. /\ share.secret_share = share.group_key
        /\ \A k \in 1..N : m[k] \in key
        /\ \A p \in key : p \in Polynomials /\ \E k \in 1..N : p = m[k]
        /\ share \in LocalKeyShare
    BY <2>1, <2>2, <2>3
       DEF ReceiveSecretShare, AggregatePolynomial, Aggregates, LocalKeyShare
  <2>7. ASSUME NEW k \in 1..N, NEW other \in key
        PROVE  other[1] = k <=> other = m[k]
    BY <2>3, <2>6
  <2>8. TypeOK'
    BY <2>1, <2>2, <2>6 DEF IInv, TypeOK
  <2>9. EveryoneContributed'
    <3> SUFFICES ASSUME NEW t \in Sessions, NEW sh \in local_shares'[t]
                 PROVE  /\ sh.secret_share = sh.group_key
                        /\ \A k \in 1..N : \E poly \in sh.group_key :
                              /\ \A other \in sh.group_key : other[1] = k <=> other = poly
                              /\ [sender |-> k, recipient |-> t, bytes |-> poly] \in round2_out
                        /\ \A poly \in sh.group_key : poly[1] \in 1..N
      BY <2>2 DEF EveryoneContributed
    <3>1. CASE sh \in local_shares[t]
      BY <3>1 DEF IInv, EveryoneContributed
    <3>2. CASE t = s /\ sh = share
      BY <3>2, <2>3, <2>5, <2>6, <2>7
    <3> QED
      BY <3>1, <3>2, <2>1 DEF IInv, TypeOK
  <2>10. Provenance'
    BY <2>2 DEF IInv, Provenance
  <2> QED
    BY <2>8, <2>9, <2>10 DEF IInv
<1>5. CASE UNCHANGED vars
  <2>1. TypeOK'
    BY <1>5 DEF vars, IInv, TypeOK
  <2>2. Provenance'
    BY <1>5 DEF vars, IInv, Provenance
  <2>3. EveryoneContributed'
    BY <1>5 DEF vars, IInv, EveryoneContributed
  <2> QED
    BY <2>1, <2>2, <2>3 DEF IInv
<1> QED
  BY <1>1, <1>2, <1>3, <1>4, <1>5 DEF Next

\* The session cells and the packages of FrostDkgSession always have their types.
THEOREM TypeCorrect == Spec => []TypeOK
<1>1. IInv => TypeOK
  BY DEF IInv
<1> QED
  BY <1>1, InitIInv, NextIInv, PTL DEF Spec

\* Whatever finalize returns sums one polynomial of every participant, each sent by
\* its owner to this device, and matches its group key.
THEOREM Contribution == Spec => []EveryoneContributed
<1>1. IInv => EveryoneContributed
  BY DEF IInv
<1> QED
  BY <1>1, InitIInv, NextIInv, PTL DEF Spec

\* Devices that finalize derive the same group key unless some participant sent out
\* shares of two different polynomials.
THEOREM Agreement == Spec => []AgreementUnlessReleasedTwice
<1>1. IInv => AgreementUnlessReleasedTwice
  <2> SUFFICES ASSUME IInv,
                      \A k \in 1..N : \A p, q \in Released(k) : p = q,
                      NEW s \in Sessions, NEW t \in Sessions,
                      NEW a \in local_shares[s], NEW b \in local_shares[t]
               PROVE  a.group_key = b.group_key
    BY DEF AgreementUnlessReleasedTwice
  <2>1. ASSUME NEW u \in Sessions, NEW v \in Sessions,
               NEW x \in local_shares[u], NEW y \in local_shares[v],
               NEW poly \in x.group_key
        PROVE  poly \in y.group_key
    <3> DEFINE k == poly[1]
    <3>1. k \in 1..N
      BY DEF IInv, EveryoneContributed
    <3>2. [sender |-> k, recipient |-> u, bytes |-> poly] \in round2_out
      <4>1. PICK own \in x.group_key :
               /\ \A z \in x.group_key : z[1] = k <=> z = own
               /\ [sender |-> k, recipient |-> u, bytes |-> own] \in round2_out
        BY <3>1 DEF IInv, EveryoneContributed
      <4>2. poly = own
        BY <4>1
      <4> QED
        BY <4>1, <4>2
    <3>3. PICK other \in y.group_key :
             [sender |-> k, recipient |-> v, bytes |-> other] \in round2_out
      BY <3>1 DEF IInv, EveryoneContributed
    <3>4. poly \in Released(k) /\ other \in Released(k)
      BY <3>2, <3>3 DEF Released
    <3> QED
      BY <3>1, <3>3, <3>4
  <2>2. a.group_key \subseteq b.group_key
    BY <2>1
  <2>3. b.group_key \subseteq a.group_key
    BY <2>1
  <2> QED
    BY <2>2, <2>3
<1> QED
  BY <1>1, InitIInv, NextIInv, PTL DEF Spec

\* A device whose id exceeds the participant count never obtains a share.
THEOREM Outsider == Spec => []OutsiderNeverFinalizes
<1>1. IInv => OutsiderNeverFinalizes
  <2> SUFFICES ASSUME IInv, NEW s \in Sessions, NEW share \in local_shares[s]
               PROVE  s \in 1..N
    BY DEF OutsiderNeverFinalizes
  <2>1. 1 \in 1..N
    BY DkgAssumption
  <2>2. PICK poly : [sender |-> 1, recipient |-> s, bytes |-> poly] \in round2_out
    BY <2>1 DEF IInv, EveryoneContributed
  <2> QED
    BY <2>2 DEF IInv, Provenance
<1> QED
  BY <1>1, InitIInv, NextIInv, PTL DEF Spec
=============================================================================
