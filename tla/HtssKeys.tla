------------------------------ MODULE HtssKeys ------------------------------
(***************************************************************************)
(* The life of an HTSS key set of dkgkit-frost in numbers: dealt locally   *)
(* or by the distributed key generation, reconstructed from, reshared to   *)
(* another policy any number of times, with the parities of the x-only     *)
(* keys.                                                                   *)
(*                                                                         *)
(* A point is its discrete logarithm.  Which of p and -p has the even y is *)
(* arbitrary on the curve; here it is the smaller one.  An x-only key is   *)
(* the even point with that x.                                             *)
(***************************************************************************)
EXTENDS Birkhoff

CONSTANTS
    Configs,      \* the HierarchicalThresholdConfigs in use
    SignerLists,  \* lists of signers a caller may pass
    Random        \* what a random non-zero scalar may be (a bound)

ASSUME KeysAssumption ==
    /\ \A c \in Configs : IsHierarchicalConfig(c)
    /\ Random \subseteq Scalars \ {0}

VARIABLES
    config,     \* the configuration the current shares were dealt under
    group_key,  \* its x-only key, NoKey before key generation
    shares      \* the HtssLocalKeyShares: id -> [rank, value]

vars == <<config, group_key, shares>>

NoKey == 0

IsOdd(point) == 2 * point > Order

\* into_point_with_even_y, and the x-only bytes
EvenY(point) == IF IsOdd(point) THEN ScalarNegate(point) ELSE point

\* Schnorr::new_keypair: the secret key of the even public key.
KeypairSecret(secret) == EvenY(secret)

Polynomials(c) == [0 .. c.threshold - 1 -> Random]

\* Deviation: everyone is dealt a plain evaluation.
DerivativeSharesUnranked(poly, c) ==
    [i \in DOMAIN c.ranks |->
        [rank |-> 0, value |-> PolynomialDerivativeValue(poly, i, 0)]]

\* The derivative shares of a polynomial for the participants of c.
DerivativeShares(poly, c) ==
    [i \in DOMAIN c.ranks |->
        [rank |-> c.ranks[i], value |-> PolynomialDerivativeValue(poly, i, c.ranks[i])]]

-----------------------------------------------------------------------------
\* The signers are valid under c and their system has a solution, and its Birkhoff
\* coefficients.  (Tables, as they depend on nothing else.)
Accepts ==
    [c \in Configs |-> [signers \in SignerLists |->
        /\ ValidHierarchicalSignerSet(signers, c)
        /\ Interpolates(BirkhoffPoints(signers, c))]]

Weights ==
    [c \in Configs |-> [signers \in {l \in SignerLists : Accepts[c][l]} |->
        Coefficients(BirkhoffPoints(signers, c))]]

\* reconstruct_htss_secret_scalar returns Ok: the signers are accepted, and there is a
\* share of the right rank of each.
Reconstructs(held, signers, c) ==
    /\ Accepts[c][signers]
    /\ \A i \in DOMAIN signers :
          /\ signers[i] \in DOMAIN held
          /\ held[signers[i]].rank = c.ranks[signers[i]]

\* The secret it returns.
ReconstructedSecret(held, signers, c) ==
    ScalarSum([i \in DOMAIN signers |->
        ScalarMul(Weights[c][signers][i], held[signers[i]].value)])

\* sign_digest_with_local_htss_shares returns Ok.
SignsLocally(held, signers, c, key) ==
    /\ Reconstructs(held, signers, c)
    /\ ReconstructedSecret(held, signers, c) # 0
    /\ EvenY(ReconstructedSecret(held, signers, c)) = key

-----------------------------------------------------------------------------
Init ==
    /\ config \in Configs
    /\ group_key = NoKey
    /\ shares = <<>>

\* run_local_htss_keygen: one dealer, whose secret is that of an even key.
LocalKeygen ==
    /\ group_key = NoKey
    /\ \E poly \in Polynomials(config) :
          LET dealt == [poly EXCEPT ![0] = KeypairSecret(@)] IN
          /\ group_key' = EvenY(poly[0])
          /\ shares' = DerivativeShares(dealt, config)
    /\ UNCHANGED config

\* finalize_htss_dkg: the share is negated with the key.
SignedShare(value, negated) == IF negated THEN ScalarNegate(value) ELSE value

\* run_distributed_htss_keygen: everyone's polynomial, the key of the summed
\* constant terms, everyone's share the sum of what was sent to it.
DistributedKeygen ==
    /\ group_key = NoKey
    /\ \E poly \in [DOMAIN config.ranks -> Polynomials(config)] :
          LET key == ScalarSum([k \in DOMAIN poly |-> poly[k][0]]) IN
          /\ key # 0
          /\ group_key' = EvenY(key)
          /\ shares' = [i \in DOMAIN config.ranks |->
                [rank |-> config.ranks[i],
                 value |-> SignedShare(
                    ScalarSum([k \in DOMAIN poly |->
                        PolynomialDerivativeValue(poly[k], i, config.ranks[i])]),
                    IsOdd(key))]]
    /\ UNCHANGED config

\* The shares a caller may hold: the current ones, one of them maybe of an earlier
\* sharing or damaged.
HeldShares ==
    {shares} \cup {[shares EXCEPT ![i].value = v] : i \in DOMAIN shares, v \in Scalars}

\* Deviation: the reconstructed secret is not compared with the group key.
ReshareKeyUnchecked(secret) == secret # 0

\* "the reshared key MUST match the existing group key"
ReshareKeyMatches(secret) == secret # 0 /\ EvenY(secret) = group_key

\* The secrets callers may reconstruct, with whatever configuration they take for the
\* old one.
Reconstructed ==
    {ReconstructedSecret(held, signers, c) :
        <<c, signers, held>> \in
            {x \in Configs \X SignerLists \X HeldShares : Reconstructs(x[3], x[2], x[1])}}

\* reshare_htss
Reshare ==
    /\ group_key # NoKey
    /\ \E secret \in Reconstructed :
          /\ ReshareKeyMatches(secret)
          /\ \E new_config \in Configs : \E poly \in Polynomials(new_config) :
                /\ config' = new_config
                /\ shares' = DerivativeShares(
                                [poly EXCEPT ![0] = KeypairSecret(secret)], new_config)
    /\ UNCHANGED group_key

-----------------------------------------------------------------------------
\* Every signer set that the policy accepts and interpolation handles opens the
\* group key, as the even secret that htss_sign_share relies on (it negates no key),
\* however the key came about and however often, from whatever shares and with
\* whatever configuration it was reshared.
EverySetOpensTheKey ==
    group_key # NoKey =>
        \A signers \in SignerLists :
            Reconstructs(shares, signers, config) =>
                ReconstructedSecret(shares, signers, config) = group_key

\* After key generation and after every resharing each participant of the policy in
\* force holds a share, and local signing from the shares succeeds for every signer
\* list that the policy accepts and the solver can interpolate.
SharesServeThePolicy ==
    group_key # NoKey =>
        /\ DOMAIN shares = DOMAIN config.ranks
        /\ \A signers \in SignerLists :
              Accepts[config][signers] =>
                  SignsLocally(shares, signers, config, group_key)
=============================================================================
