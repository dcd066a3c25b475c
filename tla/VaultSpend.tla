----------------------------- MODULE VaultSpend -----------------------------
(***************************************************************************)
(* A vault under a grouped policy, in numbers: its HTSS key                *)
(* (run_local_grouped_htss_keygen), a receive address below the key        *)
(* (dkgkit-bitcoin), the tweak between key and output, and the threshold   *)
(* signature that spends the output.  Points are discrete logarithms and   *)
(* the even point stands for its x-only key, as in HtssKeys; 0 is the      *)
(* point at infinity.                                                      *)
(*                                                                         *)
(* The hashes (BIP32, BIP341, the Schnorr challenge) are external and      *)
(* arbitrary: their values are inputs.  An IL of the order or more, and a  *)
(* tap_tweak to infinity, on which the library panics, yield nothing.      *)
(***************************************************************************)
EXTENDS HtssKeys

CONSTANTS
    Policies,    \* GroupedThresholdConfigs
    Hashes,      \* [il, tap]: the IL of change and address_index, TapTweakHash of a key
    Payments,    \* silent payment scalars k
    Challenges   \* what a Schnorr challenge may be (a bound)


VARIABLES
    policy,   \* the GroupedThresholdConfig
    hash,     \* the hash functions, as far as they are evaluated
    address,  \* the child address: internal and output key, or None
    tweak,    \* the TaprootKeyTweak, or None
    result    \* what the signing call returned, or None

spendVars == <<policy, hash, address, tweak, result>>
allVars == <<config, group_key, shares, policy, hash, address, tweak, result>>

None == [kind |-> "none"]
Refused(reason) == [kind |-> "refused", reason |-> reason]

\* hierarchical_config_from_grouped_threshold
HierarchicalConfigFromGrouped(c) ==
    [threshold |-> RequiredSignerCount(c), ranks |-> c.ranks]

ASSUME SpendAssumption ==
    /\ \A c \in Policies : IsGroupedConfig(c)
    /\ Configs = {HierarchicalConfigFromGrouped(c) : c \in Policies}

Negated(value, negate) == IF negate THEN ScalarNegate(value) ELSE value

-----------------------------------------------------------------------------
\* Xpub::ckd_pub twice: the child public key, 0 if a step fails.
ChildKey(account) ==
    LET change == ScalarAdd(account, hash.il[1])
        child == ScalarAdd(change, hash.il[2])
    IN  IF 0 \in {hash.il[1], hash.il[2], change} THEN 0 ELSE child

\* tap_tweak of an internal key without a script tree: the output point.
TapTweaked(internal) == ScalarAdd(internal, hash.tap[internal])

\* Deviation: the tweak is not negated along with a child or payment key of odd y.
TweakThroughTapAsGiven(inner, point) ==
    LET internal == EvenY(point)
        output == TapTweaked(internal)
        sum == ScalarAdd(inner, hash.tap[internal])
    IN  [kind |-> IF 0 \in {inner, sum, output} THEN "refused" ELSE "tweak",
         output |-> EvenY(output),
         tweak |-> Negated(sum, IsOdd(output)),
         negate_key |-> IsOdd(point) # IsOdd(output)]

\* Deviation: the hash is taken of the account key.
TweakThroughTapOfAccount(inner, point) ==
    LET internal == EvenY(point)
        output == ScalarAdd(internal, hash.tap[group_key])
        sum == ScalarAdd(Negated(inner, IsOdd(point)), hash.tap[group_key])
    IN  [kind |-> IF 0 \in {inner, sum, output} THEN "refused" ELSE "tweak",
         output |-> EvenY(output),
         tweak |-> Negated(sum, IsOdd(output)),
         negate_key |-> IsOdd(point) # IsOdd(output)]

\* The second half of taproot_child_key_tweak and silent_payment_output_tweak: from
\* the point P + inner G to the output key.  Secret keys and their sums are not zero.
TweakThroughTap(inner, point) ==
    LET internal == EvenY(point)
        output == TapTweaked(internal)
        sum == ScalarAdd(Negated(inner, IsOdd(point)), hash.tap[internal])
    IN  [kind |-> IF 0 \in {inner, sum, output} THEN "refused" ELSE "tweak",
         output |-> EvenY(output),
         tweak |-> Negated(sum, IsOdd(output)),
         negate_key |-> IsOdd(point) # IsOdd(output)]

-----------------------------------------------------------------------------
SpendInit ==
    /\ Init
    /\ policy \in Policies
    /\ config = HierarchicalConfigFromGrouped(policy)
    /\ hash \in Hashes
    /\ address = None
    /\ tweak = None
    /\ result = None

\* run_local_grouped_htss_keygen, or the distributed key generation under the same
\* configuration.
GroupedKeygen ==
    /\ LocalKeygen \/ DistributedKeygen
    /\ UNCHANGED spendVars

\* reshare_htss to the configuration of a new policy, maybe after addresses were given
\* out.
GroupedReshare ==
    /\ result = None
    /\ Reshare
    /\ policy' \in {c \in Policies : HierarchicalConfigFromGrouped(c) = config'}
    /\ UNCHANGED <<hash, address, tweak, result>>

\* taproot_child_address_descriptor
ChildAddressDescriptor ==
    LET internal == EvenY(ChildKey(group_key)) IN
    /\ group_key # NoKey
    /\ tweak = None /\ address = None
    /\ ChildKey(group_key) # 0
    /\ TapTweaked(internal) # 0
    /\ address' = [kind |-> "address", internal |-> internal,
                   output |-> EvenY(TapTweaked(internal))]
    /\ UNCHANGED <<config, group_key, shares, policy, hash, tweak, result>>

\* taproot_child_key_tweak, for the address that was given out.  It derives the child
\* with Xpub::ckd_pub as the address does, and step by step once more to sum the ILs.
\* Both derivations evaluate the same hashes, so that the check that they end at the
\* same point never fails and ChildKey stands for either.
ChildKeyTweak ==
    /\ address # None
    /\ tweak = None
    /\ tweak' = TweakThroughTap(ScalarAdd(hash.il[1], hash.il[2]), ChildKey(group_key))
    /\ UNCHANGED <<config, group_key, shares, policy, hash, address, result>>

\* silent_payment_output_tweak
SilentPaymentOutputTweak(k) ==
    LET point == ScalarAdd(group_key, k) IN
    /\ group_key # NoKey
    /\ tweak = None /\ address = None
    /\ k # 0 /\ point # 0
    /\ tweak' = TweakThroughTap(k, point)
    /\ UNCHANGED <<config, group_key, shares, policy, hash, address, result>>

\* silent_payment_leaf_tweak
SilentPaymentLeafTweak(k) ==
    LET point == ScalarAdd(group_key, k) IN
    /\ group_key # NoKey
    /\ tweak = None /\ address = None
    /\ k # 0 /\ point # 0
    /\ tweak' = [kind |-> "tweak", output |-> EvenY(point),
                 tweak |-> Negated(k, IsOdd(point)), negate_key |-> IsOdd(point)]
    /\ UNCHANGED <<config, group_key, shares, policy, hash, address, result>>

-----------------------------------------------------------------------------
\* What the checks on a signer set come to, before any secret is used: the grouped
\* policy, then the hierarchical one and the solver.
Verdict(signers) ==
    CASE ~ValidGroupedSignerSet(signers, policy) -> "grouped policy"
      [] ~ValidHierarchicalSignerSet(signers, config) -> "rank rule"
      [] ~Accepts[config][signers] -> "interpolation"
      [] OTHER -> "accepted"

\* Deviation: the secret nonces keep their sign when the aggregate is negated.
SignatureShareUnsigned(signers, i, to, nonces, challenge) ==
    ScalarAdd(nonces[i],
              ScalarMul(Negated(challenge, to.negate_key),
                        ScalarMul(Weights[config][signers][i], shares[signers[i]].value)))

\* htss_sign_share_for_output, of the i-th signer.
SignatureShare(signers, i, to, nonces, challenge) ==
    ScalarAdd(Negated(nonces[i], IsOdd(ScalarSum(nonces))),
              ScalarMul(Negated(challenge, to.negate_key),
                        ScalarMul(Weights[config][signers][i], shares[signers[i]].value)))

\* aggregate_htss_signature_shares_for_output, of what the signers returned.
AggregateForOutput(signers, to, nonces, challenge) ==
    LET s == ScalarAdd(ScalarSum([i \in DOMAIN signers |->
                                     SignatureShare(signers, i, to, nonces, challenge)]),
                       ScalarMul(challenge, to.tweak))
        R == EvenY(ScalarSum(nonces))
    IN  IF s = ScalarAdd(R, ScalarMul(challenge, to.output))
        THEN [kind |-> "signature", key |-> to.output, R |-> R, s |-> s, challenge |-> challenge]
        ELSE Refused("verification")

\* sign_digest_with_local_htss_threshold_shares_for_output: nonces, shares, aggregation.
SignRound(signers, to, nonces, challenge) ==
    IF ScalarSum(nonces) = 0
    THEN Refused("aggregate nonce")
    ELSE AggregateForOutput(signers, to, nonces, challenge)

\* sign_digest_with_local_grouped_htss_threshold_shares_for_output.  A call keeps nothing,
\* so one is looked at.
SignGrouped(signers, to) ==
    /\ result = None
    /\ \/ /\ Verdict(signers) # "accepted"
          /\ result' = Refused(Verdict(signers))
       \/ /\ Verdict(signers) = "accepted"
          /\ \E nonces \in [DOMAIN signers -> Random], challenge \in Challenges :
                result' = SignRound(signers, to, nonces, challenge)

\* Spending an output.
SignForOutput(signers) ==
    /\ tweak.kind = "tweak"
    /\ SignGrouped(signers, tweak)
    /\ UNCHANGED <<config, group_key, shares, policy, hash, address, tweak>>

\* sign_digest_with_local_grouped_htss_threshold_shares: the same round under the
\* group key itself.
SignDigest(signers) ==
    /\ group_key # NoKey
    /\ tweak = None
    /\ SignGrouped(signers, [output |-> group_key, tweak |-> 0, negate_key |-> FALSE])
    /\ UNCHANGED <<config, group_key, shares, policy, hash, address, tweak>>

SpendNext ==
    \/ GroupedKeygen
    \/ GroupedReshare
    \/ ChildAddressDescriptor
    \/ ChildKeyTweak
    \/ \E k \in Payments : SilentPaymentOutputTweak(k) \/ SilentPaymentLeafTweak(k)
    \/ \E signers \in SignerLists : SignForOutput(signers) \/ SignDigest(signers)

SpendSpec == SpendInit /\ [][SpendNext]_allVars

-----------------------------------------------------------------------------
\* "The output key is Q = A P + B G": for a child address and both kinds of silent
\* payment, in every combination of the parities of the derived point and the output,
\* the tweak leads from the group key to the output key it is returned with.
TweakOpensOutput ==
    tweak.kind = "tweak" =>
        tweak.output = ScalarAdd(Negated(group_key, tweak.negate_key), tweak.tweak)

\* The tweak is for the address that was given out: taproot_child_key_tweak, which goes
\* through the parities of child and output key on its own, returns the output key
\* taproot_child_address_descriptor put into the address.  It refuses an address that
\* can receive only if the sum of the ILs or the whole tweak is zero, that is if the
\* child or the output key is the group key again.
TweakFitsAddress ==
    address # None =>
        /\ tweak.kind = "tweak" => tweak.output = address.output
        /\ tweak.kind = "refused" => group_key \in {address.internal, address.output}

\* Whatever quorum signs with whatever nonces, for the group key or for any output
\* derived from it: if the policies accept the signers, their points interpolate and
\* the nonces do not cancel, the signature verifies under the output key.
SpendsVerify ==
    result.kind = "refused" => result.reason # "verification"

\* The required signers of smaller ranks are at least as many as the rank.
WellRanked(c) ==
    \A r \in DOMAIN c.requirements :
        r <= SumFunction([q \in {p \in DOMAIN c.requirements : p < r} |->
                            c.requirements[q].required])

\* If the groups of a policy are ranked so that each rank is at most the number of
\* signers required below it, the rank rule refuses no quorum of the policy, however
\* many signers beyond the required ones it has and in whatever order.
WellRankedQuorumsPass ==
    WellRanked(policy) /\ result.kind = "refused" => result.reason # "rank rule"

\* "Grouped policies can also be used with local HTSS signing" (docs/FROST_API.md:234):
\* signers that satisfy the grouped policy are not turned away by the rank rule.
GroupedQuorumsSign ==
    result.kind = "refused" => result.reason # "rank rule"
=============================================================================
