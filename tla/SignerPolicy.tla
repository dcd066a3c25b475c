---------------------------- MODULE SignerPolicy ----------------------------
(***************************************************************************)
(* Who may sign: the configurations of dkgkit-core and the signer set      *)
(* validation of dkgkit-frost.  Pure operators, no state.                  *)
(*                                                                         *)
(* A list of RankedParticipants without a repeated id is the function from *)
(* id to rank; a list of GroupThresholdRequirements without a repeated     *)
(* rank is the function from rank to [required, total].                    *)
(***************************************************************************)
EXTENDS Integers, Sequences, FiniteSets, Functions, TLC

\* ThresholdConfig::new
IsThresholdConfig(c) ==
    /\ c.threshold # 0
    /\ c.participants # 0
    /\ c.threshold <= c.participants

\* The part of HierarchicalThresholdConfig and GroupedThresholdConfig that
\* threshold_config passes on: the number of participants, not their largest id.
ParticipantCount(ranks) == Cardinality(DOMAIN ranks)

\* HierarchicalThresholdConfig::threshold_config
HierarchicalThreshold(c) ==
    [threshold |-> c.threshold, participants |-> ParticipantCount(c.ranks)]

\* HierarchicalThresholdConfig::new
IsHierarchicalConfig(c) == IsThresholdConfig(HierarchicalThreshold(c))

\* required_signer_count.  The u16 sum cannot overflow: by the checks of new it is
\* at most the number of participants, which have distinct non-zero u16 ids.
RequiredSignerCount(c) ==
    SumFunction([r \in DOMAIN c.requirements |-> c.requirements[r].required])

\* GroupedThresholdConfig::threshold_config
GroupedThreshold(c) ==
    [threshold |-> RequiredSignerCount(c), participants |-> ParticipantCount(c.ranks)]

\* GroupThresholdRequirement::new and GroupedThresholdConfig::new
IsGroupedConfig(c) ==
    /\ DOMAIN c.ranks # {}
    /\ DOMAIN c.requirements # {}
    /\ \A r \in DOMAIN c.requirements :
          /\ c.requirements[r].required \in 1 .. c.requirements[r].total
          /\ c.requirements[r].total = Cardinality({i \in DOMAIN c.ranks : c.ranks[i] = r})
    /\ \A i \in DOMAIN c.ranks : c.ranks[i] \in DOMAIN c.requirements

-----------------------------------------------------------------------------
\* validate_signer_set
ValidSignerSet(signers, c) ==
    /\ Len(signers) >= c.threshold
    /\ \A i \in DOMAIN signers : signers[i] <= c.participants
    /\ \A i, j \in DOMAIN signers : i # j => signers[i] # signers[j]

\* Deviation: the ranks are left in the caller's order.
RanksAsGiven(signers, ranks) == [i \in DOMAIN signers |-> ranks[signers[i]]]

\* The ranks of the signers, sorted as validate_hierarchical_signer_set does.
SortedRanks(signers, ranks) ==
    SortSeq([i \in DOMAIN signers |-> ranks[signers[i]]], <)

\* Deviation: positions are counted from one.
RankRuleFromOne(sorted, threshold) ==
    \A index \in 1..threshold : sorted[index] <= index

\* The Birkhoff rank rule: only the first threshold of the sorted ranks count.
RankRule(sorted, threshold) ==
    \A index \in 0 .. threshold - 1 : sorted[index + 1] <= index

\* validate_hierarchical_signer_set
ValidHierarchicalSignerSet(signers, c) ==
    /\ ValidSignerSet(signers, HierarchicalThreshold(c))
    /\ \A i \in DOMAIN signers : signers[i] \in DOMAIN c.ranks
    /\ RankRule(SortedRanks(signers, c.ranks), c.threshold)

\* validate_grouped_threshold_signer_set
ValidGroupedSignerSet(signers, c) ==
    /\ ValidSignerSet(signers, GroupedThreshold(c))
    /\ \A i \in DOMAIN signers : signers[i] \in DOMAIN c.ranks
    /\ \A r \in DOMAIN c.requirements :
          Cardinality({i \in DOMAIN signers : c.ranks[signers[i]] = r})
              >= c.requirements[r].required

\* validate_signer_set_with_policy
ValidSignerSetWithPolicy(signers, policy) ==
    \/ policy.kind = "Threshold" /\ ValidSignerSet(signers, policy.config)
    \/ policy.kind = "Hierarchical" /\ ValidHierarchicalSignerSet(signers, policy.config)
    \/ policy.kind = "Grouped" /\ ValidGroupedSignerSet(signers, policy.config)
=============================================================================
