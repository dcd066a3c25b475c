-------------------------- MODULE MCBirkhoffSolver --------------------------
(***************************************************************************)
(* BirkhoffSolver for TLC: four participants, every assignment of ranks    *)
(* 0..3, every threshold, every signer set in ascending and in descending  *)
(* order (the order of the signers permutes the columns of the system).    *)
(***************************************************************************)
EXTENDS BirkhoffSolver

Ids == 1..4

AllConfigs == [threshold : Ids, ranks : [Ids -> 0..3]]

Ascending(S) == SortSeq(CHOOSE s \in [1..Cardinality(S) -> S] : Range(s) = S, <)
Descending(S) == SortSeq(Ascending(S), >)

AllSignerSets == {Ascending(S) : S \in SUBSET Ids} \cup {Descending(S) : S \in SUBSET Ids}
=============================================================================
