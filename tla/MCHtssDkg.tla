------------------------------ MODULE MCHtssDkg ------------------------------
(***************************************************************************)
(* HtssDkg for TLC: a group of three with one policy, in which device 3    *)
(* has a rank that reaches the threshold, and two devices whose policies   *)
(* differ in the rank of device 4.                                         *)
(***************************************************************************)
EXTENDS HtssDkg

Group == 1..5

Policy(ranks) == [threshold |-> 2, ranks |-> ranks]
OfThree == Policy(<<0, 1, 2>>)
Policies ==
    <<OfThree, OfThree, OfThree,
      Policy((4 :> 0) @@ (5 :> 1)), Policy((4 :> 1) @@ (5 :> 1))>>
Draws == <<3, 1, 1, 1, 1>>

ASSUME \A s \in Group : IsHierarchicalConfig(Policies[s])
=============================================================================
