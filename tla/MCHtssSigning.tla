---------------------------- MODULE MCHtssSigning ----------------------------
(***************************************************************************)
(* HtssSigning for TLC: devices 1..3, a key made with threshold two.       *)
(***************************************************************************)
EXTENDS HtssSigning

CONSTANT keyA

Group == 1..3

Policy(ranks) == [threshold |-> 2, ranks |-> ranks]
Req(digest, signers) == [group_key |-> keyA, digest |-> digest, signer_set |-> signers]

ASSUME \A i \in Group : IsHierarchicalConfig(ConfigOf[i])

\* Device 1 takes device 3 for rank 1.  Device 2 may draw twice, in two sessions, and is
\* a signer of two digests; a third request the policies refuse.
Shares == [i \in Group |-> [rank |-> IF i = 2 THEN 1 ELSE 0, group_key |-> keyA]]
Policies == <<Policy(<<0, 1, 1>>), Policy(<<0, 1, 0>>), Policy(<<0, 1, 0>>)>>
AllRequests == {Req(1, <<1, 2>>), Req(2, <<3, 2>>), Req(1, <<2>>)}
Nonces == <<1, 2, 1>>
=============================================================================
