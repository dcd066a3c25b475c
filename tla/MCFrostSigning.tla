--------------------------- MODULE MCFrostSigning ---------------------------
(***************************************************************************)
(* FrostSigning for TLC: devices 1..3 of a group of three with threshold   *)
(* two, of which device 3 holds a share of another key.                    *)
(***************************************************************************)
EXTENDS FrostSigning

CONSTANTS keyA, keyB

TwoOfThree == [kind |-> "Threshold", config |-> [threshold |-> 2, participants |-> 3]]

\* Device 1 has rank 0, devices 2 and 3 rank 1.
Ranks == [i \in 1..3 |-> IF i = 1 THEN 0 ELSE 1]
TwoByRank == [kind |-> "Hierarchical", config |-> [threshold |-> 2, ranks |-> Ranks]]
OneOfEachRank ==
    [kind |-> "Grouped",
     config |-> [ranks |-> Ranks,
                 requirements |-> [r \in 0..1 |-> [required |-> 1, total |-> r + 1]]]]

ASSUME IsThresholdConfig(TwoOfThree.config)
ASSUME IsHierarchicalConfig(TwoByRank.config)
ASSUME IsGroupedConfig(OneOfEachRank.config)

Req(session, digest, signers) ==
    [session_id |-> session, group_key |-> keyA, message_digest |-> digest,
     signer_set |-> signers]

Group == {1, 2, 3}
Keys == [i \in Group |-> IF i = 3 THEN keyB ELSE keyA]

\* One request under two handles, another digest under the same session id, and
\* requests their policies do not let through.
AllHandles == 1..8
AllRequests ==
    <<Req(1, 1, <<1, 2>>), Req(1, 1, <<1, 2>>), Req(1, 2, <<2, 1>>), Req(1, 1, <<1>>),
      Req(1, 1, <<1, 1>>), Req(1, 1, <<1, 4>>), Req(1, 1, <<2, 3>>), Req(1, 1, <<3, 2>>)>>
AllPolicies ==
    <<OneOfEachRank, TwoOfThree, TwoByRank, TwoOfThree,
      TwoOfThree, TwoOfThree, TwoByRank, OneOfEachRank>>
Draws == <<2, 2, 1>>
=============================================================================
