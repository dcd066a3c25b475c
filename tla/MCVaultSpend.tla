---------------------------- MODULE MCVaultSpend ----------------------------
(***************************************************************************)
(* VaultSpend for TLC: a field of 7 elements, so every parity and every    *)
(* zero occurs.                                                            *)
(***************************************************************************)
EXTENDS VaultSpend

Required(required, total) == [required |-> required, total |-> total]

\* One of two principals and the one assistant; two of three equals; a principal and
\* two assistants.
Ranked == [ranks |-> <<0, 0, 1>>, requirements |-> (0 :> Required(1, 2) @@ 1 :> Required(1, 1))]
Equals == [ranks |-> <<0, 0, 0>>, requirements |-> (0 :> Required(2, 3))]
Everyone == [ranks |-> <<0, 1, 1>>, requirements |-> (0 :> Required(1, 1) @@ 1 :> Required(2, 2))]

\* A rank is left out; nobody has rank 0.
Gap == [ranks |-> <<0, 2>>, requirements |-> (0 :> Required(1, 1) @@ 2 :> Required(1, 1))]
NoTop == [ranks |-> <<1, 1>>, requirements |-> (1 :> Required(2, 2))]

AllPolicies == {Ranked, Equals, Everyone, Gap, NoTop}

AllSignerLists == {<<1, 2>>, <<1, 3>>, <<3, 1>>, <<3, 2>>, <<2, 1, 3>>}
AllConfigs == {HierarchicalConfigFromGrouped(c) : c \in AllPolicies}

\* Hashes of the internal key that tell keys apart; ILs of which one is zero, or which
\* cancel each other.
HashFrom(il1, il2, b) == [il |-> <<il1, il2>>, tap |-> [key \in Scalars |-> (3 * key + b) % Order]]
AllHashes ==
    {HashFrom(1, il2, b) : il2 \in {1, 6}, b \in {0, 2}} \cup {HashFrom(0, 1, 2), HashFrom(4, 5, 1)}
=============================================================================
