----------------------------- MODULE MCFrostDkg -----------------------------
(***************************************************************************)
(* FrostDkg for TLC: two participants, both of which may draw twice, and a *)
(* device with an id above the count.                                      *)
(***************************************************************************)
EXTENDS FrostDkg

Group == {1, 2, 3}
Draws == <<2, 2, 1>>
=============================================================================
