--------------------------- MODULE MCDX12Context ----------------------------
(***************************************************************************)
(* Instances of DX12Context for TLC.  Workers are interchangeable, and so  *)
(* are the identities: the code only compares them.                        *)
(***************************************************************************)
EXTENDS DX12Context, TLC

Symmetry == Permutations(Workers) \cup Permutations(Ids)
=============================================================================
