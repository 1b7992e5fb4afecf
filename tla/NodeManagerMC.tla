---------------------------- MODULE NodeManagerMC ----------------------------
(***************************************************************************)
(* NodeManager for TLC: only the root differs from the other nodes.        *)
(***************************************************************************)
EXTENDS NodeManager, TLC

Symmetry == Permutations(Node \ {Root})
=============================================================================
