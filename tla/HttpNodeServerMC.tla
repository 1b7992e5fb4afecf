-------------------------- MODULE HttpNodeServerMC --------------------------
(***************************************************************************)
(* Instances of HttpNodeServer for TLC.                                    *)
(***************************************************************************)
EXTENDS HttpNodeServer, TLC

\* The other nodes are alike, and so are the blocks of the heap and the
\* signal strengths.
Symmetry ==
    Permutations(Mac \ {Root}) \cup Permutations(Block) \cup Permutations(Rssi)
=============================================================================
