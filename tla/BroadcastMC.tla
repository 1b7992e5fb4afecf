---------------------------- MODULE BroadcastMC ----------------------------
(***************************************************************************)
(* Instances of Broadcast for TLC: chains, with the root first.            *)
(***************************************************************************)
EXTENDS Broadcast

CONSTANTS r, a, b, c

\* r - a - b - c
ChainParent == [n \in Node \ {r} |-> CASE n = a -> r [] n = b -> a [] n = c -> b]
ChainDepth ==
    [n \in Node |-> CASE n = r -> 0 [] n = a -> 1 [] n = b -> 2 [] n = c -> 3]
=============================================================================
