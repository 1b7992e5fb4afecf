----------------------------- MODULE MessagesMC -----------------------------
(***************************************************************************)
(* The messages of a mesh that are sent MAX_RETRY times, for TLC: down     *)
(* from the root to every node, or up from the nodes to the root's table.  *)
(* The other direction rests.                                              *)
(***************************************************************************)
EXTENDS BroadcastMC, LeafReports

VARIABLE way

MessagesInit ==
    /\ way \in {"down", "up"}
    /\ Init /\ LeafInit
    \* the levels of the leaves are alike, and one initial state of the leaves is
    \* enough for the way down
    /\ \A n \in Leaf : nodeLevel[n] = 2
    /\ way = "down" => \A n \in Leaf : timerAt[n] = 1

Down == way = "down" /\ Next /\ UNCHANGED <<way, leafVars>>
Up == way = "up" /\ LeafNext /\ UNCHANGED <<way, vars>>

MessagesSpec == MessagesInit /\ [][Down \/ Up]_<<way, vars, leafVars>>
=============================================================================
