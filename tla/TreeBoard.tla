----------------------------- MODULE TreeBoard -----------------------------
(***************************************************************************)
(* What mesh_websocket_server promises to the browsers: the trees of the   *)
(* mesh are numbered as they are built, and what a connected browser shows *)
(* is a tree that was built, never replaced by an older one.               *)
(***************************************************************************)
EXTENDS Naturals

CONSTANT Browser

VARIABLES
    latest,  \* the last tree built since boot
    shown    \* the tree each browser shows, 0 for none

vars == <<latest, shown>>

TypeOK == latest \in Nat /\ shown \in [Browser -> 0 .. latest]

Init == latest = 0 /\ shown = [b \in Browser |-> 0]

Build == latest' = latest + 1 /\ UNCHANGED shown

\* Some browsers are sent a tree.
Show(to, tree) ==
    /\ tree \in 1 .. latest
    /\ \A b \in to : shown[b] <= tree
    /\ shown' = [b \in Browser |-> IF b \in to THEN tree ELSE shown[b]]
    /\ UNCHANGED latest

\* The pages of some browsers are closed, or their connections lost.
Leave(some) ==
    /\ shown' = [b \in Browser |-> IF b \in some THEN 0 ELSE shown[b]]
    /\ UNCHANGED latest

Reboot == latest' = 0 /\ shown' = [b \in Browser |-> 0]

Next ==
    \/ Build
    \/ Reboot
    \/ \E to \in SUBSET Browser, tree \in 1 .. latest : Show(to, tree)
    \/ \E some \in SUBSET Browser : Leave(some)

Spec == Init /\ [][Next]_vars
=============================================================================
