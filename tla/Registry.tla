------------------------------ MODULE Registry ------------------------------
(***************************************************************************)
(* What the node table of a root promises, without its rows: an entry for  *)
(* every node that has been heard from within EXPIRE ticks, as far as      *)
(* there is room.  HttpNodeServer and NodeManager implement it.            *)
(*                                                                         *)
(* The time does not wrap here; what the table does when its tick counter  *)
(* wraps is stated in HttpNodeServer.                                      *)
(***************************************************************************)
EXTENDS Integers, FiniteSets

CONSTANTS
    Name,      \* the nodes
    Level,     \* the levels of the mesh
    SIZE,      \* entries that fit
    EXPIRE,    \* ticks after which a silent node is dropped
    StartTime

VARIABLES
    now,     \* the time
    offer,   \* for every node, the level in its report at hand, or 0
    listed,  \* the entries
    room     \* how many more fit

vars == <<now, offer, listed, room>>

Entry == [name : Name, level : Level, at : Nat]

TypeOK ==
    /\ now \in Nat
    /\ offer \in [Name -> Level \cup {0}]
    /\ listed \subseteq Entry
    /\ room \in 0 .. SIZE

IsListed(n) == \E e \in listed : e.name = n

Init ==
    /\ now = StartTime
    /\ listed = {}
    /\ room = SIZE

\* Whose report comes next, and what it says, is up to the mesh.
NewOffer == UNCHANGED <<now, listed, room>>

Elapse == now' = now + 1 /\ UNCHANGED <<offer, listed, room>>

Kept(entries) == {e \in entries : now - e.at <= EXPIRE}

\* A report is entered if its node is listed already or there was room before
\* the silent nodes were dropped; otherwise it only serves to drop them.
Report(n) ==
    /\ offer[n] # 0
    /\ LET fresh  == [name |-> n, level |-> offer[n], at |-> now]
           others == {e \in listed : e.name # n}
       IN  listed' = IF IsListed(n) \/ room > 0
                     THEN Kept(others \cup {fresh}) ELSE Kept(listed)
    /\ room' = SIZE - Cardinality(listed')
    /\ UNCHANGED now

Next == NewOffer \/ Elapse \/ \E n \in Name : Report(n)

Spec == Init /\ [][Next]_vars
=============================================================================
