----------------------------- MODULE NodeManager -----------------------------
(***************************************************************************)
(* The task node_manager of the root of mesh_websocket_server: it keeps    *)
(* the node table of NodeTable.tla and, after every report, builds the     *)
(* tree of the mesh from it, from the deepest level up.  Every row points  *)
(* to the cJSON object last made for it; making the object of a row hangs  *)
(* the objects of its children under it, whichever objects they are.       *)
(*                                                                         *)
(* The mesh is external: a tree that changes while the nodes go on         *)
(* reporting their level and parent, each at its own time.  A report is    *)
(* handled in the state of the mesh in which it was sent.                  *)
(***************************************************************************)
EXTENDS NodeTable, FiniteSets

CONSTANTS
    Node,        \* the nodes
    Root,        \* the one that runs this task
    NoNode,      \* the parent the root reports, the name in an unused row
    LEVELS,      \* levels that the tree is built from (10)
    JSON_NODES,  \* nodes whose tree fits in JSON_SIZE characters (about 10)
    MaxMoves,    \* bound on the changes of the mesh
    MaxTime      \* bound on the time

ASSUME NodeManagerAssumption ==
    /\ Root \in Node
    /\ NoNode \notin Node
    /\ IsFiniteSet(Node)
    /\ LEVELS \in Nat \ {0}
    /\ JSON_NODES \in Nat
    /\ MaxMoves \in Nat
    /\ MaxTime \in 1 .. TICKS - 1

VARIABLES
    mesh,       \* the parent and the level of every node
    moves,      \* changes of the mesh so far
    now,        \* xTaskGetTickCount
    rows,       \* nodes
    task,       \* does the task go on receiving?
    published   \* previus_json_string, as the pairs of a node and its parent

vars == <<mesh, moves, now, rows, task, published>>

Row == [entry_tick : 0 .. MaxTime,
        level : 1 .. Cardinality(Node) \cup {NoLevel},
        self_mac : Node \cup {NoNode}, parent_mac : Node \cup {NoNode},
        json : {"null", "kept", "released"}]

\* json tells what nodes[i].json points to between two rounds: nothing, an
\* object that was left out of the root's tree, or memory that was freed.
FreeRow == [entry_tick |-> 0, level |-> NoLevel, self_mac |-> NoNode,
            parent_mac |-> NoNode, json |-> "null"]

\* The root is at level 1, every other node one below its parent.
Mesh ==
    {m \in [parent : [Node -> Node \cup {NoNode}],
            level : [Node -> 1 .. Cardinality(Node)]] :
        \A n \in Node :
            IF n = Root THEN m.parent[n] = NoNode /\ m.level[n] = 1
            ELSE m.parent[n] # NoNode /\ m.level[n] = m.level[m.parent[n]] + 1}

\* n and the nodes between it and the root.
Path(n) ==
    {a \in Node : \A S \in SUBSET Node :
        n \in S /\ (\A b \in S \ {Root} : mesh.parent[b] \in S) => a \in S}

TypeOK ==
    /\ mesh \in Mesh
    /\ moves \in 0 .. MaxMoves
    /\ now \in 1 .. MaxTime
    /\ rows \in [Slot -> Row]
    /\ \A i \in Slot : Live(rows[i]) <=> rows[i].level # NoLevel
    /\ task \in {"receive", "finish", "old", "undefined"}
    /\ published \in SUBSET (Node \X (Node \cup {NoNode}))

Init ==
    /\ mesh \in Mesh
    /\ moves = 0
    /\ now = 1
    /\ rows = [i \in Slot |-> FreeRow]
    /\ task = "receive"
    /\ published = {}

-----------------------------------------------------------------------------
(* The table.                                                               *)

Reported(row, n) ==
    [row EXCEPT !.entry_tick = now, !.level = mesh.level[n],
                !.parent_mac = mesh.parent[n]]

Recorded(n) ==
    [i \in Slot |->
        IF Known(rows, n)
        THEN IF Holds(rows[i], n) THEN Reported(rows[i], n) ELSE rows[i]
        ELSE IF FirstFree(rows, i)
        THEN [Reported(rows[i], n) EXCEPT !.self_mac = n]
        ELSE rows[i]]

Swept(t) ==
    [i \in Slot |-> IF Gone(t[i], now)
                    THEN [t[i] EXCEPT !.entry_tick = 0, !.level = NoLevel]
                    ELSE t[i]]

-----------------------------------------------------------------------------
(* The tree.                                                                *)

RootSlots(t) == {i \in Slot : Live(t[i]) /\ t[i].level = 1}

ChildOf(t, k, i) == Live(t[i]) /\ Live(t[k]) /\ t[k].parent_mac = t[i].self_mac

\* The rows of the deepest levels get no object.
Made(t, k) == Live(t[k]) /\ t[k].level <= LEVELS

MadeBefore_LevelsUp(t, k, i) ==
    /\ Made(t, k)
    /\ t[k].level < t[i].level \/ (t[k].level = t[i].level /\ k < i)

\* Levels from the deepest, and the rows of one level in the table's order:
\* k has its object of this round when that of i is made.
MadeBefore(t, k, i) ==
    /\ Made(t, k)
    /\ t[k].level > t[i].level \/ (t[k].level = t[i].level /\ k < i)

\* The objects of earlier rounds that are hung under one of this round.
OldHung(t) ==
    {k \in Slot : /\ t[k].json # "null"
                  /\ \E i \in Slot : /\ Made(t, i) /\ ChildOf(t, k, i)
                                    /\ ~MadeBefore(t, k, i)}

Below_FirstChild(t, i) ==
    {k \in Slot : /\ ChildOf(t, k, i) /\ MadeBefore(t, k, i)
                  /\ \A j \in Slot : ChildOf(t, j, i) => k <= j}

Below(t, i) == {k \in Slot : ChildOf(t, k, i) /\ MadeBefore(t, k, i)}

\* The rows whose objects hang under the root's.
InTree(t) ==
    LET closed == {S \in SUBSET Slot :
                      /\ RootSlots(t) \subseteq S
                      /\ \A i \in S : Below(t, i) \subseteq S}
    IN  {k \in Slot : \A S \in closed : k \in S}

Tree(t) == {<<t[k].self_mac, t[k].parent_mac>> : k \in InTree(t)}

\* The root's object is deleted with all below it; the others are left over.
Released(t) ==
    LET deleted == InTree(t)
    IN  [i \in Slot |->
            IF Made(t, i)
            THEN [t[i] EXCEPT
                    !.json = IF i \in deleted THEN "released" ELSE "kept"]
            ELSE t[i]]

-----------------------------------------------------------------------------
\* There is no root node: continue.
NoTree(t) ==
    /\ RootSlots(t) = {}
    /\ rows' = t
    /\ UNCHANGED <<task, published>>

\* Hanging a released object writes to freed memory; hanging one that was kept
\* puts a subtree of an earlier round into the tree.  The model ends with both.
OldTree(t) ==
    /\ RootSlots(t) # {}
    /\ OldHung(t) # {}
    /\ rows' = t
    /\ task' = IF \E k \in OldHung(t) : t[k].json = "released"
               THEN "undefined" ELSE "old"
    /\ UNCHANGED published

\* JSON_SIZE may be small: break, and the task ends.
LongTree(t) ==
    /\ RootSlots(t) # {}
    /\ OldHung(t) = {}
    /\ Cardinality(InTree(t)) > JSON_NODES
    /\ rows' = t
    /\ task' = "finish"
    /\ UNCHANGED published

PublishTree(t) ==
    /\ RootSlots(t) # {}
    /\ OldHung(t) = {}
    /\ Cardinality(InTree(t)) <= JSON_NODES
    /\ published' = Tree(t)
    /\ rows' = Released(t)
    /\ UNCHANGED task

\* One message of xMessageBufferNodeManager, the report of n.
NodeReport(n) ==
    /\ task = "receive"
    /\ LET kept == Swept(Recorded(n))
       IN  \E t \in {Rearranged(kept, p) : p \in Sorting(kept)} :
             NoTree(t) \/ OldTree(t) \/ LongTree(t) \/ PublishTree(t)
    /\ UNCHANGED <<mesh, moves, now>>

Elapse ==
    /\ now < MaxTime
    /\ now' = now + 1
    /\ UNCHANGED <<mesh, moves, rows, task, published>>

\* n connects to another parent and takes the nodes below it along.
Move(n) ==
    /\ n # Root
    /\ moves < MaxMoves
    /\ moves' = moves + 1
    /\ \E p \in Node \ {mesh.parent[n]} :
          /\ n \notin Path(p)
          /\ LET down == mesh.level[p] + 1 - mesh.level[n]
             IN  mesh' = [parent |-> [mesh.parent EXCEPT ![n] = p],
                          level |-> [k \in Node |-> IF n \in Path(k)
                                                    THEN mesh.level[k] + down
                                                    ELSE mesh.level[k]]]
    /\ UNCHANGED <<now, rows, task, published>>

Next ==
    \/ \E n \in Node : NodeReport(n) \/ Move(n)
    \/ Elapse

Spec == Init /\ [][Next]_vars

-----------------------------------------------------------------------------
(* Properties.                                                              *)

\* What the table says of its nodes is what the mesh is.
UpToDate ==
    \A i \in Slot : Live(rows[i]) =>
        LET n == rows[i].self_mac
        IN  rows[i].level = mesh.level[n] /\ rows[i].parent_mac = mesh.parent[n]

\* The table holds only nodes of levels that the tree is built from.
Shallow == \A i \in Slot : Live(rows[i]) => Made(rows, i)

\* A tree hangs objects of earlier rounds only while some node has changed its
\* place and has not reported since: the order of the levels alone keeps every
\* object in the round it was made in, expired, returned and moved rows
\* included.  (In a mesh deeper than LEVELS a node that has moved down keeps the
\* object of its former place.)
OldOnlyWhileMoving ==
    task \in {"old", "undefined"} => ~UpToDate \/ ~Shallow

\* "Displays all node information in the Mesh-Network" (README of
\* mesh_websocket_server): once every node has reported its place, the
\* published tree is the mesh down to LEVELS, less the nodes that are silent or
\* cut off by silent ones.
TreeExact ==
    task = "receive" /\ UpToDate /\ Known(rows, Root) =>
        published = {<<n, mesh.parent[n]>> :
                        n \in {k \in Node : /\ mesh.level[k] <= LEVELS
                                            /\ \A a \in Path(k) : Known(rows, a)}}

Listing == INSTANCE Registry WITH
    Name <- Node,
    Level <- 1 .. Cardinality(Node),
    SIZE <- NODE_SIZE,
    StartTime <- 1,
    offer <- mesh.level,
    listed <- {[name |-> rows[i].self_mac, level |-> rows[i].level,
                at |-> rows[i].entry_tick] : i \in {j \in Slot : Live(rows[j])}},
    room <- Cardinality({i \in Slot : ~Live(rows[i])})

\* The table below the tree is a Registry: rows are searched, taken, swept and
\* sorted with their json pointers, and no entry is lost, doubled or mixed up,
\* also in the rounds that publish no tree.
ImplementsRegistry == Listing!Spec

\* "Restructuring network topology" (src/README.md:74): the mesh may move
\* nodes at any time, and no object is used after it was deleted.
NoFreedObject == task # "undefined"
=============================================================================
