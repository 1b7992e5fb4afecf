------------------------- MODULE NodeManager_proofs -------------------------
(***************************************************************************)
(* Proofs about NodeManager, for every set of nodes, every size of the     *)
(* table, every LEVELS and every number of changes of the mesh.            *)
(***************************************************************************)
EXTENDS NodeManager, NodeTable_proofs

(* The mesh is a tree with its levels.                                      *)

MeshTree ==
    /\ mesh.parent \in [Node -> Node \cup {NoNode}]
    /\ mesh.level \in [Node -> Nat \ {0}]
    /\ \A n \in Node :
          IF n = Root THEN mesh.parent[n] = NoNode /\ mesh.level[n] = 1
          ELSE /\ mesh.parent[n] \in Node
               /\ mesh.level[n] = mesh.level[mesh.parent[n]] + 1

\* A path holds its node, and the path of the parent.
LEMMA PathFacts ==
    ASSUME MeshTree, NEW n \in Node
    PROVE  /\ n \in Path(n)
           /\ n = Root => Path(n) = {Root}
           /\ n # Root => Path(n) = Path(mesh.parent[n]) \cup {n}
           /\ \A a \in Path(n) : a \in Node /\ mesh.level[a] <= mesh.level[n]
<1> DEFINE Above(S) == \A b \in S \ {Root} : mesh.parent[b] \in S
<1>1. n \in Path(n)
  BY DEF Path
<1>2. ASSUME n = Root PROVE Path(n) = {Root}
  <2>1. Above({Root}) /\ {Root} \in SUBSET Node
    BY NodeManagerAssumption
  <2>2. Path(n) \subseteq {Root}
    BY <1>2, <2>1 DEF Path
  <2> QED
    BY <1>1, <1>2, <2>2
<1>3. ASSUME n # Root PROVE Path(n) = Path(mesh.parent[n]) \cup {n}
  <2> DEFINE p == mesh.parent[n]
  <2>1. p \in Node
    BY <1>3 DEF MeshTree
  <2> HIDE DEF p
  <2>2. Path(p) \subseteq Path(n)
    <3> SUFFICES ASSUME NEW a \in Path(p), NEW S \in SUBSET Node, n \in S, Above(S)
                 PROVE  a \in S
      BY DEF Path
    <3>1. p \in S
      BY <1>3 DEF p
    <3> QED
      BY <3>1 DEF Path
  <2>3. ASSUME NEW a \in Path(n), a # n PROVE a \in Path(p)
    <3> SUFFICES ASSUME NEW S \in SUBSET Node, p \in S, Above(S)
                 PROVE  a \in S
      BY <2>3 DEF Path
    <3>1. S \cup {n} \in SUBSET Node /\ n \in S \cup {n}
      OBVIOUS
    <3>2. Above(S \cup {n})
      BY DEF p
    <3>3. a \in S \cup {n}
      BY <2>3, <3>1, <3>2 DEF Path
    <3> QED
      BY <2>3, <3>3
  <2> QED
    BY <1>1, <1>3, <2>2, <2>3 DEF p
<1>4. \A a \in Path(n) : a \in Node /\ mesh.level[a] <= mesh.level[n]
  <2> DEFINE S == {b \in Node : mesh.level[b] <= mesh.level[n]}
  <2>1. n \in S /\ S \in SUBSET Node
    BY DEF MeshTree
  <2>2. \A b \in S \ {Root} : mesh.parent[b] \in S
    BY DEF MeshTree
  <2> HIDE DEF S
  <2>3. \A a \in Path(n) : a \in S
    BY <2>1, <2>2 DEF Path
  <2> QED
    BY <2>3 DEF S
<1> QED
  BY <1>1, <1>2, <1>3, <1>4

\* Only the root is at level 1.
LEMMA FirstLevel ==
    ASSUME MeshTree, NEW n \in Node
    PROVE  mesh.level[n] = 1 <=> n = Root
<1>1. n # Root => mesh.level[mesh.parent[n]] \in Nat \ {0}
  BY DEF MeshTree
<1> QED
  BY <1>1 DEF MeshTree

LEMMA InitMesh == Init => MeshTree
BY NodeManagerAssumption DEF Init, Mesh, MeshTree

\* A node that moves takes the nodes below it along, each as many levels up or
\* down as itself.
LEMMA MoveMesh ==
    ASSUME MeshTree, NEW n \in Node, Move(n)
    PROVE  MeshTree'
<1>1. PICK p \in Node \ {mesh.parent[n]} :
        /\ n \notin Path(p)
        /\ mesh' = [parent |-> [mesh.parent EXCEPT ![n] = p],
                    level |-> [k \in Node |->
                                 IF n \in Path(k)
                                 THEN mesh.level[k] + (mesh.level[p] + 1 - mesh.level[n])
                                 ELSE mesh.level[k]]]
  BY DEF Move
<1>2. n # Root
  BY DEF Move
<1> DEFINE down == mesh.level[p] + 1 - mesh.level[n]
<1>3. down \in Int /\ down + mesh.level[n] = mesh.level[p] + 1
      /\ mesh.level[p] \in Nat \ {0} /\ mesh.level[n] \in Nat \ {0}
  BY DEF MeshTree
<1>4. /\ mesh'.parent = [mesh.parent EXCEPT ![n] = p]
      /\ mesh'.level = [k \in Node |-> IF n \in Path(k) THEN mesh.level[k] + down
                                       ELSE mesh.level[k]]
  BY <1>1
<1> HIDE DEF down
<1>5. mesh'.parent \in [Node -> Node \cup {NoNode}]
  BY <1>4 DEF MeshTree
<1>6. ASSUME NEW k \in Node PROVE mesh'.level[k] \in Nat \ {0}
  <2>1. n \in Path(k) => mesh.level[n] <= mesh.level[k]
    BY PathFacts
  <2>2. mesh.level[k] \in Nat \ {0}
    BY DEF MeshTree
  <2> QED
    BY <1>3, <1>4, <2>1, <2>2
<1>7. ASSUME NEW k \in Node
      PROVE  IF k = Root THEN mesh'.parent[k] = NoNode /\ mesh'.level[k] = 1
             ELSE /\ mesh'.parent[k] \in Node
                  /\ mesh'.level[k] = mesh'.level[mesh'.parent[k]] + 1
  <2>1. CASE k = Root
    BY <1>2, <1>4, <2>1, PathFacts DEF MeshTree
  <2>2. CASE k = n
    <3>1. mesh'.parent[k] = p /\ n \in Path(n)
      BY <1>4, <2>2, PathFacts DEF MeshTree
    <3>2. mesh'.level[k] = mesh.level[n] + down /\ mesh'.level[p] = mesh.level[p]
      BY <1>1, <1>4, <2>2, <3>1
    <3> QED
      BY <1>2, <1>3, <2>2, <3>1, <3>2
  <2>3. CASE k # n /\ k # Root
    <3> DEFINE q == mesh.parent[k]
    <3>1. q \in Node /\ mesh.level[k] = mesh.level[q] + 1 /\ mesh.level[q] \in Nat
      BY <2>3 DEF MeshTree
    <3>2. mesh'.parent[k] = q
      BY <1>4, <2>3 DEF MeshTree
    <3>3. n \in Path(k) <=> n \in Path(q)
      BY <2>3, PathFacts
    <3> HIDE DEF q
    <3> QED
      BY <1>3, <1>4, <2>3, <3>1, <3>2, <3>3
  <2> QED
    BY <2>1, <2>2, <2>3
<1>8. mesh'.level \in [Node -> Nat \ {0}]
  <2>1. mesh'.level = [k \in Node |-> mesh'.level[k]]
    BY <1>4
  <2> QED
    BY <1>6, <2>1
<1> QED
  BY <1>5, <1>7, <1>8 DEF MeshTree

-----------------------------------------------------------------------------
(* The table and the tree last published.                                   *)

TableInv ==
    /\ rows \in [Slot -> [entry_tick : Nat,
                          level : Nat,
                          self_mac : Node \cup {NoNode},
                          parent_mac : Node \cup {NoNode},
                          json : {"null", "kept", "released"}]]
    /\ \A i \in Slot : Live(rows[i]) => rows[i].self_mac \in Node
    /\ task \in {"receive", "finish", "old", "undefined"}

\* A tree of earlier rounds ends the model with that tree in the table.
EndsOld == task \in {"old", "undefined"} => OldHung(rows) # {}

\* While the task receives, the tree of a table with a root is published.
Current == task = "receive" /\ RootSlots(rows) # {} => published = Tree(rows)

TaskInv == TableInv /\ EndsOld /\ Current

LEMMA InitTaskInv == Init => TaskInv
<1> SUFFICES ASSUME Init PROVE TaskInv
  OBVIOUS
<1>1. \A i \in Slot : rows[i] = FreeRow /\ ~Live(rows[i])
  BY DEF Init, FreeRow, Live
<1>2. TableInv
  BY <1>1, NodeManagerAssumption DEF Init, TableInv, FreeRow, NoLevel
<1>3. RootSlots(rows) = {}
  BY <1>1 DEF RootSlots
<1> QED
  BY <1>2, <1>3 DEF TaskInv, EndsOld, Current, Init

\* The table after a report, before it is sorted.
LEMMA RecordedTable ==
    ASSUME MeshTree, TableInv, now \in Nat, NEW n \in Node
    PROVE  /\ Swept(Recorded(n)) \in
                [Slot -> [entry_tick : Nat, level : Nat,
                          self_mac : Node \cup {NoNode},
                          parent_mac : Node \cup {NoNode},
                          json : {"null", "kept", "released"}]]
           /\ \A i \in Slot : Live(Swept(Recorded(n))[i]) =>
                 Swept(Recorded(n))[i].self_mac \in Node
<1> DEFINE R == [entry_tick : Nat, level : Nat, self_mac : Node \cup {NoNode},
                 parent_mac : Node \cup {NoNode}, json : {"null", "kept", "released"}]
<1>1. mesh.level[n] \in Nat /\ mesh.parent[n] \in Node \cup {NoNode}
  BY DEF MeshTree
<1>2. \A r \in R : Reported(r, n) \in R /\ Reported(r, n).self_mac = r.self_mac
  BY <1>1 DEF Reported
<1>3. Recorded(n) \in [Slot -> R]
  BY <1>2 DEF Recorded, TableInv
<1>4. \A i \in Slot : Live(Recorded(n)[i]) => Recorded(n)[i].self_mac \in Node
  BY <1>1, <1>2 DEF Recorded, TableInv, Holds, Reported
<1> DEFINE r == Recorded(n)
<1> HIDE DEF r
<1>5. Swept(r) \in [Slot -> R]
  <2>1. r \in [Slot -> R]
    BY <1>3 DEF r
  <2>2. \A x \in R, z, l \in Nat : [x EXCEPT !.entry_tick = z, !.level = l] \in R
    OBVIOUS
  <2>3. 0 \in Nat /\ NoLevel \in Nat
    BY DEF NoLevel
  <2> HIDE DEF R
  <2> QED
    BY <2>1, <2>2, <2>3 DEF Swept
<1>6. \A i \in Slot : Live(Swept(r)[i]) => Swept(r)[i].self_mac \in Node
  BY <1>3, <1>4 DEF Swept, Live, r
<1> QED
  BY <1>5, <1>6 DEF r

\* What the tree is does not depend on what the rows point to.
LEMMA ReleasedTree ==
    ASSUME NEW t, \A i \in Slot : t[i] \in [entry_tick : Nat, level : Nat,
                          self_mac : Node \cup {NoNode},
                          parent_mac : Node \cup {NoNode},
                          json : {"null", "kept", "released"}]
    PROVE  Tree(Released(t)) = Tree(t) /\ RootSlots(Released(t)) = RootSlots(t)
<1> DEFINE u == Released(t)
<1>1. \A i \in Slot : /\ u[i].entry_tick = t[i].entry_tick
                      /\ u[i].level = t[i].level
                      /\ u[i].self_mac = t[i].self_mac
                      /\ u[i].parent_mac = t[i].parent_mac
  BY DEF Released
<1> HIDE DEF u
<1>2. RootSlots(u) = RootSlots(t)
  BY <1>1 DEF RootSlots, Live
<1>3. \A k, i \in Slot : ChildOf(u, k, i) /\ MadeBefore(u, k, i)
                           <=> ChildOf(t, k, i) /\ MadeBefore(t, k, i)
  BY <1>1 DEF ChildOf, MadeBefore, Made, Live
<1>4. \A i \in Slot : Below(u, i) = Below(t, i)
  BY <1>3 DEF Below
<1>5. InTree(u) = InTree(t)
  BY <1>2, <1>4 DEF InTree
<1>6. Tree(u) = Tree(t)
  BY <1>1, <1>5 DEF Tree, InTree
<1> QED
  BY <1>2, <1>6 DEF u

LEMMA StepTaskInv ==
    MeshTree /\ now \in Nat /\ TaskInv /\ [Next]_vars => TaskInv'
<1> SUFFICES ASSUME MeshTree, now \in Nat, TaskInv, [Next]_vars PROVE TaskInv'
  OBVIOUS
<1> DEFINE R == [entry_tick : Nat, level : Nat, self_mac : Node \cup {NoNode},
                 parent_mac : Node \cup {NoNode}, json : {"null", "kept", "released"}]
<1>1. ASSUME NEW n \in Node, NodeReport(n) PROVE TaskInv'
  <2> DEFINE kept == Swept(Recorded(n))
  <2>1. PICK p \in Sorting(kept) :
          LET t == Rearranged(kept, p)
          IN  NoTree(t) \/ OldTree(t) \/ LongTree(t) \/ PublishTree(t)
    BY <1>1 DEF NodeReport
  <2>2. /\ kept \in [Slot -> R]
        /\ \A i \in Slot : Live(kept[i]) => kept[i].self_mac \in Node
    BY RecordedTable DEF TaskInv
  <2> DEFINE t == Rearranged(kept, p)
  <2>3. \A i \in Slot : p[i] \in Slot
    BY DEF Sorting, Shuffles
  <2> HIDE DEF kept
  <2>4. t \in [Slot -> R] /\ \A i \in Slot : Live(t[i]) => t[i].self_mac \in Node
    BY <2>2, <2>3 DEF Rearranged
  <2>5. task = "receive" /\ (NoTree(t) \/ OldTree(t) \/ LongTree(t) \/ PublishTree(t))
    BY <1>1, <2>1 DEF NodeReport
  <2> HIDE DEF t
  <2>6. CASE NoTree(t)
    BY <2>4, <2>5, <2>6 DEF NoTree, TaskInv, TableInv, EndsOld, Current
  <2>7. CASE OldTree(t)
    BY <2>4, <2>5, <2>7 DEF OldTree, TaskInv, TableInv, EndsOld, Current
  <2>8. CASE LongTree(t)
    BY <2>4, <2>5, <2>8 DEF LongTree, TaskInv, TableInv, EndsOld, Current
  <2>9. CASE PublishTree(t)
    <3>1. Released(t) \in [Slot -> R]
      BY <2>4 DEF Released
    <3>2. \A i \in Slot : Live(Released(t)[i]) => Released(t)[i].self_mac \in Node
      BY <2>4 DEF Released, Live
    <3>3. Tree(Released(t)) = Tree(t)
      BY <2>4, ReleasedTree
    <3>4. rows' = Released(t) /\ published' = Tree(t) /\ task' = "receive"
      BY <2>5, <2>9 DEF PublishTree
    <3>5. TableInv'
      BY <3>1, <3>2, <3>4 DEF TableInv
    <3>6. Current'
      BY <3>3, <3>4 DEF Current
    <3> QED
      BY <3>4, <3>5, <3>6 DEF TaskInv, EndsOld
  <2> QED
    BY <2>5, <2>6, <2>7, <2>8, <2>9
<1>2. CASE UNCHANGED <<rows, task, published>>
  BY <1>2 DEF TaskInv, TableInv, EndsOld, Current
<1>3. \A n \in Node : Move(n) => UNCHANGED <<rows, task, published>>
  BY DEF Move
<1>4. Elapse \/ UNCHANGED vars => UNCHANGED <<rows, task, published>>
  BY DEF Elapse, vars
<1> QED
  BY <1>1, <1>2, <1>3, <1>4 DEF Next

-----------------------------------------------------------------------------
(* The time and the mesh, whatever happens to the table.                    *)

WorldInv == MeshTree /\ now \in 1 .. MaxTime

LEMMA World == Init => WorldInv
BY InitMesh, NodeManagerAssumption DEF Init, WorldInv

LEMMA StepWorld == WorldInv /\ [Next]_vars => WorldInv'
<1> SUFFICES ASSUME WorldInv, [Next]_vars PROVE WorldInv'
  OBVIOUS
<1>1. ASSUME NEW n \in Node, Move(n) PROVE WorldInv'
  BY <1>1, MoveMesh DEF WorldInv, Move
<1>2. CASE Elapse
  BY <1>2, NodeManagerAssumption DEF Elapse, WorldInv, MeshTree
<1>3. CASE UNCHANGED <<mesh, now>>
  BY <1>3 DEF WorldInv, MeshTree
<1>4. \A n \in Node : NodeReport(n) => UNCHANGED <<mesh, now>>
  BY DEF NodeReport
<1> QED
  BY <1>1, <1>2, <1>3, <1>4 DEF Next, vars

\* The invariant of the task and of the tree it published.
ManagerInv == WorldInv /\ TaskInv

LEMMA Manager == Spec => []ManagerInv
<1>1. Init => ManagerInv
  BY World, InitTaskInv DEF ManagerInv
<1>2. WorldInv => now \in Nat
  BY NodeManagerAssumption DEF WorldInv
<1>3. ManagerInv /\ [Next]_vars => ManagerInv'
  BY <1>2, StepWorld, StepTaskInv DEF ManagerInv, WorldInv
<1> QED
  BY <1>1, <1>3, PTL DEF Spec

\* OldOnlyWhileMoving: when the table says what the mesh is, a row is one level
\* below the row of its parent and has its object of this round before the
\* parent's is made; so an object of an earlier round, kept or released, is hung
\* only in a round in which some node has moved and not reported since, or in a
\* mesh deeper than the tree.
THEOREM OldObjectsCorrect == Spec => []OldOnlyWhileMoving
<1>1. ManagerInv => OldOnlyWhileMoving
  <2> SUFFICES ASSUME MeshTree, TableInv, EndsOld, UpToDate, Shallow,
                      task \in {"old", "undefined"}
               PROVE  FALSE
    BY DEF ManagerInv, WorldInv, TaskInv, OldOnlyWhileMoving
  <2>1. PICK k \in Slot, i \in Slot :
           Made(rows, i) /\ ChildOf(rows, k, i) /\ ~MadeBefore(rows, k, i)
    BY DEF EndsOld, OldHung
  <2> DEFINE n == rows[k].self_mac
             p == rows[i].self_mac
  <2>2. Live(rows[k]) /\ Live(rows[i]) /\ rows[k].parent_mac = p
    BY <2>1 DEF ChildOf
  <2>3. n \in Node /\ p \in Node
    BY <2>2 DEF TableInv
  <2>4. mesh.parent[n] = p /\ rows[k].level = mesh.level[n] /\ rows[i].level = mesh.level[p]
    BY <2>2 DEF UpToDate
  <2>5. mesh.level[n] = mesh.level[p] + 1 /\ mesh.level[p] \in Nat
    BY <2>3, <2>4, NodeManagerAssumption DEF MeshTree
  <2>6. rows[k].level > rows[i].level
    BY <2>4, <2>5
  <2>7. Made(rows, k)
    BY <2>2 DEF Shallow
  <2> QED
    BY <2>1, <2>6, <2>7 DEF MadeBefore
<1> QED
  BY <1>1, Manager, PTL

-----------------------------------------------------------------------------
(* What tree is built.                                                      *)

\* The rows whose nodes are at the levels of the tree and hang, by rows that
\* hold their parents, below the root.
Reached ==
    {k \in Slot : /\ Live(rows[k]) /\ rows[k].level <= LEVELS
                  /\ \A a \in Path(rows[k].self_mac) : Known(rows, a)}

\* In a table that says what the mesh is the root's row is the root's object.
LEMMA RootRow ==
    ASSUME MeshTree, TableInv, UpToDate
    PROVE  \A i \in Slot : i \in RootSlots(rows) <=> Holds(rows[i], Root)
<1> SUFFICES ASSUME NEW i \in Slot, Live(rows[i])
             PROVE  rows[i].level = 1 <=> rows[i].self_mac = Root
  BY DEF RootSlots, Holds
<1>1. rows[i].self_mac \in Node /\ rows[i].level = mesh.level[rows[i].self_mac]
  BY DEF TableInv, UpToDate
<1> QED
  BY <1>1, FirstLevel

\* and the rows below a row are those of its children.
LEMMA ChildRows ==
    ASSUME MeshTree, TableInv, UpToDate, NEW k \in Slot, NEW i \in Slot,
           Live(rows[k]), Live(rows[i])
    PROVE  k \in Below(rows, i) <=>
             /\ rows[k].level <= LEVELS
             /\ rows[k].self_mac # Root
             /\ mesh.parent[rows[k].self_mac] = rows[i].self_mac
<1> DEFINE n == rows[k].self_mac
           p == rows[i].self_mac
<1>1. n \in Node /\ p \in Node
  BY DEF TableInv
<1>2. /\ rows[k].parent_mac = mesh.parent[n]
      /\ rows[k].level = mesh.level[n] /\ rows[i].level = mesh.level[p]
  BY DEF UpToDate
<1>3. mesh.parent[n] = p => n # Root /\ mesh.level[n] > mesh.level[p]
  BY <1>1, NodeManagerAssumption DEF MeshTree
<1> HIDE DEF n, p
<1>4. ChildOf(rows, k, i) <=> mesh.parent[n] = p
  BY <1>2 DEF ChildOf, p
<1> QED
  BY <1>2, <1>3, <1>4 DEF Below, MadeBefore, Made, n, p

LEMMA TreeIsReached ==
    ASSUME MeshTree, TableInv, UpToDate, Known(rows, Root)
    PROVE  InTree(rows) = Reached
<1> DEFINE Closed(S) == /\ RootSlots(rows) \subseteq S
                        /\ \A i \in S : Below(rows, i) \subseteq S
<1>1. InTree(rows) = {k \in Slot : \A S \in SUBSET Slot : Closed(S) => k \in S}
  BY DEF InTree
<1>2. Reached \in SUBSET Slot
  BY DEF Reached
<1>3. Closed(Reached)
  <2>1. ASSUME NEW i \in RootSlots(rows) PROVE i \in Reached
    <3>1. i \in Slot /\ Live(rows[i]) /\ rows[i].self_mac = Root /\ rows[i].level = 1
      BY RootRow DEF RootSlots, Holds
    <3>2. Path(Root) = {Root}
      BY PathFacts, NodeManagerAssumption
    <3> QED
      BY <3>1, <3>2, NodeManagerAssumption DEF Reached
  <2>2. ASSUME NEW i \in Reached, NEW k \in Below(rows, i) PROVE k \in Reached
    <3>1. i \in Slot /\ k \in Slot /\ Live(rows[i]) /\ Live(rows[k])
      BY DEF Reached, Below, ChildOf
    <3>2. /\ rows[k].level <= LEVELS /\ rows[k].self_mac # Root
          /\ mesh.parent[rows[k].self_mac] = rows[i].self_mac
      BY <3>1, ChildRows
    <3>3. rows[k].self_mac \in Node
      BY <3>1 DEF TableInv
    <3>4. Path(rows[k].self_mac) = Path(rows[i].self_mac) \cup {rows[k].self_mac}
      BY <3>2, <3>3, PathFacts
    <3>5. Known(rows, rows[k].self_mac)
      BY <3>1 DEF Known, Holds
    <3> QED
      BY <3>1, <3>2, <3>4, <3>5 DEF Reached
  <2> QED
    BY <2>1, <2>2
\* The other way: a row that is reached and not in some closed set, of the
\* least level there is, has the row of its parent in it.
<1>4. ASSUME NEW C \in SUBSET Slot, Closed(C) PROVE Reached \subseteq C
  <2> DEFINE V == {rows[k].level : k \in Reached \ C}
  <2> SUFFICES ASSUME Reached \ C # {} PROVE FALSE
    OBVIOUS
  <2>1. V \in SUBSET Nat /\ V # {}
    BY DEF Reached, TableInv
  <2>2. PICK v \in V : \A w \in V : v <= w
    BY <2>1, LeastNatural
  <2>3. PICK k \in Reached \ C : rows[k].level = v
    BY <2>2
  <2>4. \A j \in Reached \ C : rows[k].level <= rows[j].level
    BY <2>2, <2>3
  <2> DEFINE n == rows[k].self_mac
             p == mesh.parent[n]
  <2>5. /\ k \in Slot /\ Live(rows[k]) /\ n \in Node
        /\ rows[k].level <= LEVELS /\ rows[k].level = mesh.level[n]
        /\ \A a \in Path(n) : Known(rows, a)
    BY <2>3 DEF Reached, TableInv, UpToDate
  <2>6. n # Root
    <3>1. k \notin RootSlots(rows)
      BY <1>4, <2>3
    <3> QED
      BY <2>5, <3>1, RootRow DEF Holds
  <2>7. p \in Node /\ mesh.level[n] = mesh.level[p] + 1 /\ mesh.level[p] \in Nat
    BY <2>5, <2>6 DEF MeshTree
  <2>8. Path(n) = Path(p) \cup {n} /\ p \in Path(p)
    BY <2>5, <2>6, <2>7, PathFacts
  <2>9. PICK i \in Slot : Live(rows[i]) /\ rows[i].self_mac = p
    BY <2>5, <2>8 DEF Known, Holds
  <2>10. rows[i].level = mesh.level[p]
    BY <2>9 DEF UpToDate
  <2>11. rows[i].level <= LEVELS /\ rows[i].level < rows[k].level
    BY <2>5, <2>7, <2>10, NodeManagerAssumption
  <2>12. i \in Reached
    BY <2>5, <2>8, <2>9, <2>11 DEF Reached
  <2>13. i \in C
    <3> SUFFICES ASSUME i \notin C PROVE FALSE
      OBVIOUS
    <3>1. rows[k].level <= rows[i].level
      BY <2>4, <2>12
    <3>2. rows[k].level \in Nat /\ rows[i].level \in Nat
      BY <2>5, <2>7, <2>10
    <3> HIDE DEF V, n, p
    <3> QED
      BY <2>11, <3>1, <3>2
  <2>14. k \in Below(rows, i)
    BY <2>5, <2>6, <2>9, ChildRows
  <2> QED
    BY <1>4, <2>3, <2>13, <2>14
<1> HIDE DEF Closed
<1> QED
  BY <1>1, <1>2, <1>3, <1>4

\* TreeExact: once every node in the table has its place of the mesh there, the
\* published tree is the mesh down to LEVELS, without the nodes that are silent
\* or below a silent one, in every order of the rows that the sort may leave.
THEOREM TreeCorrect == Spec => []TreeExact
<1>1. ManagerInv => TreeExact
  <2> DEFINE Served == {k \in Node : /\ mesh.level[k] <= LEVELS
                                     /\ \A a \in Path(k) : Known(rows, a)}
  <2> SUFFICES ASSUME MeshTree, TableInv, Current, task = "receive", UpToDate,
                      Known(rows, Root)
               PROVE  published = {<<n, mesh.parent[n]>> : n \in Served}
    BY DEF ManagerInv, WorldInv, TaskInv, TreeExact
  <2>1. RootSlots(rows) # {}
    BY RootRow DEF Known
  <2>2. published = {<<rows[k].self_mac, rows[k].parent_mac>> : k \in Reached}
    BY <2>1, TreeIsReached DEF Current, Tree
  <2>3. ASSUME NEW k \in Reached
        PROVE  /\ rows[k].self_mac \in Served
               /\ rows[k].parent_mac = mesh.parent[rows[k].self_mac]
    BY DEF Reached, TableInv, UpToDate
  <2>4. ASSUME NEW n \in Served
        PROVE  \E k \in Reached : /\ rows[k].self_mac = n
                                  /\ rows[k].parent_mac = mesh.parent[n]
    <3>1. n \in Path(n)
      BY PathFacts
    <3>2. PICK k \in Slot : Live(rows[k]) /\ rows[k].self_mac = n
      BY <3>1 DEF Known, Holds
    <3> QED
      BY <3>2 DEF Reached, UpToDate
  <2> HIDE DEF Served
  <2> QED
    BY <2>2, <2>3, <2>4
<1> QED
  BY <1>1, Manager, PTL

-----------------------------------------------------------------------------
(* The table is a Registry.                                                 *)

\* No node has two rows, and no row comes from the future.
RowsInv ==
    /\ Unique(rows)
    /\ \A i \in Slot : Live(rows[i]) => rows[i].entry_tick \in 1 .. now

\* What a report makes of a row.
LEMMA RecordedRows ==
    ASSUME TableInv, WorldInv, NEW n \in Node, NEW i \in Slot
    PROVE  IF Holds(rows[i], n) \/ (~Known(rows, n) /\ FirstFree(rows, i))
           THEN /\ Recorded(n)[i].self_mac = n
                /\ Recorded(n)[i].level = mesh.level[n]
                /\ Recorded(n)[i].entry_tick = now
           ELSE Recorded(n)[i] = rows[i]
<1>1. Holds(rows[i], n) => Known(rows, n) /\ rows[i].self_mac = n
  BY DEF Known, Holds
<1> QED
  BY <1>1 DEF Recorded, Reported, TableInv

\* The report of a node enters it, and drops the silent ones: the table before
\* the tree is built.
LEMMA ReportEntries ==
    ASSUME TableInv, WorldInv, RowsInv, NEW n \in Node,
           NEW p \in Sorting(Swept(Recorded(n)))
    PROVE  LET t == Rearranged(Swept(Recorded(n)), p)
           IN  /\ Unique(t)
               /\ \A i \in Slot : Live(t[i]) => t[i].entry_tick \in 1 .. now
               /\ Entries(t) =
                    {e \in IF Known(rows, n) \/ FreeSlots(rows) # {}
                           THEN {e \in Entries(rows) : e.name # n}
                                  \cup {[name |-> n, level |-> mesh.level[n],
                                         at |-> now]}
                           ELSE Entries(rows) : now - e.at <= EXPIRE}
<1> DEFINE r == Recorded(n)
           s == Swept(Recorded(n))
           t == Rearranged(s, p)
<1>0. Unique(rows)
  BY DEF RowsInv
<1>1. now \in Nat /\ now # 0 /\ now < TICKS
  BY NodeManagerAssumption, NodeTableAssumption DEF WorldInv
<1>2. PICK lev : lev = mesh.level[n]
  OBVIOUS
<1>3. PICK tick \in Nat : tick = now /\ tick # 0 /\ tick < TICKS
  BY <1>1
<1>4. \A i \in Slot :
         IF Holds(rows[i], n) \/ (~Known(rows, n) /\ FirstFree(rows, i))
         THEN r[i].self_mac = n /\ r[i].level = lev /\ r[i].entry_tick = tick
         ELSE r[i] = rows[i]
  BY <1>2, <1>3, RecordedRows
<1>5. Unique(r)
  <2> DEFINE Here(i) == Holds(rows[i], n) \/ (~Known(rows, n) /\ FirstFree(rows, i))
  <2>1. \A i, j \in Slot : Here(i) /\ Here(j) => i = j
    BY FirstFreeUnique DEF RowsInv, Unique, Holds, Known
  <2>2. \A i \in Slot : Here(i) \/ ~Holds(rows[i], n)
    OBVIOUS
  <2>3. \A i \in Slot : IF Here(i) THEN r[i].self_mac = n ELSE r[i] = rows[i]
    BY <1>4
  <2> HIDE DEF Here, r
  <2> QED
    BY <2>1, <2>2, <2>3 DEF RowsInv, Unique, Holds
<1>6. \A i \in Slot : Live(r[i]) => r[i].entry_tick \in 1 .. tick
  BY <1>3, <1>4 DEF RowsInv
<1>7. \A i \in Slot : /\ Gone(r[i], tick) => ~Live(s[i])
                      /\ ~Gone(r[i], tick) => s[i] = r[i]
  <2>1. \A i \in Slot : Gone(r[i], tick) => s[i].entry_tick = 0
    <3>1. Recorded(n) \in [Slot -> [entry_tick : Nat, level : Nat,
             self_mac : Node \cup {NoNode}, parent_mac : Node \cup {NoNode},
             json : {"null", "kept", "released"}]]
      <4>1. mesh.level[n] \in Nat /\ mesh.parent[n] \in Node \cup {NoNode} /\ now \in Nat
        BY <1>1 DEF WorldInv, MeshTree
      <4> QED
        BY <4>1, ZenonT(30) DEF Recorded, Reported, TableInv
    <3> QED
      BY <1>3, <3>1 DEF Swept
  <2> QED
    BY <1>3, <2>1 DEF Swept, Live
<1> HIDE DEF r, s
<1>8. Entries(r) = IF Known(rows, n) \/ FreeSlots(rows) # {}
                   THEN {e \in Entries(rows) : e.name # n}
                          \cup {[name |-> n, level |-> lev, at |-> tick]}
                   ELSE Entries(rows)
  BY <1>0, <1>3, <1>4, RecordedEntries, SMTT(30)
<1>9. Entries(s) = {e \in Entries(r) : tick - e.at <= EXPIRE}
  <2>1. \A i \in Slot : Live(r[i]) => r[i].entry_tick \in 0 .. tick
                                     /\ tick - r[i].entry_tick < TICKS
    BY <1>3, <1>6, NodeTableAssumption
  <2> QED
    BY <1>3, <1>7, <2>1, SweptEntries
<1>10. \A i \in Slot : Live(s[i]) => s[i] = r[i] /\ Live(r[i])
  BY <1>7
<1>11. Unique(s)
  BY <1>5, <1>10 DEF Unique, Holds
<1>12. p \in Shuffles
  BY DEF Sorting
<1>13. \A i \in Slot : p[i] \in Slot /\ t[i] = s[p[i]]
  BY <1>12 DEF Shuffles, Rearranged
<1>14. Entries(t) = Entries(s)
  BY <1>12, SortedEntries
<1> HIDE DEF t
<1>15. Unique(t)
  <2>1. \A i, j \in Slot : p[i] = p[j] => i = j
    BY <1>12 DEF Shuffles
  <2> QED
    BY <1>11, <1>13, <2>1 DEF Unique
<1>16. \A i \in Slot : Live(t[i]) => t[i].entry_tick \in 1 .. now
  BY <1>3, <1>6, <1>10, <1>13
<1> QED
  BY <1>2, <1>3, <1>8, <1>9, <1>14, <1>15, <1>16 DEF t, s

\* Building the tree, or not, leaves the entries.
LEMMA BuiltRows ==
    ASSUME NEW t, t \in [Slot -> [entry_tick : Nat, level : Nat,
                          self_mac : Node \cup {NoNode},
                          parent_mac : Node \cup {NoNode},
                          json : {"null", "kept", "released"}]],
           NoTree(t) \/ OldTree(t) \/ LongTree(t) \/ PublishTree(t)
    PROVE  /\ \A i \in Slot : /\ rows'[i].entry_tick = t[i].entry_tick
                              /\ rows'[i].level = t[i].level
                              /\ rows'[i].self_mac = t[i].self_mac
           /\ Entries(rows') = Entries(t)
           /\ Unique(t) => Unique(rows')
<1>1. \A i \in Slot : /\ Released(t)[i].entry_tick = t[i].entry_tick
                      /\ Released(t)[i].level = t[i].level
                      /\ Released(t)[i].self_mac = t[i].self_mac
  BY DEF Released
<1>2. rows' = t \/ rows' = Released(t)
  BY DEF NoTree, OldTree, LongTree, PublishTree
<1>3. \A i \in Slot : /\ rows'[i].entry_tick = t[i].entry_tick
                      /\ rows'[i].level = t[i].level
                      /\ rows'[i].self_mac = t[i].self_mac
  BY <1>1, <1>2
<1>4. \A i \in Slot : /\ Live(rows'[i]) <=> Live(t[i])
                      /\ EntryOf(rows'[i]) = EntryOf(t[i])
                      /\ rows'[i].self_mac = t[i].self_mac
  BY <1>3 DEF Live, EntryOf
<1>5. Entries(rows') = Entries(t)
  BY <1>4 DEF Entries, LiveSlots
<1>6. Unique(t) => Unique(rows')
  BY <1>4 DEF Unique, Holds
<1> QED
  BY <1>3, <1>5, <1>6

\* What a report does to the entries.
LEMMA NodeReportEntries ==
    ASSUME WorldInv, TableInv, RowsInv, NEW n \in Node, NodeReport(n)
    PROVE  /\ RowsInv'
           /\ Entries(rows') =
                {e \in IF Known(rows, n) \/ FreeSlots(rows) # {}
                       THEN {e \in Entries(rows) : e.name # n}
                              \cup {[name |-> n, level |-> mesh.level[n],
                                     at |-> now]}
                       ELSE Entries(rows) : now - e.at <= EXPIRE}
<1> DEFINE R == [entry_tick : Nat, level : Nat, self_mac : Node \cup {NoNode},
                 parent_mac : Node \cup {NoNode}, json : {"null", "kept", "released"}]
           kept == Swept(Recorded(n))
<1>1. PICK p \in Sorting(kept) :
        LET t == Rearranged(kept, p)
        IN  NoTree(t) \/ OldTree(t) \/ LongTree(t) \/ PublishTree(t)
  BY DEF NodeReport
<1>2. now \in Nat /\ MeshTree
  BY NodeManagerAssumption DEF WorldInv
<1>3. kept \in [Slot -> R]
  BY <1>2, RecordedTable
<1> DEFINE t == Rearranged(kept, p)
<1>4. /\ Unique(t)
      /\ \A i \in Slot : Live(t[i]) => t[i].entry_tick \in 1 .. now
      /\ Entries(t) =
           {e \in IF Known(rows, n) \/ FreeSlots(rows) # {}
                  THEN {e \in Entries(rows) : e.name # n}
                         \cup {[name |-> n, level |-> mesh.level[n], at |-> now]}
                  ELSE Entries(rows) : now - e.at <= EXPIRE}
  BY ReportEntries
<1> HIDE DEF kept
<1>5. \A i \in Slot : p[i] \in Slot
  BY DEF Sorting, Shuffles
<1>6. t \in [Slot -> R]
  BY <1>3, <1>5 DEF Rearranged
<1>7. NoTree(t) \/ OldTree(t) \/ LongTree(t) \/ PublishTree(t)
  BY <1>1
<1> HIDE DEF t
<1>8. /\ \A i \in Slot : rows'[i].entry_tick = t[i].entry_tick
      /\ Entries(rows') = Entries(t)
      /\ Unique(rows')
  BY <1>4, <1>6, <1>7, BuiltRows
<1>9. now' = now
  BY DEF NodeReport
<1>10. RowsInv'
  BY <1>4, <1>8, <1>9 DEF RowsInv, Live
<1> QED
  BY <1>4, <1>8, <1>10

RegistryInv == ManagerInv /\ RowsInv

LEMMA StepRows == ManagerInv /\ RowsInv /\ [Next]_vars => RowsInv'
<1> SUFFICES ASSUME ManagerInv, RowsInv, [Next]_vars PROVE RowsInv'
  OBVIOUS
<1>1. ASSUME NEW n \in Node, NodeReport(n) PROVE RowsInv'
  BY <1>1, NodeReportEntries DEF ManagerInv, TaskInv
<1>2. CASE rows' = rows /\ now' \in {now, now + 1}
  <2>1. now \in Nat
    BY NodeManagerAssumption DEF ManagerInv, WorldInv
  <2> QED
    BY <1>2, <2>1 DEF RowsInv, Unique
<1>3. \A n \in Node : Move(n) => rows' = rows /\ now' = now
  BY DEF Move
<1>4. Elapse \/ UNCHANGED vars => rows' = rows /\ now' \in {now, now + 1}
  BY DEF Elapse, vars
<1> QED
  BY <1>1, <1>2, <1>3, <1>4 DEF Next

LEMMA RegistryInvariant == Spec => []RegistryInv
<1>1. Init => RowsInv
  <2> SUFFICES ASSUME Init PROVE RowsInv
    OBVIOUS
  <2>1. \A i \in Slot : ~Live(rows[i])
    BY DEF Init, FreeRow, Live
  <2> QED
    BY <2>1 DEF RowsInv, Unique
<1> QED
  BY <1>1, Manager, StepRows, PTL DEF Spec, RegistryInv

\* The refinement mapping in the words of the lemmas.
LEMMA Mapping ==
    /\ {[name |-> rows[i].self_mac, level |-> rows[i].level,
         at |-> rows[i].entry_tick] : i \in {j \in Slot : Live(rows[j])}}
          = Entries(rows)
    /\ {i \in Slot : ~Live(rows[i])} = FreeSlots(rows)
BY DEF Entries, EntryOf, LiveSlots, FreeSlots

\* A report is a report to the Registry.
LEMMA NodeReportListing ==
    ASSUME ManagerInv, RowsInv, RowsInv', NEW n \in Node, NodeReport(n)
    PROVE  Listing!Report(n)
<1>1. Entries(rows') =
        {e \in IF Known(rows, n) \/ FreeSlots(rows) # {}
               THEN {e \in Entries(rows) : e.name # n}
                      \cup {[name |-> n, level |-> mesh.level[n], at |-> now]}
               ELSE Entries(rows) : now - e.at <= EXPIRE}
  BY NodeReportEntries DEF ManagerInv, TaskInv
<1>2. Unique(rows')
  BY DEF RowsInv
<1>3. Cardinality(FreeSlots(rows')) = NODE_SIZE - Cardinality(Entries(rows'))
  BY <1>2, RoomIsRest
<1>4. Listing!Cardinality(Entries(rows')) = Cardinality(Entries(rows'))
  BY DEF Listing!Cardinality, Cardinality
<1>5. /\ {[name |-> rows'[i].self_mac, level |-> rows'[i].level,
           at |-> rows'[i].entry_tick] : i \in {j \in Slot : Live(rows'[j])}}
            = Entries(rows')
      /\ {i \in Slot : ~Live(rows'[i])} = FreeSlots(rows')
  BY DEF Entries, EntryOf, LiveSlots, FreeSlots
<1>6. Listing!IsListed(n) <=> Known(rows, n)
  BY KnownEntry, Mapping DEF Listing!IsListed
<1>7. FreeSlots(rows) # {} <=> Cardinality(FreeSlots(rows)) > 0
  BY RoomIsFree DEF FreeSlots
<1>8. mesh.level[n] # 0 /\ now' = now
  BY DEF ManagerInv, WorldInv, MeshTree, NodeReport
<1> QED
  BY <1>1, <1>3, <1>4, <1>5, <1>6, <1>7, <1>8, Mapping
  DEF Listing!Report, Listing!Kept

\* ImplementsRegistry: for every number of rows and nodes the table below the
\* tree is the same Registry as that of mesh_http_server, whatever the mesh does
\* and whether a round publishes its tree or not.
THEOREM RegistryCorrect == Spec => ImplementsRegistry
<1>1. Init => Listing!Init
  <2> SUFFICES ASSUME Init PROVE Listing!Init
    OBVIOUS
  <2>1. \A i \in Slot : ~Live(rows[i])
    BY DEF Init, FreeRow, Live
  <2>2. Entries(rows) = {}
    BY <2>1 DEF Entries, LiveSlots
  <2>3. Unique(rows)
    BY <2>1 DEF Unique
  <2>4. Cardinality(FreeSlots(rows)) = NODE_SIZE
    BY <2>2, <2>3, RoomIsRest, FS_EmptySet, NodeTableAssumption
  <2> QED
    BY <2>2, <2>4, Mapping DEF Init, Listing!Init
<1>2. RegistryInv /\ RegistryInv' /\ [Next]_vars => [Listing!Next]_(Listing!vars)
  <2> SUFFICES ASSUME ManagerInv, RowsInv, RowsInv', [Next]_vars
               PROVE  [Listing!Next]_(Listing!vars)
    BY DEF RegistryInv
  <2>1. ASSUME NEW n \in Node, NodeReport(n) PROVE Listing!Next
    BY <2>1, NodeReportListing DEF Listing!Next
  <2>2. ASSUME NEW n \in Node, Move(n) PROVE Listing!Next
    BY <2>2 DEF Move, Listing!Next, Listing!NewOffer
  <2>3. CASE Elapse
    BY <2>3 DEF Elapse, Listing!Next, Listing!Elapse
  <2>4. CASE UNCHANGED vars
    BY <2>4 DEF vars, Listing!vars
  <2> QED
    BY <2>1, <2>2, <2>3, <2>4 DEF Next
<1> QED
  BY <1>1, <1>2, RegistryInvariant, PTL
  DEF Spec, ImplementsRegistry, Listing!Spec
=============================================================================
