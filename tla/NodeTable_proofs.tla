-------------------------- MODULE NodeTable_proofs --------------------------
(***************************************************************************)
(* Facts about the node table that the proofs of HttpNodeServer and of     *)
(* NodeManager share: its least free row, its entries as Registry sees     *)
(* them, and how many of them fit.                                         *)
(***************************************************************************)
EXTENDS NodeTable, FiniteSetTheorems, TLAPS

\* Every nonempty set of natural numbers has a least element.  The proofs by
\* induction cite it: they look at the least counterexample.
LEMMA LeastNatural ==
    ASSUME NEW S \in SUBSET Nat, S # {}
    PROVE  \E n \in S : \A m \in S : n <= m
<1>1. IsWellFoundedOn(OpToRel(<, Nat), Nat)
  BY NatLessThanWellFounded, Zenon
<1>2. PICK n \in S : \A m \in S : ~(<<m, n>> \in OpToRel(<, Nat))
  BY <1>1, WFMin, Zenon
<1>3. \A m \in S : n <= m
  <2> SUFFICES ASSUME NEW m \in S PROVE n <= m
    OBVIOUS
  <2>1. <<m, n>> \in Nat \X Nat /\ ~(m < n)
    BY <1>2 DEF OpToRel
  <2> QED
    BY <2>1
<1> QED
  BY <1>2, <1>3

-----------------------------------------------------------------------------
\* No node has two live rows.
Unique(t) == \A i, j \in Slot : Live(t[i]) /\ Holds(t[j], t[i].self_mac) => i = j

LiveSlots(t) == {i \in Slot : Live(t[i])}

FreeSlots(t) == {i \in Slot : ~Live(t[i])}

\* The live rows as Registry lists them.
EntryOf(row) == [name |-> row.self_mac, level |-> row.level, at |-> row.entry_tick]

Entries(t) == {EntryOf(t[i]) : i \in LiveSlots(t)}

\* A node is known if it has an entry.
LEMMA KnownEntry ==
    ASSUME NEW t, NEW n
    PROVE  Known(t, n) <=> \E e \in Entries(t) : e.name = n
<1>1. ASSUME NEW i \in Slot, Holds(t[i], n)
      PROVE  EntryOf(t[i]) \in Entries(t) /\ EntryOf(t[i]).name = n
  BY <1>1 DEF Holds, Entries, EntryOf, LiveSlots
<1>2. ASSUME NEW e \in Entries(t), e.name = n
      PROVE  \E i \in Slot : Holds(t[i], n)
  <2>1. PICK i \in Slot : Live(t[i]) /\ e = EntryOf(t[i])
    BY DEF Entries, LiveSlots
  <2> QED
    BY <1>2, <2>1 DEF EntryOf, Holds
<1> QED
  BY <1>1, <1>2 DEF Known

\* A table that is not full has a first free row.
LEMMA FirstFreeExists ==
    ASSUME NEW t, NEW k \in Slot, ~Live(t[k])
    PROVE  \E i \in Slot : FirstFree(t, i)
<1>1. FreeSlots(t) \in SUBSET Nat /\ FreeSlots(t) # {}
  BY NodeTableAssumption DEF FreeSlots, Slot
<1>2. PICK i \in FreeSlots(t) : \A j \in FreeSlots(t) : i <= j
  BY <1>1, LeastNatural
<1>3. i \in Slot /\ ~Live(t[i])
  BY <1>2 DEF FreeSlots
<1>4. \A j \in Slot : j < i => Live(t[j])
  <2> SUFFICES ASSUME NEW j \in Slot, j < i, ~Live(t[j]) PROVE FALSE
    OBVIOUS
  <2>1. i <= j
    BY <1>2 DEF FreeSlots
  <2> QED
    BY <1>3, <2>1, NodeTableAssumption DEF Slot
<1> QED
  BY <1>3, <1>4 DEF FirstFree

\* There is at most one first free row.
LEMMA FirstFreeUnique ==
    ASSUME NEW t, NEW i \in Slot, NEW j \in Slot, FirstFree(t, i), FirstFree(t, j)
    PROVE  i = j
BY NodeTableAssumption DEF FirstFree, Slot

\* There are NODE_SIZE rows; the free ones and the live ones are finitely many
\* and make up the table.
LEMMA Rows ==
    ASSUME NEW t
    PROVE  /\ IsFiniteSet(FreeSlots(t)) /\ Cardinality(FreeSlots(t)) \in Nat
           /\ IsFiniteSet(LiveSlots(t)) /\ Cardinality(LiveSlots(t)) \in Nat
           /\ Cardinality(FreeSlots(t)) + Cardinality(LiveSlots(t)) = NODE_SIZE
<1>1. IsFiniteSet(Slot) /\ Cardinality(Slot) = NODE_SIZE
  <2>1. 1 \in Int /\ NODE_SIZE \in Int /\ ~(1 > NODE_SIZE) /\ NODE_SIZE - 1 + 1 = NODE_SIZE
    BY NodeTableAssumption
  <2> QED
    BY <2>1, FS_Interval DEF Slot
<1>2. /\ FreeSlots(t) \in SUBSET Slot /\ LiveSlots(t) \in SUBSET Slot
      /\ FreeSlots(t) \cup LiveSlots(t) = Slot
      /\ FreeSlots(t) \cap LiveSlots(t) = {}
  BY DEF FreeSlots, LiveSlots
<1>3. IsFiniteSet(FreeSlots(t)) /\ IsFiniteSet(LiveSlots(t))
  BY <1>1, <1>2, FS_Subset
<1>4. Cardinality(FreeSlots(t)) \in Nat /\ Cardinality(LiveSlots(t)) \in Nat
  BY <1>3, FS_CardinalityType
<1>5. Cardinality(FreeSlots(t) \cap LiveSlots(t)) = 0
  BY <1>2, FS_EmptySet
<1>6. NODE_SIZE = Cardinality(FreeSlots(t)) + Cardinality(LiveSlots(t)) - 0
  BY <1>1, <1>2, <1>3, <1>5, FS_Union
<1> QED
  BY <1>3, <1>4, <1>6

\* There is room exactly when some row is free.
LEMMA RoomIsFree ==
    ASSUME NEW t
    PROVE  Cardinality(FreeSlots(t)) > 0 <=> \E i \in Slot : ~Live(t[i])
<1>1. IsFiniteSet(FreeSlots(t)) /\ Cardinality(FreeSlots(t)) \in Nat
  BY Rows
<1>2. Cardinality(FreeSlots(t)) = 0 <=> FreeSlots(t) = {}
  BY <1>1, FS_EmptySet
<1> QED
  BY <1>1, <1>2 DEF FreeSlots

\* When no node has two rows, there are as many entries as live rows, and the
\* others are room.
LEMMA RoomIsRest ==
    ASSUME NEW t, Unique(t)
    PROVE  Cardinality(FreeSlots(t)) = NODE_SIZE - Cardinality(Entries(t))
<1> DEFINE L == LiveSlots(t)
           F == [i \in L |-> EntryOf(t[i])]
<1>1. F \in [L -> Entries(t)]
  BY DEF Entries
<1>2. \A e \in Entries(t) : \E i \in L : F[i] = e
  BY DEF Entries
<1>3. \A i, j \in L : F[i] = F[j] => i = j
  BY DEF Unique, LiveSlots, EntryOf, Holds
<1> HIDE DEF F, L
<1>4. F \in Surjection(L, Entries(t))
  BY <1>1, <1>2 DEF Surjection
<1>5. F \in Injection(L, Entries(t))
  BY <1>1, <1>3 DEF Injection, IsInjective
<1>6. IsFiniteSet(L)
  BY Rows DEF L
<1>7. Cardinality(Entries(t)) = Cardinality(L)
  BY <1>4, <1>5, <1>6, FS_Surjection, Zenon
<1> QED
  BY <1>7, Rows, NodeTableAssumption DEF L

\* A report refreshes the row of its node, or takes the first free row, or, in
\* a full table, changes nothing.
LEMMA RecordedEntries ==
    ASSUME NEW t, NEW r, NEW n, NEW lev, NEW tick, tick # 0, Unique(t),
           \A i \in Slot :
              IF Holds(t[i], n) \/ (~Known(t, n) /\ FirstFree(t, i))
              THEN r[i].self_mac = n /\ r[i].level = lev /\ r[i].entry_tick = tick
              ELSE r[i] = t[i]
    PROVE  Entries(r) =
             IF Known(t, n) \/ FreeSlots(t) # {}
             THEN {e \in Entries(t) : e.name # n}
                    \cup {[name |-> n, level |-> lev, at |-> tick]}
             ELSE Entries(t)
<1> DEFINE Here(i) == Holds(t[i], n) \/ (~Known(t, n) /\ FirstFree(t, i))
           fresh == [name |-> n, level |-> lev, at |-> tick]
<1>1. \A i \in Slot : Here(i) => Live(r[i]) /\ EntryOf(r[i]) = fresh
  BY DEF Live, EntryOf
<1>2. \A i \in Slot : ~Here(i) => r[i] = t[i]
  OBVIOUS
<1>3. CASE Known(t, n) \/ FreeSlots(t) # {}
  <2>1. \E i \in Slot : Here(i)
    BY <1>3, FirstFreeExists DEF Known, FreeSlots
  <2>2. fresh \in Entries(r)
    BY <1>1, <2>1 DEF Entries, LiveSlots
  <2>3. ASSUME NEW e \in Entries(t), e.name # n PROVE e \in Entries(r)
    <3>1. PICK i \in Slot : Live(t[i]) /\ e = EntryOf(t[i])
      BY DEF Entries, LiveSlots
    <3>2. ~Here(i)
      BY <2>3, <3>1 DEF Holds, FirstFree, EntryOf
    <3>3. r[i] = t[i]
      BY <1>2, <3>2
    <3> QED
      BY <3>1, <3>3 DEF Entries, LiveSlots
  <2>4. ASSUME NEW e \in Entries(r)
        PROVE  e = fresh \/ (e \in Entries(t) /\ e.name # n)
    <3>1. PICK i \in Slot : Live(r[i]) /\ e = EntryOf(r[i])
      BY DEF Entries, LiveSlots
    <3>2. CASE Here(i)
      BY <1>1, <3>1, <3>2
    <3>3. CASE ~Here(i)
      <4>1. Live(t[i]) /\ e = EntryOf(t[i]) /\ ~Holds(t[i], n)
        BY <1>2, <3>1, <3>3
      <4>2. e.name # n
        BY <4>1 DEF EntryOf, Holds
      <4> QED
        BY <4>1, <4>2 DEF Entries, LiveSlots
    <3> QED
      BY <3>2, <3>3
  <2> HIDE DEF fresh
  <2> QED
    BY <1>3, <2>2, <2>3, <2>4 DEF fresh
<1>4. CASE ~(Known(t, n) \/ FreeSlots(t) # {})
  <2>1. \A i \in Slot : ~Here(i)
    BY <1>4 DEF Known, FreeSlots, FirstFree
  <2>2. \A i \in Slot : r[i] = t[i]
    BY <1>2, <2>1
  <2>3. Entries(r) = Entries(t)
    BY <2>2 DEF Entries, LiveSlots
  <2> QED
    BY <1>4, <2>3
<1> QED
  BY <1>3, <1>4

\* The sweep keeps the entries that are not too old, if none is a whole turn of
\* the tick counter old.
LEMMA SweptEntries ==
    ASSUME NEW t, NEW s, NEW tick \in Nat,
           \A i \in Slot : Live(t[i]) =>
              t[i].entry_tick \in 0 .. tick /\ tick - t[i].entry_tick < TICKS,
           \A i \in Slot : /\ Gone(t[i], tick) => ~Live(s[i])
                           /\ ~Gone(t[i], tick) => s[i] = t[i]
    PROVE  Entries(s) = {e \in Entries(t) : tick - e.at <= EXPIRE}
<1>1. \A i \in Slot : Live(t[i]) =>
         (Gone(t[i], tick) <=> ~(tick - t[i].entry_tick <= EXPIRE))
  <2> SUFFICES ASSUME NEW i \in Slot, Live(t[i])
               PROVE  Gone(t[i], tick) <=> ~(tick - t[i].entry_tick <= EXPIRE)
    OBVIOUS
  <2> DEFINE d == tick - t[i].entry_tick
  <2>1. d \in 0 .. TICKS - 1
    BY NodeTableAssumption
  <2>2. d % TICKS = d
    BY <2>1, NodeTableAssumption
  <2> QED
    BY <2>1, <2>2, NodeTableAssumption DEF Gone
<1>2. \A i \in Slot : ~Live(t[i]) => ~Live(s[i])
  BY DEF Gone
<1>3. \A i \in Slot : Live(s[i]) <=> Live(t[i]) /\ tick - t[i].entry_tick <= EXPIRE
  BY <1>1, <1>2
<1>4. \A i \in Slot : Live(s[i]) => s[i] = t[i]
  BY <1>1, <1>3
<1>5. Entries(s) \subseteq {e \in Entries(t) : tick - e.at <= EXPIRE}
  BY <1>3, <1>4 DEF Entries, LiveSlots, EntryOf
<1>6. {e \in Entries(t) : tick - e.at <= EXPIRE} \subseteq Entries(s)
  BY <1>3, <1>4 DEF Entries, LiveSlots, EntryOf
<1> QED
  BY <1>5, <1>6

\* The sort keeps all entries.
LEMMA SortedEntries ==
    ASSUME NEW t, NEW p \in Shuffles
    PROVE  Entries(Rearranged(t, p)) = Entries(t)
<1>1. /\ \A i \in Slot : p[i] \in Slot /\ Rearranged(t, p)[i] = t[p[i]]
      /\ \A k \in Slot : \E i \in Slot : p[i] = k
  BY DEF Rearranged, Shuffles
<1> QED
  BY <1>1 DEF Entries, LiveSlots
=============================================================================
