----------------------------- MODULE NodeTable -----------------------------
(***************************************************************************)
(* The node table that the root of mesh_http_server (http_server.c) and of *)
(* mesh_websocket_server (node_manager.c) keeps: NODE_SIZE rows, one per   *)
(* node heard from, refreshed by every node_information message, swept of  *)
(* silent nodes and sorted by level after each of them.                    *)
(*                                                                         *)
(* The operators are the conditions that the loops of that handler test    *)
(* and the order its qsort leaves.  A row is a record with at least the    *)
(* fields entry_tick, level and self_mac; the modules that use the table   *)
(* add the others.  entry_tick is a FreeRTOS tick count, a counter that    *)
(* wraps at TICKS, and 0 in it is the code's mark of a free row.           *)
(***************************************************************************)
EXTENDS Integers

CONSTANTS
    NODE_SIZE,  \* rows of the table (100)
    TICKS,      \* values of TickType_t (2^32)
    EXPIRE      \* ticks after which a silent node is gone (60000)

ASSUME NodeTableAssumption ==
    /\ NODE_SIZE \in Nat \ {0}
    /\ TICKS \in Nat \ {0}
    /\ EXPIRE \in Nat
    /\ EXPIRE < TICKS

Slot == 1 .. NODE_SIZE

\* The level of a free row (0xFF), above that of any node.
NoLevel == 255

Live(row) == row.entry_tick # 0

Holds(row, m) == Live(row) /\ row.self_mac = m

Known(t, m) == \E i \in Slot : Holds(t[i], m)

FirstFree_NoBreak(t, i) == ~Live(t[i])

FirstFree(t, i) ==
    /\ ~Live(t[i])
    /\ \A j \in Slot : j < i => Live(t[j])

Gone_AtExpire(row, tick) ==
    Live(row) /\ (tick - row.entry_tick) % TICKS >= EXPIRE

Gone_Signed(row, tick) == Live(row) /\ tick - row.entry_tick > EXPIRE

\* Silent for more than EXPIRE ticks, by the unsigned difference.
Gone(row, tick) == Live(row) /\ (tick - row.entry_tick) % TICKS > EXPIRE

Shuffles ==
    {p \in [Slot -> Slot] :
        /\ \A i, j \in Slot : p[i] = p[j] => i = j
        /\ \A k \in Slot : \E i \in Slot : p[i] = k}

\* qsort permutes the rows into level order.  Rows of one level may come out
\* in any order: compar answers -1 for equal rows, whichever comes first.
Sorting(t) ==
    {p \in Shuffles :
        \A i, j \in Slot : i < j => t[p[i]].level <= t[p[j]].level}

Rearranged(t, p) == [i \in Slot |-> t[p[i]]]
=============================================================================
