--------------------------- MODULE HttpNodeServer ---------------------------
(***************************************************************************)
(* The root of mesh_http_server: the message buffer between the mesh and   *)
(* the http_server task, the node table that task keeps, the system        *)
(* strings it allocates for the rows, and the HTTP handlers that read the  *)
(* table from another task without a lock.                                 *)
(*                                                                         *)
(* A node_information message is a level and a signal strength (the other  *)
(* numbers of a report behave like the level); a system_information        *)
(* message is its sender.  The string made from it is a heap block that    *)
(* holds the sender's name.                                                *)
(***************************************************************************)
EXTENDS NodeTable, Sequences, FiniteSets

CONSTANTS
    Mac,          \* the nodes
    Root,         \* the one this code runs on
    Level,        \* the levels of the mesh
    Rssi,         \* signal strengths
    Oversize,     \* nodes whose NODE_COMMENT makes a report exceed BUF_SIZE
    BufferSlots,  \* messages that fit in xMessageBufferNode
    Block,        \* heap blocks that cJSON_Print may return
    None,         \* the null pointer, an unused name, a free block
    FirstTick,    \* the time when http_server starts
    MaxTime,      \* bound on time
    MaxRequests   \* bound on HTTP requests

ASSUME HttpNodeServerAssumption ==
    /\ Root \in Mac
    /\ Level \subseteq 1 .. NoLevel - 1
    /\ 1 \in Level
    /\ Oversize \subseteq Mac
    /\ BufferSlots \in Nat
    /\ None \notin Mac \cup Rssi \cup Block
    /\ FirstTick \in Nat
    /\ MaxTime \in Nat
    /\ MaxRequests \in Nat

VARIABLES
    mbuf,      \* xMessageBufferNode
    timer,     \* is the timer service task there?
    now,       \* ticks since boot, not wrapped
    nodes,     \* the node table
    heap,      \* for every block: whose system string it holds, or None
    pc,        \* what http_server does: "receive", "print", "finished"
    slot,      \* the row whose new system string it prints
    web,       \* what the httpd task does
    requests,  \* HTTP requests so far
    heard,     \* history: when a report of the node was last handled
    told       \* history: the report of the node last handled

vars == <<mbuf, timer, now, nodes, heap, pc, slot, web, requests, heard, told>>

serverVars == <<nodes, heap, pc, slot, heard, told>>

NodeInfo == [id : {"node_information"}, self_mac : Mac, level : Level,
             parent_rssi : Rssi]
SystemInfo == [id : {"system_information"}, self_mac : Mac]
Message == NodeInfo \cup SystemInfo

Row == [entry_tick : 0 .. TICKS - 1, level : Level \cup {NoLevel},
        self_mac : Mac \cup {None}, parent_rssi : Rssi \cup {None},
        system_string : Block \cup {None}]

Idle == [req |-> "idle", at |-> 0, mac |-> None, shown |-> <<>>, got |-> {},
         quiet |-> TRUE, kept |-> {}]

Web == [req : {"idle", "page", "details"}, at : 0 .. NODE_SIZE + 1,
        mac : Mac \cup {None}, shown : Seq(Mac \cup {None}),
        got : SUBSET (Mac \cup {None}), quiet : BOOLEAN, kept : SUBSET Mac]

TypeOK ==
    /\ mbuf \in Seq(Message)
    /\ Len(mbuf) <= BufferSlots
    /\ timer \in BOOLEAN
    /\ now \in Nat
    /\ nodes \in [Slot -> Row]
    /\ heap \in [Block -> Mac \cup {None}]
    /\ pc \in {"receive", "print", "finished"}
    /\ slot \in Slot
    /\ web \in Web
    /\ web.req = "details" => web.at \in Slot
    /\ requests \in 0 .. MaxRequests
    /\ heard \in [Mac -> Nat]
    /\ told \in [Mac -> NodeInfo \cup {None}]

Tick == now % TICKS

FreeRow == [entry_tick |-> 0, level |-> NoLevel, self_mac |-> None,
            parent_rssi |-> None, system_string |-> None]

Init ==
    /\ mbuf = <<>>
    /\ timer = TRUE
    /\ now = FirstTick
    /\ nodes = [i \in Slot |-> FreeRow]
    /\ heap = [b \in Block |-> None]
    /\ pc = "receive"
    /\ slot = 1
    /\ web = Idle
    /\ requests = 0
    /\ heard = [m \in Mac |-> 0]
    /\ told = [m \in Mac |-> None]

-----------------------------------------------------------------------------
(* The senders.  xMessageBufferSendFromISR never waits: a message that does *)
(* not fit is not sent.                                                     *)

Fits(buf) == Len(buf) < BufferSlots

SendFromISR_NoBound(buf, msg) == Append(buf, msg)

SendFromISR(buf, msg) == IF Fits(buf) THEN Append(buf, msg) ELSE buf

ReportOf(m, l, r) == [id |-> "node_information", self_mac |-> m, level |-> l,
                      parent_rssi |-> r]
SystemOf(m) == [id |-> "system_information", self_mac |-> m]

\* json_to_root_handler: a message of another node came up the mesh.
JsonToRoot(msg) ==
    /\ msg.self_mac # Root
    /\ msg.id = "node_information" => msg.level # 1
    /\ mbuf' = SendFromISR(mbuf, msg)
    /\ UNCHANGED <<timer, now, serverVars, web, requests>>

\* The root's own timer.  Every tenth report is followed by a
\* system_information.  A callback that cannot send deletes the task that
\* runs it, which is the timer service task.
PrintSystemInfoTimer(rssi, tenth) ==
    LET report == ReportOf(Root, 1, rssi)
        first  == SendFromISR(mbuf, report)
        both   == tenth /\ Fits(mbuf)
    IN  /\ timer
        /\ mbuf' = IF both THEN SendFromISR(first, SystemOf(Root)) ELSE first
        /\ timer' = (Fits(mbuf) /\ (tenth => Fits(first)))
        /\ UNCHANGED <<now, serverVars, web, requests>>

\* Time passes.  It does not run on for a whole turn of the tick counter
\* after the reports in the table: some node reports more often than that.
Elapse ==
    /\ now < MaxTime
    /\ \A i \in Slot :
          Live(nodes[i]) => now + 1 < heard[nodes[i].self_mac] + TICKS
    /\ now' = now + 1
    /\ UNCHANGED <<mbuf, timer, serverVars, web, requests>>

-----------------------------------------------------------------------------
(* The http_server task.                                                    *)

Refreshed_OldLevel(t, msg) ==
    [i \in Slot |-> IF Holds(t[i], msg.self_mac)
                    THEN [t[i] EXCEPT !.entry_tick = Tick] ELSE t[i]]

Refreshed(t, msg) ==
    [i \in Slot |->
        IF Holds(t[i], msg.self_mac)
        THEN [t[i] EXCEPT !.level = msg.level, !.entry_tick = Tick]
        ELSE t[i]]

Inserted(t, msg) ==
    [i \in Slot |->
        IF FirstFree(t, i)
        THEN [t[i] EXCEPT !.entry_tick = Tick,
                          !.level = msg.level,
                          !.self_mac = msg.self_mac,
                          !.parent_rssi = msg.parent_rssi]
        ELSE t[i]]

Recorded(t, msg) ==
    IF Known(t, msg.self_mac) THEN Refreshed(t, msg) ELSE Inserted(t, msg)

Swept_KeepsString(t) ==
    [i \in Slot |-> IF Gone(t[i], Tick)
                    THEN [t[i] EXCEPT !.entry_tick = 0, !.level = NoLevel]
                    ELSE t[i]]

Swept(t) ==
    [i \in Slot |->
        IF Gone(t[i], Tick)
        THEN [t[i] EXCEPT !.entry_tick = 0,
                          !.level = NoLevel,
                          !.system_string = None]
        ELSE t[i]]

SweptBlocks_NotFreed(t) == {}

\* The blocks that the sweep frees.
SweptBlocks(t) == {t[i].system_string : i \in {j \in Slot : Gone(t[j], Tick)}}

HeapWithout(blocks) == [b \in Block |-> IF b \in blocks THEN None ELSE heap[b]]

\* Another task wrote the table: a response in progress is no longer quiet.
\* kept are the nodes in the table ever since the response began.
Disturb ==
    web' = [web EXCEPT !.quiet = FALSE,
                       !.kept = {m \in @ : Known(nodes', m)}]

\* A message longer than BUF_SIZE stays in the buffer, the receive returns 0
\* and the task breaks out of its loop.
ReceiveOversize ==
    /\ pc = "receive"
    /\ mbuf # <<>>
    /\ Head(mbuf).id = "node_information"
    /\ Head(mbuf).self_mac \in Oversize
    /\ pc' = "finished"
    /\ UNCHANGED <<mbuf, timer, now, nodes, heap, slot, web, requests, heard,
                   told>>

NodeInformation ==
    /\ pc = "receive"
    /\ mbuf # <<>>
    /\ LET msg      == Head(mbuf)
           recorded == Recorded(nodes, msg)
           swept    == Swept(recorded)
       IN  /\ msg.id = "node_information"
           /\ msg.self_mac \notin Oversize
           /\ mbuf' = Tail(mbuf)
           /\ heap' = HeapWithout(SweptBlocks(recorded))
           /\ \E p \in Sorting(swept) : nodes' = Rearranged(swept, p)
           /\ heard' = [heard EXCEPT ![msg.self_mac] = now]
           /\ told' = [told EXCEPT ![msg.self_mac] = msg]
    /\ Disturb
    /\ UNCHANGED <<timer, now, pc, slot, requests>>

\* The old string of the row is freed before the new one is printed.
SystemInformation ==
    /\ pc = "receive"
    /\ mbuf # <<>>
    /\ LET msg == Head(mbuf)
       IN  /\ msg.id = "system_information"
           /\ mbuf' = Tail(mbuf)
           /\ \/ /\ Known(nodes, msg.self_mac)
                 /\ \E i \in Slot :
                       /\ Holds(nodes[i], msg.self_mac)
                       /\ heap' = HeapWithout({nodes[i].system_string})
                       /\ slot' = i
                 /\ pc' = "print"
              \/ /\ ~Known(nodes, msg.self_mac)
                 /\ UNCHANGED <<heap, slot, pc>>
    /\ UNCHANGED <<timer, now, nodes, requests, heard, told>>
    /\ Disturb

\* cJSON_Print allocates, or returns NULL when the heap is exhausted.
PrintSystem ==
    /\ pc = "print"
    /\ \/ \E b \in Block :
             /\ heap[b] = None
             /\ heap' = [heap EXCEPT ![b] = nodes[slot].self_mac]
             /\ nodes' = [nodes EXCEPT ![slot].system_string = b]
       \/ /\ \A b \in Block : heap[b] # None
          /\ nodes' = [nodes EXCEPT ![slot].system_string = None]
          /\ UNCHANGED heap
    /\ pc' = "receive"
    /\ Disturb
    /\ UNCHANGED <<mbuf, timer, now, slot, requests, heard, told>>

-----------------------------------------------------------------------------
(* The httpd task.  Every chunk it sends may block, and the table may be    *)
(* written meanwhile.                                                       *)

webUnchanged == UNCHANGED <<mbuf, timer, now, serverVars>>

RootGet ==
    /\ web.req = "idle"
    /\ requests < MaxRequests
    /\ requests' = requests + 1
    /\ web' = [Idle EXCEPT !.req = "page", !.at = 1,
                            !.kept = {m \in Mac : Known(nodes, m)}]
    /\ webUnchanged

SendRow_AnyRow ==
    /\ web.req = "page"
    /\ web.at \in Slot
    /\ web' = [web EXCEPT !.at = @ + 1,
                          !.shown = Append(@, nodes[web.at].self_mac)]
    /\ UNCHANGED requests
    /\ webUnchanged

\* One row of the table, if it is not free.
SendRow ==
    /\ web.req = "page"
    /\ web.at \in Slot
    /\ web' = [web EXCEPT
                 !.at = @ + 1,
                 !.shown = IF Live(nodes[web.at])
                           THEN Append(@, nodes[web.at].self_mac) ELSE @]
    /\ UNCHANGED requests
    /\ webUnchanged

\* The link of a row leads to system_get_handler.
SystemGet(m) ==
    /\ web.req = "idle"
    /\ requests < MaxRequests
    /\ requests' = requests + 1
    /\ \/ \E i \in Slot :
             /\ Holds(nodes[i], m)
             /\ \A j \in Slot : j > i => ~Holds(nodes[j], m)
             /\ nodes[i].system_string # None
             /\ web' = [Idle EXCEPT !.req = "details", !.at = i, !.mac = m]
       \/ /\ \A i \in Slot :
                Holds(nodes[i], m) => nodes[i].system_string = None
          /\ UNCHANGED web
    /\ webUnchanged

\* The loop reads nodes[tableIndex].system_string anew for every character
\* and blocks in the socket at the end of every line: whose text it sends.
\* None is a freed block or a null pointer.
SendLine ==
    /\ web.req = "details"
    /\ LET s == nodes[web.at].system_string
       IN  web' = [web EXCEPT
                     !.got = @ \cup {IF s = None THEN None ELSE heap[s]}]
    /\ UNCHANGED requests
    /\ webUnchanged

EndResponse ==
    /\ \/ web.req = "page" /\ web.at \notin Slot
       \/ web.req = "details" /\ web.got # {}
    /\ web' = Idle
    /\ UNCHANGED requests
    /\ webUnchanged

-----------------------------------------------------------------------------
Next ==
    \/ \E msg \in Message : JsonToRoot(msg)
    \/ \E rssi \in Rssi, tenth \in BOOLEAN : PrintSystemInfoTimer(rssi, tenth)
    \/ Elapse
    \/ ReceiveOversize
    \/ NodeInformation
    \/ SystemInformation
    \/ PrintSystem
    \/ RootGet
    \/ SendRow
    \/ \E m \in Mac : SystemGet(m)
    \/ SendLine
    \/ EndResponse

Spec == Init /\ [][Next]_vars
-----------------------------------------------------------------------------
(* Properties.                                                              *)

\* No node has two live rows: the search of the update, the insertion, the
\* sweep and the sort never split or copy the row of a node.
UniqueMac ==
    \A i, j \in Slot :
        Live(nodes[i]) /\ Holds(nodes[j], nodes[i].self_mac) => i = j

\* The row whose string is freed and not yet replaced owns none.
Owns(i, b) == nodes[i].system_string = b /\ ~(pc = "print" /\ slot = i)

\* Every allocated system string belongs to exactly one row and every row
\* that refers to one refers to an allocated one: no update, sweep, sort or
\* wrap of the tick counter leaks a string, frees it twice or leaves a
\* dangling pointer behind.
HeapExact ==
    /\ \A b \in Block : heap[b] # None <=> \E i \in Slot : Owns(i, b)
    /\ \A i, j \in Slot, b \in Block : Owns(i, b) /\ Owns(j, b) => i = j

\* A live row shows the level of the last report of its node that the task
\* handled, whatever slots the row went through.
RowsLatest ==
    \A i \in Slot : Live(nodes[i]) =>
        /\ told[nodes[i].self_mac] \in NodeInfo
        /\ nodes[i].level = told[nodes[i].self_mac].level

\* "Click on the anchor to view the device details" (mesh_http_server
\* README): the string behind the link of a live row describes that row's
\* node, never the previous owner of the slot.
StringOwner ==
    \A i \in Slot, b \in Block :
        Live(nodes[i]) /\ Owns(i, b) => heap[b] = nodes[i].self_mac

EvictsSilent(m) ==
    Known(nodes, m) /\ ~Known(nodes', m) =>
        \/ now - heard[m] > EXPIRE
        \/ Tick = 0

\* A node leaves the table only after more than EXPIRE ticks without a
\* report, also when the tick counter wrapped meanwhile; the exception is a
\* report handled at tick 0, which the code takes for a free row.
EvictOnlySilent == [][\A m \in Mac : EvictsSilent(m)]_vars

SweepsStale ==
    heard' # heard =>
        \A m \in Mac : Known(nodes', m) => now - heard'[m] <= EXPIRE

\* After a report is handled no row is left of a node silent for more than
\* EXPIRE ticks, also when the tick counter wrapped meanwhile.
StaleGone == [][SweepsStale]_vars

\* The level in the report that is received next, 0 if it is none of m.
Offer(m) ==
    IF mbuf # <<>> /\ Head(mbuf) \in NodeInfo /\ Head(mbuf).self_mac = m
    THEN Head(mbuf).level ELSE 0

Listing == INSTANCE Registry WITH
    Name <- Mac,
    SIZE <- NODE_SIZE,
    StartTime <- FirstTick,
    offer <- [m \in Mac |-> Offer(m)],
    listed <- {[name |-> nodes[i].self_mac, level |-> nodes[i].level,
                at |-> nodes[i].entry_tick] : i \in {j \in Slot : Live(nodes[j])}},
    room <- Cardinality({i \in Slot : ~Live(nodes[i])})

\* As long as the tick counter does not wrap the table is a Registry: searching,
\* inserting, sweeping and sorting rows never loses, doubles or mixes entries,
\* and a report is turned away only when every row was taken.
ImplementsRegistry == Listing!Spec

Complete == web.req = "page" /\ web.at \notin Slot

Times(m) == Cardinality({k \in 1 .. Len(web.shown) : web.shown[k] = m})

ShowsTable ==
    \A m \in Mac : Times(m) = (IF Known(nodes, m) THEN 1 ELSE 0)

\* A page written while no message was handled shows every node of the
\* table exactly once.
PageExactWhenQuiet == Complete /\ web.quiet => ShowsTable

\* "Displays all node information in the Mesh-Network" (mesh_http_server
\* README): a node that is in the table from the start of the page to its end
\* is on it once, although the table was sorted while the page was written.
PageOnce == Complete => \A m \in web.kept : Times(m) = 1

\* "Click on the anchor to view the device details" (mesh_http_server
\* README): every line of the response is of the requested node.
DetailsOfNode == web.req = "details" => web.got \subseteq {web.mac}
=============================================================================
