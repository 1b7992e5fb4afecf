----------------------- MODULE HttpNodeServer_proofs -----------------------
(***************************************************************************)
(* Proofs about HttpNodeServer, for every set of nodes, table size, heap,  *)
(* buffer and tick width.                                                  *)
(***************************************************************************)
EXTENDS HttpNodeServer, NodeTable_proofs

Table == [Slot -> Row]

\* A tick count is a value of TickType_t.
LEMMA TickType == ASSUME now \in Nat PROVE Tick \in 0 .. TICKS - 1
BY NodeTableAssumption DEF Tick

\* Recording a report keeps the rows rows.
LEMMA RecordedType ==
    ASSUME now \in Nat, NEW t \in Table, NEW msg \in NodeInfo
    PROVE  Recorded(t, msg) \in Table
<1>1. Tick \in 0 .. TICKS - 1
  BY TickType
<1>2. Refreshed(t, msg) \in Table
  BY <1>1, ZenonT(30) DEF Refreshed, Table, Row, NodeInfo
<1>3. Inserted(t, msg) \in Table
  BY <1>1, ZenonT(30) DEF Inserted, Table, Row, NodeInfo
<1> QED
  BY <1>2, <1>3 DEF Recorded

\* So does the sweep.
LEMMA SweptType ==
    ASSUME NEW t \in Table
    PROVE  Swept(t) \in Table
<1>1. 0 \in 0 .. TICKS - 1
  BY NodeTableAssumption
<1>2. ASSUME NEW i \in Slot
      PROVE  [t[i] EXCEPT !.entry_tick = 0, !.level = NoLevel,
                          !.system_string = None] \in Row
  BY <1>1 DEF Table, Row
<1> QED
  BY <1>2 DEF Swept, Table

\* So does the sort.
LEMMA RearrangedType ==
    ASSUME NEW t \in Table, NEW p \in Sorting(t)
    PROVE  Rearranged(t, p) \in Table
BY DEF Rearranged, Sorting, Shuffles, Table

\* Sending keeps a buffer of messages within its size.
LEMMA SendType ==
    ASSUME NEW buf \in Seq(Message), Len(buf) <= BufferSlots,
           NEW msg \in Message
    PROVE  /\ SendFromISR(buf, msg) \in Seq(Message)
           /\ Len(SendFromISR(buf, msg)) <= BufferSlots
<1>1. Len(buf) \in Nat /\ BufferSlots \in Nat
  BY HttpNodeServerAssumption
<1> QED
  BY <1>1 DEF SendFromISR, Fits

\* The removal of the head message keeps the buffer's type.
LEMMA TailType ==
    ASSUME NEW buf \in Seq(Message), buf # <<>>, Len(buf) <= BufferSlots
    PROVE  /\ Head(buf) \in Message
           /\ Tail(buf) \in Seq(Message)
           /\ Len(Tail(buf)) <= BufferSlots
<1>1. Len(buf) \in Nat /\ BufferSlots \in Nat
  BY HttpNodeServerAssumption
<1> QED
  BY <1>1

\* A message with the id of a report is a report.
LEMMA MessageKind ==
    ASSUME NEW msg \in Message
    PROVE  /\ msg.self_mac \in Mac
           /\ msg.id = "node_information" => msg \in NodeInfo
BY DEF Message, NodeInfo, SystemInfo

\* Disturb changes only history fields of the response in progress.
LEMMA DisturbType ==
    ASSUME web \in Web, Disturb
    PROVE  web' \in Web /\ web'.req = web.req /\ web'.at = web.at
BY DEF Web, Disturb

\* A row stays a row when it gets another string.
LEMMA StringType ==
    ASSUME NEW row \in Row, NEW s \in Block \cup {None}
    PROVE  [row EXCEPT !.system_string = s] \in Row
BY DEF Row

\* A response begins with a record of the response type.
LEMMA StartType ==
    ASSUME NEW i \in Slot, NEW m \in Mac, NEW K \in SUBSET Mac
    PROVE  /\ [Idle EXCEPT !.req = "page", !.at = 1, !.kept = K] \in Web
           /\ [Idle EXCEPT !.req = "details", !.at = i, !.mac = m] \in Web
<1>1. 1 \in 0 .. NODE_SIZE + 1 /\ i \in 0 .. NODE_SIZE + 1
  BY NodeTableAssumption DEF Slot
<1>2. <<>> \in Seq(Mac \cup {None})
  OBVIOUS
<1>3. [Idle EXCEPT !.req = "page", !.at = 1, !.kept = K] \in Web
  BY <1>1, <1>2 DEF Idle, Web
<1>4. [Idle EXCEPT !.req = "details", !.at = i, !.mac = m] \in Web
  BY <1>1, <1>2 DEF Idle, Web
<1> QED
  BY <1>3, <1>4

\* One more row, or one more line, is sent.
LEMMA ProgressType ==
    ASSUME NEW w \in Web, w.at \in Slot, NEW x \in Mac \cup {None},
           NEW live \in BOOLEAN
    PROVE  /\ [w EXCEPT !.at = @ + 1,
                        !.shown = IF live THEN Append(@, x) ELSE @] \in Web
           /\ [w EXCEPT !.got = @ \cup {x}] \in Web
<1>1. w.at + 1 \in 0 .. NODE_SIZE + 1
  BY NodeTableAssumption DEF Slot
<1>2. (IF live THEN Append(w.shown, x) ELSE w.shown) \in Seq(Mac \cup {None})
  BY DEF Web
<1>3. w.got \cup {x} \in SUBSET (Mac \cup {None})
  BY DEF Web
<1> QED
  BY <1>1, <1>2, <1>3 DEF Web

-----------------------------------------------------------------------------
\* The initial state has the types.
LEMMA InitTypeOK == Init => TypeOK
<1> SUFFICES ASSUME Init PROVE TypeOK
  OBVIOUS
<1>1. FreeRow \in Row
  BY NodeTableAssumption DEF FreeRow, Row
<1>2. Idle \in Web /\ Idle.req = "idle"
  BY NodeTableAssumption DEF Idle, Web
<1>3. 1 \in Slot
  BY NodeTableAssumption DEF Slot
<1> QED
  BY <1>1, <1>2, <1>3, HttpNodeServerAssumption DEF Init, TypeOK

\* Every action keeps them.
LEMMA StepTypeOK == TypeOK /\ [Next]_vars => TypeOK'
<1> SUFFICES ASSUME TypeOK, [Next]_vars PROVE TypeOK'
  OBVIOUS
<1> USE DEF TypeOK
<1>1. ASSUME NEW msg \in Message, JsonToRoot(msg) PROVE TypeOK'
  BY <1>1, SendType DEF JsonToRoot, serverVars
<1>2. ASSUME NEW rssi \in Rssi, NEW tenth \in BOOLEAN,
             PrintSystemInfoTimer(rssi, tenth)
      PROVE  TypeOK'
  <2>1. ReportOf(Root, 1, rssi) \in Message /\ SystemOf(Root) \in Message
    BY HttpNodeServerAssumption
    DEF ReportOf, SystemOf, Message, NodeInfo, SystemInfo
  <2>2. /\ SendFromISR(mbuf, ReportOf(Root, 1, rssi)) \in Seq(Message)
        /\ Len(SendFromISR(mbuf, ReportOf(Root, 1, rssi))) <= BufferSlots
    BY <2>1, SendType
  <2>3. mbuf' \in Seq(Message) /\ Len(mbuf') <= BufferSlots
    BY <1>2, <2>1, <2>2, SendType DEF PrintSystemInfoTimer
  <2>4. timer' \in BOOLEAN
    BY <1>2 DEF PrintSystemInfoTimer
  <2> QED
    BY <1>2, <2>3, <2>4 DEF PrintSystemInfoTimer, serverVars
<1>3. CASE Elapse
  BY <1>3 DEF Elapse, serverVars
<1>4. CASE ReceiveOversize
  BY <1>4 DEF ReceiveOversize
<1>5. CASE NodeInformation
  <2> DEFINE msg == Head(mbuf)
  <2>1. msg \in NodeInfo /\ msg.self_mac \in Mac
    BY <1>5, TailType, MessageKind DEF NodeInformation
  <2>2. mbuf' \in Seq(Message) /\ Len(mbuf') <= BufferSlots
    BY <1>5, TailType DEF NodeInformation
  <2>3. nodes' \in Table
    <3>1. Swept(Recorded(nodes, msg)) \in Table
      BY <2>1, RecordedType, SweptType DEF Table
    <3> QED
      BY <1>5, <3>1, RearrangedType DEF NodeInformation
  <2>4. heap' \in [Block -> Mac \cup {None}]
    BY <1>5 DEF NodeInformation, HeapWithout
  <2>5. heard' \in [Mac -> Nat] /\ told' \in [Mac -> NodeInfo \cup {None}]
    BY <1>5, <2>1 DEF NodeInformation
  <2>6. web' \in Web /\ (web'.req = "details" => web'.at \in Slot)
    BY <1>5, DisturbType DEF NodeInformation
  <2> QED
    BY <1>5, <2>2, <2>3, <2>4, <2>5, <2>6 DEF NodeInformation, Table
<1>6. CASE SystemInformation
  <2>1. mbuf' \in Seq(Message) /\ Len(mbuf') <= BufferSlots
    BY <1>6, TailType DEF SystemInformation
  <2>2. web' \in Web /\ (web'.req = "details" => web'.at \in Slot)
    BY <1>6, DisturbType DEF SystemInformation
  <2>3. /\ heap' \in [Block -> Mac \cup {None}]
        /\ slot' \in Slot
        /\ pc' \in {"receive", "print", "finished"}
    BY <1>6 DEF SystemInformation, HeapWithout
  <2> QED
    BY <1>6, <2>1, <2>2, <2>3 DEF SystemInformation
<1>7. CASE PrintSystem
  <2>1. web' \in Web /\ (web'.req = "details" => web'.at \in Slot)
    BY <1>7, DisturbType DEF PrintSystem
  <2>2. heap' \in [Block -> Mac \cup {None}] /\ nodes' \in [Slot -> Row]
    <3>1. CASE \E b \in Block :
                 /\ heap' = [heap EXCEPT ![b] = nodes[slot].self_mac]
                 /\ nodes' = [nodes EXCEPT ![slot].system_string = b]
      <4>1. PICK b \in Block :
                   /\ heap' = [heap EXCEPT ![b] = nodes[slot].self_mac]
                   /\ nodes' = [nodes EXCEPT ![slot].system_string = b]
        BY <3>1
      <4>2. nodes[slot].self_mac \in Mac \cup {None}
        BY DEF Row
      <4>3. [nodes[slot] EXCEPT !.system_string = b] \in Row
        BY StringType
      <4> QED
        BY <4>1, <4>2, <4>3
    <3>2. CASE /\ nodes' = [nodes EXCEPT ![slot].system_string = None]
               /\ UNCHANGED heap
      <4>1. [nodes[slot] EXCEPT !.system_string = None] \in Row
        BY StringType
      <4> QED
        BY <3>2, <4>1
    <3> QED
      BY <1>7, <3>1, <3>2 DEF PrintSystem
  <2> QED
    BY <1>7, <2>1, <2>2 DEF PrintSystem
<1>8. CASE RootGet
  <2>1. web' \in Web /\ web'.req = "page"
    <3> DEFINE K == {n \in Mac : Known(nodes, n)}
    <3>1. web' = [Idle EXCEPT !.req = "page", !.at = 1, !.kept = K]
      BY <1>8 DEF RootGet
    <3>2. K \in SUBSET Mac
      OBVIOUS
    <3>3. PICK i \in Slot : TRUE
      BY NodeTableAssumption DEF Slot
    <3>4. web'.req = "page"
      BY <3>1 DEF Idle
    <3> HIDE DEF K
    <3> QED
      BY <3>1, <3>2, <3>3, <3>4, StartType, HttpNodeServerAssumption
  <2>2. requests' \in 0 .. MaxRequests
    BY <1>8, HttpNodeServerAssumption DEF RootGet
  <2> QED
    BY <1>8, <2>1, <2>2 DEF RootGet, webUnchanged, serverVars
<1>9. CASE SendRow
  <2>1. nodes[web.at].self_mac \in Mac \cup {None}
    BY <1>9 DEF SendRow, Row
  <2>2. Live(nodes[web.at]) \in BOOLEAN
    BY DEF Live
  <2>3. web' \in Web
    BY <1>9, <2>1, <2>2, ProgressType DEF SendRow
  <2>4. web'.req = "page"
    BY <1>9 DEF SendRow, Web
  <2> QED
    BY <1>9, <2>3, <2>4 DEF SendRow, webUnchanged, serverVars
<1>10. ASSUME NEW m \in Mac, SystemGet(m) PROVE TypeOK'
  <2>1. web' \in Web /\ (web'.req = "details" => web'.at \in Slot)
    <3>1. CASE UNCHANGED web
      BY <3>1
    <3>2. ASSUME NEW i \in Slot,
                 web' = [Idle EXCEPT !.req = "details", !.at = i, !.mac = m]
          PROVE  web' \in Web /\ web'.at \in Slot
      <4>1. web' \in Web
        BY <3>2, StartType
      <4>2. web'.at = i
        BY <3>2 DEF Idle
      <4> QED
        BY <4>1, <4>2
    <3> QED
      BY <1>10, <3>1, <3>2 DEF SystemGet
  <2>2. requests' \in 0 .. MaxRequests
    <3>1. requests < MaxRequests /\ requests' = requests + 1
      BY <1>10 DEF SystemGet
    <3> QED
      BY <3>1, HttpNodeServerAssumption
  <2> QED
    BY <1>10, <2>1, <2>2 DEF SystemGet, webUnchanged, serverVars
<1>11. CASE SendLine
  <2> DEFINE s == nodes[web.at].system_string
             read == IF s = None THEN None ELSE heap[s]
  <2>1. s \in Block \cup {None}
    BY <1>11 DEF SendLine, Row
  <2>2. read \in Mac \cup {None}
    BY <2>1
  <2>3. web' \in Web /\ web'.req = "details" /\ web'.at = web.at
    <3> HIDE DEF read
    <3>1. web' = [web EXCEPT !.got = @ \cup {read}]
      BY <1>11 DEF SendLine, read
    <3>2. web.req = "details" /\ web.at \in Slot
      BY <1>11 DEF SendLine
    <3>3. web' \in Web
      BY <2>2, <3>1, <3>2, ProgressType
    <3> QED
      BY <3>1, <3>2, <3>3 DEF Web
  <2> QED
    BY <1>11, <2>3 DEF SendLine, webUnchanged, serverVars
<1>12. CASE EndResponse
  <2>1. Idle \in Web /\ Idle.req = "idle"
    BY NodeTableAssumption DEF Idle, Web
  <2> QED
    BY <1>12, <2>1 DEF EndResponse, webUnchanged, serverVars
<1>13. CASE UNCHANGED vars
  BY <1>13 DEF vars
<1> QED
  BY <1>1, <1>2, <1>3, <1>4, <1>5, <1>6, <1>7, <1>8, <1>9, <1>10, <1>11,
     <1>12, <1>13 DEF Next

\* TypeOK: every variable keeps its type; the message buffer never holds
\* more than fits in it.
THEOREM TypeCorrect == Spec => []TypeOK
BY InitTypeOK, StepTypeOK, PTL DEF Spec

-----------------------------------------------------------------------------
(* The stages of the node_information handler, on any table.                *)

Named(t) == \A i \in Slot : Live(t[i]) => t[i].self_mac \in Mac

\* The strings of the rows are the allocated blocks, each of them once.
Exact(t, h) ==
    /\ \A b \in Block : h[b] # None <=> \E i \in Slot : t[i].system_string = b
    /\ \A i, j \in Slot, b \in Block :
          t[i].system_string = b /\ t[j].system_string = b => i = j

Latest(t, last) ==
    \A i \in Slot : Live(t[i]) => /\ last[t[i].self_mac] \in NodeInfo
                                  /\ t[i].level = last[t[i].self_mac].level

\* A refresh leaves the names and the strings of the rows alone.
LEMMA RefreshedFields ==
    ASSUME NEW t \in Table, NEW msg \in NodeInfo, NEW i \in Slot
    PROVE  LET r == Refreshed(t, msg)[i]
           IN  /\ r.self_mac = t[i].self_mac
               /\ r.system_string = t[i].system_string
               /\ Live(r) => Live(t[i])
               /\ Holds(t[i], msg.self_mac) => r.level = msg.level
               /\ ~Holds(t[i], msg.self_mac) => r = t[i]
BY DEF Refreshed, Table, Row, Live, Holds

\* An insertion fills the first free row and leaves every other one alone.
LEMMA InsertedFields ==
    ASSUME NEW t \in Table, NEW msg \in NodeInfo, NEW i \in Slot
    PROVE  LET r == Inserted(t, msg)[i]
           IN  /\ r.system_string = t[i].system_string
               /\ FirstFree(t, i) => /\ r.self_mac = msg.self_mac
                                     /\ r.level = msg.level
               /\ ~FirstFree(t, i) => r = t[i]
BY DEF Inserted, Table, Row

\* The sweep frees the rows of silent nodes and leaves the others alone.
LEMMA SweptFields ==
    ASSUME NEW t \in Table, NEW i \in Slot
    PROVE  LET r == Swept(t)[i]
           IN  /\ Gone(t[i], Tick) => ~Live(r) /\ r.system_string = None
               /\ ~Gone(t[i], Tick) => r = t[i]
BY DEF Swept, Table, Row, Live

\* Recording a report keeps the live rows apart, named, up to date, and the
\* strings where they are.
LEMMA RecordedInv ==
    ASSUME NEW t \in Table, NEW msg \in NodeInfo, NEW last \in [Mac -> NodeInfo \cup {None}],
           Unique(t), Named(t), Latest(t, last)
    PROVE  /\ Unique(Recorded(t, msg))
           /\ Named(Recorded(t, msg))
           /\ Latest(Recorded(t, msg), [last EXCEPT ![msg.self_mac] = msg])
           /\ \A i \in Slot : Recorded(t, msg)[i].system_string = t[i].system_string
<1> DEFINE new == [last EXCEPT ![msg.self_mac] = msg]
<1>1. msg.self_mac \in Mac
  BY DEF NodeInfo
<1>2. /\ new[msg.self_mac] = msg
      /\ \A m \in Mac \ {msg.self_mac} : new[m] = last[m]
  BY <1>1
<1>3. CASE Known(t, msg.self_mac)
  <2> DEFINE r == Refreshed(t, msg)
  <2>1. Recorded(t, msg) = r
    BY <1>3 DEF Recorded
  <2>2. \A i \in Slot : /\ r[i].self_mac = t[i].self_mac
                        /\ r[i].system_string = t[i].system_string
                        /\ Live(r[i]) => Live(t[i])
                        /\ Holds(t[i], msg.self_mac) => r[i].level = msg.level
                        /\ ~Holds(t[i], msg.self_mac) => r[i] = t[i]
    BY RefreshedFields
  <2> HIDE DEF r, new
  <2>3. Unique(r)
    BY <2>2 DEF Unique, Holds
  <2>4. Named(r)
    BY <2>2 DEF Named
  <2>5. Latest(r, new)
    BY <1>2, <2>2 DEF Latest, Named, Holds
  <2> QED
    BY <2>1, <2>2, <2>3, <2>4, <2>5 DEF new
<1>4. CASE ~Known(t, msg.self_mac)
  <2> DEFINE r == Inserted(t, msg)
  <2>1. Recorded(t, msg) = r
    BY <1>4 DEF Recorded
  <2>2. \A i \in Slot : /\ r[i].system_string = t[i].system_string
                        /\ FirstFree(t, i) => /\ r[i].self_mac = msg.self_mac
                                              /\ r[i].level = msg.level
                        /\ ~FirstFree(t, i) => r[i] = t[i]
    BY InsertedFields
  <2>3. \A i, j \in Slot : FirstFree(t, i) /\ FirstFree(t, j) => i = j
    BY FirstFreeUnique
  <2>4. \A i \in Slot : ~Holds(t[i], msg.self_mac)
    BY <1>4 DEF Known
  <2> HIDE DEF r, new
  <2>5. Unique(r)
    BY <2>2, <2>3, <2>4 DEF Unique, Holds
  <2>6. Named(r)
    BY <1>1, <2>2 DEF Named
  <2>7. Latest(r, new)
    BY <1>2, <2>2, <2>4 DEF Latest, Named, Holds
  <2> QED
    BY <2>1, <2>2, <2>5, <2>6, <2>7 DEF new
<1> QED
  BY <1>3, <1>4

\* The sweep only takes rows away, and with them their strings.
LEMMA SweptInv ==
    ASSUME heap \in [Block -> Mac \cup {None}],
           NEW t \in Table, NEW last, Unique(t), Named(t), Latest(t, last),
           Exact(t, heap)
    PROVE  /\ Unique(Swept(t))
           /\ Named(Swept(t))
           /\ Latest(Swept(t), last)
           /\ Exact(Swept(t), HeapWithout(SweptBlocks(t)))
<1> DEFINE r == Swept(t)
           h == HeapWithout(SweptBlocks(t))
<1>1. \A i \in Slot : /\ Gone(t[i], Tick) => ~Live(r[i]) /\ r[i].system_string = None
                      /\ ~Gone(t[i], Tick) => r[i] = t[i]
  BY SweptFields
<1>2. \A b \in Block : h[b] = IF \E i \in Slot : Gone(t[i], Tick) /\ t[i].system_string = b
                            THEN None ELSE heap[b]
  BY DEF HeapWithout, SweptBlocks
<1> HIDE DEF r, h
<1>3. Unique(r)
  BY <1>1 DEF Unique, Holds
<1>4. Named(r)
  BY <1>1 DEF Named
<1>5. Latest(r, last)
  BY <1>1 DEF Latest
<1>6. None \notin Block
  BY HttpNodeServerAssumption
<1>7. Exact(r, h)
  <2>1. ASSUME NEW b \in Block
        PROVE  h[b] # None <=> \E i \in Slot : r[i].system_string = b
    BY <1>1, <1>2, <1>6 DEF Exact
  <2>2. ASSUME NEW i \in Slot, NEW j \in Slot, NEW b \in Block,
               r[i].system_string = b, r[j].system_string = b
        PROVE  i = j
    BY <1>1, <1>6, <2>2 DEF Exact
  <2> QED
    BY <2>1, <2>2 DEF Exact
<1> QED
  BY <1>3, <1>4, <1>5, <1>7 DEF r, h

\* The sort moves whole rows.
LEMMA RearrangedInv ==
    ASSUME NEW t \in Table, NEW h, NEW last, NEW p \in Sorting(t),
           Unique(t), Named(t), Latest(t, last), Exact(t, h)
    PROVE  /\ Unique(Rearranged(t, p))
           /\ Named(Rearranged(t, p))
           /\ Latest(Rearranged(t, p), last)
           /\ Exact(Rearranged(t, p), h)
<1> DEFINE r == Rearranged(t, p)
<1>1. /\ \A i \in Slot : p[i] \in Slot /\ r[i] = t[p[i]]
      /\ \A i, j \in Slot : p[i] = p[j] => i = j
      /\ \A k \in Slot : \E i \in Slot : p[i] = k
  BY DEF Rearranged, Sorting, Shuffles
<1> HIDE DEF r
<1>2. Unique(r) /\ Named(r) /\ Latest(r, last)
  BY <1>1 DEF Unique, Named, Latest
<1>3. Exact(r, h)
  <2>1. ASSUME NEW b \in Block
        PROVE  h[b] # None <=> \E i \in Slot : r[i].system_string = b
    <3>1. h[b] # None <=> \E k \in Slot : t[k].system_string = b
      BY DEF Exact
    <3>2. (\E k \in Slot : t[k].system_string = b)
            <=> \E i \in Slot : r[i].system_string = b
      BY <1>1
    <3> QED
      BY <3>1, <3>2
  <2>2. ASSUME NEW i \in Slot, NEW j \in Slot, NEW b \in Block,
               r[i].system_string = b, r[j].system_string = b
        PROVE  i = j
    BY <1>1, <2>2 DEF Exact
  <2> QED
    BY <2>1, <2>2 DEF Exact
<1> QED
  BY <1>2, <1>3 DEF r

-----------------------------------------------------------------------------
(* The invariant.  The rows satisfy what the stages keep; while a string is *)
(* printed its row still holds the pointer to the freed block, so the       *)
(* strings are exact except for that row.                                   *)

IInv ==
    /\ TypeOK
    /\ Unique(nodes)
    /\ Named(nodes)
    /\ Latest(nodes, told)
    /\ HeapExact
    /\ pc = "print" => nodes[slot].self_mac \in Mac

\* The invariant says what UniqueMac, HeapExact and RowsLatest say.
LEMMA IInvImplies == IInv => UniqueMac /\ HeapExact /\ RowsLatest
BY DEF IInv, UniqueMac, RowsLatest, Unique, Latest

\* When no string is being printed every row owns its string.
LEMMA ExactRows ==
    ASSUME pc # "print"
    PROVE  HeapExact <=> Exact(nodes, heap)
BY DEF HeapExact, Owns, Exact

\* The table is empty and so is the heap.
LEMMA InitIInv == Init => IInv
<1> SUFFICES ASSUME Init PROVE IInv
  OBVIOUS
<1>1. TypeOK
  BY InitTypeOK
<1>2. \A i \in Slot : ~Live(nodes[i]) /\ nodes[i].system_string = None
  BY DEF Init, FreeRow, Live
<1>3. None \notin Block /\ \A b \in Block : heap[b] = None
  BY HttpNodeServerAssumption DEF Init
<1>4. HeapExact
  BY <1>2, <1>3 DEF HeapExact, Owns
<1>5. Unique(nodes) /\ Named(nodes) /\ Latest(nodes, told)
  BY <1>2 DEF Unique, Named, Latest
<1>6. pc # "print"
  BY DEF Init
<1> QED
  BY <1>1, <1>4, <1>5, <1>6 DEF IInv

\* A report that is handled.
LEMMA NodeInformationIInv ==
    ASSUME IInv, TypeOK', NodeInformation
    PROVE  IInv'
<1> DEFINE msg == Head(mbuf)
           rec == Recorded(nodes, msg)
           h   == HeapWithout(SweptBlocks(rec))
<1>1. msg \in NodeInfo /\ nodes \in Table
      /\ heap \in [Block -> Mac \cup {None}]
      /\ told \in [Mac -> NodeInfo \cup {None}]
  BY TailType, MessageKind DEF NodeInformation, IInv, TypeOK, Table
<1>2. /\ pc = "receive" /\ pc' = "receive"
      /\ heap' = h
      /\ told' = [told EXCEPT ![msg.self_mac] = msg]
  BY DEF NodeInformation
<1>3. PICK p \in Sorting(Swept(rec)) : nodes' = Rearranged(Swept(rec), p)
  BY DEF NodeInformation
<1>4. rec \in Table
  BY <1>1, RecordedType DEF IInv, TypeOK
<1>5. Swept(rec) \in Table
  BY <1>4, SweptType
<1>6. Exact(nodes, heap)
  BY <1>2, ExactRows DEF IInv
<1>7. /\ Unique(rec) /\ Named(rec) /\ Latest(rec, told')
      /\ \A i \in Slot : rec[i].system_string = nodes[i].system_string
  BY <1>1, <1>2, RecordedInv DEF IInv
<1>8. Exact(rec, heap)
  BY <1>6, <1>7 DEF Exact
<1> HIDE DEF rec, h
<1>9. /\ Unique(Swept(rec)) /\ Named(Swept(rec)) /\ Latest(Swept(rec), told')
      /\ Exact(Swept(rec), h)
  BY <1>1, <1>4, <1>7, <1>8, SweptInv DEF h
<1>10. /\ Unique(nodes') /\ Named(nodes') /\ Latest(nodes', told')
       /\ Exact(nodes', heap')
  BY <1>2, <1>3, <1>5, <1>9, RearrangedInv
<1>11. HeapExact'
  BY <1>2, <1>10 DEF HeapExact, Owns, Exact
<1> QED
  BY <1>2, <1>10, <1>11 DEF IInv, Unique, Named, Latest

\* The row's old string is freed; the row no longer owns it.
LEMMA SystemInformationIInv ==
    ASSUME IInv, TypeOK', SystemInformation
    PROVE  IInv'
<1>1. /\ pc = "receive" /\ nodes' = nodes /\ told' = told
      /\ heap \in [Block -> Mac \cup {None}]
      /\ Head(mbuf).self_mac \in Mac
  BY TailType, MessageKind DEF SystemInformation, IInv, TypeOK
<1>2. Exact(nodes, heap)
  BY <1>1, ExactRows DEF IInv
<1>3. CASE UNCHANGED <<heap, slot, pc>>
  BY <1>1, <1>3 DEF IInv, HeapExact, Owns, Unique, Named, Latest
<1>4. ASSUME NEW i \in Slot,
             Holds(nodes[i], Head(mbuf).self_mac),
             heap' = HeapWithout({nodes[i].system_string}),
             slot' = i,
             pc' = "print"
      PROVE  IInv'
  <2>1. \A b \in Block : heap'[b] = IF b = nodes[i].system_string THEN None
                                    ELSE heap[b]
    BY <1>4 DEF HeapWithout
  <2>2. \A k \in Slot, b \in Block :
           Owns(k, b)' <=> nodes[k].system_string = b /\ k # i
    BY <1>1, <1>4 DEF Owns
  <2>3. ASSUME NEW b \in Block
        PROVE  heap'[b] # None <=> \E k \in Slot : Owns(k, b)'
    <3>1. CASE b = nodes[i].system_string
      BY <1>2, <2>1, <2>2, <3>1 DEF Exact
    <3>2. CASE b # nodes[i].system_string
      BY <1>2, <2>1, <2>2, <3>2 DEF Exact
    <3> QED
      BY <3>1, <3>2
  <2>4. \A k, l \in Slot, b \in Block : Owns(k, b)' /\ Owns(l, b)' => k = l
    BY <1>2, <2>2 DEF Exact
  <2>5. HeapExact'
    BY <2>3, <2>4 DEF HeapExact
  <2>6. nodes'[slot'].self_mac \in Mac
    BY <1>1, <1>4 DEF Holds
  <2> QED
    BY <1>1, <2>5, <2>6 DEF IInv, Unique, Named, Latest
<1> QED
  BY <1>3, <1>4 DEF SystemInformation

\* The row gets a block that was free, or none.
LEMMA PrintSystemIInv ==
    ASSUME IInv, TypeOK', PrintSystem
    PROVE  IInv'
<1>1. /\ pc = "print" /\ pc' = "receive" /\ told' = told /\ slot \in Slot
      /\ nodes \in Table
      /\ heap \in [Block -> Mac \cup {None}]
      /\ nodes[slot].self_mac \in Mac
      /\ None \notin Mac /\ None \notin Block
  BY HttpNodeServerAssumption DEF PrintSystem, IInv, TypeOK, Table
<1>2. PICK s \in Block \cup {None} :
        /\ nodes' = [nodes EXCEPT ![slot].system_string = s]
        /\ s \in Block => heap[s] = None
        /\ heap' = IF s = None THEN heap
                   ELSE [heap EXCEPT ![s] = nodes[slot].self_mac]
  BY <1>1 DEF PrintSystem
<1>3. /\ nodes'[slot].system_string = s
      /\ \A i \in Slot \ {slot} : nodes'[i] = nodes[i]
      /\ \A i \in Slot : /\ nodes'[i].self_mac = nodes[i].self_mac
                         /\ nodes'[i].level = nodes[i].level
                         /\ nodes'[i].entry_tick = nodes[i].entry_tick
  BY <1>1, <1>2 DEF Table, Row
<1>4. \A b \in Block : heap'[b] = IF b = s THEN nodes[slot].self_mac ELSE heap[b]
  BY <1>1, <1>2
<1>5. \A i \in Slot, b \in Block :
         /\ Owns(i, b) <=> i # slot /\ nodes[i].system_string = b
         /\ Owns(i, b)' <=> nodes'[i].system_string = b
  BY <1>1 DEF Owns
<1>6. HeapExact'
  <2>1. ASSUME NEW b \in Block
        PROVE  heap'[b] # None <=> \E i \in Slot : Owns(i, b)'
    <3>1. CASE b = s
      BY <1>1, <1>3, <1>4, <1>5, <3>1
    <3>2. CASE b # s
      <4>1. heap[b] # None <=> \E i \in Slot : Owns(i, b)
        BY DEF IInv, HeapExact
      <4>2. \A i \in Slot : Owns(i, b) <=> Owns(i, b)'
        BY <1>3, <1>5, <3>2
      <4> QED
        BY <1>4, <3>2, <4>1, <4>2
    <3> QED
      BY <3>1, <3>2
  <2>2. ASSUME NEW i \in Slot, NEW j \in Slot, NEW b \in Block,
               Owns(i, b)', Owns(j, b)'
        PROVE  i = j
    <3>1. CASE b = s
      <4>1. \A k \in Slot : ~Owns(k, b)
        BY <1>2, <3>1 DEF IInv, HeapExact
      <4> QED
        BY <1>3, <1>5, <2>2, <4>1
    <3>2. CASE b # s
      <4>1. Owns(i, b) /\ Owns(j, b)
        BY <1>3, <1>5, <2>2, <3>2
      <4> QED
        BY <4>1 DEF IInv, HeapExact
    <3> QED
      BY <3>1, <3>2
  <2> QED
    BY <2>1, <2>2 DEF HeapExact
<1>7. Unique(nodes') /\ Named(nodes') /\ Latest(nodes', told')
  BY <1>1, <1>3 DEF IInv, Unique, Named, Latest, Live, Holds
<1> QED
  BY <1>1, <1>6, <1>7 DEF IInv, Unique, Named, Latest

\* A printed string changes only the string of its row.
LEMMA PrintSystemFields ==
    ASSUME IInv, PrintSystem
    PROVE  \A i \in Slot : /\ nodes'[i].self_mac = nodes[i].self_mac
                           /\ nodes'[i].level = nodes[i].level
                           /\ nodes'[i].entry_tick = nodes[i].entry_tick
<1>1. nodes \in Table /\ slot \in Slot
  BY DEF IInv, TypeOK, Table
<1>2. PICK s : nodes' = [nodes EXCEPT ![slot].system_string = s]
  BY DEF PrintSystem
<1> QED
  BY <1>1, <1>2 DEF Table, Row

\* Every action keeps the invariant.
LEMMA StepIInv == IInv /\ [Next]_vars => IInv'
<1> SUFFICES ASSUME IInv, [Next]_vars PROVE IInv'
  OBVIOUS
<1>1. TypeOK'
  BY StepTypeOK DEF IInv
<1>2. CASE NodeInformation
  BY <1>1, <1>2, NodeInformationIInv
<1>3. CASE SystemInformation
  BY <1>1, <1>3, SystemInformationIInv
<1>4. CASE PrintSystem
  BY <1>1, <1>4, PrintSystemIInv
<1>5. CASE ReceiveOversize
  BY <1>1, <1>5
  DEF ReceiveOversize, IInv, HeapExact, Owns, Unique, Named, Latest
<1>6. CASE UNCHANGED serverVars
  BY <1>1, <1>6
  DEF serverVars, IInv, HeapExact, Owns, Unique, Named, Latest
<1>7. \/ NodeInformation \/ SystemInformation \/ PrintSystem
      \/ ReceiveOversize \/ UNCHANGED serverVars
  BY DEF Next, vars, serverVars, webUnchanged, JsonToRoot,
         PrintSystemInfoTimer, Elapse, RootGet, SendRow, SystemGet, SendLine,
         EndResponse
<1> QED
  BY <1>2, <1>3, <1>4, <1>5, <1>6, <1>7

\* UniqueMac, HeapExact and RowsLatest: the handler never gives a node two
\* rows, never leaks, shares or double-frees a system string, and every live
\* row shows its node's last handled report, for every size of the table.
THEOREM TableCorrect == Spec => [](UniqueMac /\ HeapExact /\ RowsLatest)
BY InitIInv, StepIInv, IInvImplies, PTL DEF Spec

-----------------------------------------------------------------------------
(* The tick counter.                                                        *)

\* A live row carries the tick count of the last report of its node.
Stamped(t, h) ==
    \A i \in Slot : Live(t[i]) => t[i].entry_tick = h[t[i].self_mac] % TICKS

TickInv ==
    /\ IInv
    /\ Stamped(nodes, heard)
    /\ \A m \in Mac : heard[m] <= now

\* The unsigned difference of two tick counts is at most the time between
\* them, however often the counter wrapped.
LEMMA TickDifference ==
    ASSUME NEW a \in Nat, NEW b \in Nat, b <= a
    PROVE  ((a % TICKS) - (b % TICKS)) % TICKS <= a - b
<1>1. TICKS \in Nat \ {0}
  BY NodeTableAssumption
<1> QED
  BY <1>1

\* Recording a report stamps its row, if it has one, with the present tick.
LEMMA RecordedStamped ==
    ASSUME NEW t \in Table, NEW msg \in NodeInfo, heard \in [Mac -> Nat],
           Named(t), Stamped(t, heard)
    PROVE  /\ Stamped(Recorded(t, msg), [heard EXCEPT ![msg.self_mac] = now])
           /\ \A i \in Slot : Holds(t[i], msg.self_mac) =>
                 /\ Recorded(t, msg)[i].entry_tick = Tick
                 /\ Recorded(t, msg)[i].self_mac = msg.self_mac
           /\ \A i \in Slot : Live(t[i]) /\ ~Holds(t[i], msg.self_mac) =>
                 Recorded(t, msg)[i] = t[i]
<1> DEFINE h == [heard EXCEPT ![msg.self_mac] = now]
<1>1. /\ h[msg.self_mac] = now
      /\ \A m \in Mac \ {msg.self_mac} : h[m] = heard[m]
  BY DEF NodeInfo
<1> HIDE DEF h
<1>2. CASE Known(t, msg.self_mac)
  <2> DEFINE r == Refreshed(t, msg)
  <2>1. Recorded(t, msg) = r
    BY <1>2 DEF Recorded
  <2>2. \A i \in Slot :
           /\ Holds(t[i], msg.self_mac) => /\ r[i].entry_tick = Tick
                                           /\ r[i].self_mac = msg.self_mac
           /\ ~Holds(t[i], msg.self_mac) => r[i] = t[i]
    BY DEF Refreshed, Table, Row, Holds
  <2> HIDE DEF r
  <2>3. Stamped(r, h)
    BY <1>1, <2>2 DEF Stamped, Named, Holds, Tick
  <2> QED
    BY <2>1, <2>2, <2>3 DEF h
<1>3. CASE ~Known(t, msg.self_mac)
  <2> DEFINE r == Inserted(t, msg)
  <2>1. Recorded(t, msg) = r
    BY <1>3 DEF Recorded
  <2>2. \A i \in Slot :
           /\ FirstFree(t, i) => /\ r[i].entry_tick = Tick
                                 /\ r[i].self_mac = msg.self_mac
           /\ ~FirstFree(t, i) => r[i] = t[i]
    BY DEF Inserted, Table, Row
  <2>3. \A i \in Slot : /\ FirstFree(t, i) => ~Live(t[i])
                        /\ ~Holds(t[i], msg.self_mac)
    BY <1>3 DEF FirstFree, Known
  <2> HIDE DEF r
  <2>4. Stamped(r, h)
    BY <1>1, <2>2, <2>3 DEF Stamped, Named, Holds, Tick
  <2> QED
    BY <2>1, <2>2, <2>3, <2>4 DEF h
<1> QED
  BY <1>2, <1>3

\* Sweep and sort keep the stamps.
LEMMA SettledStamped ==
    ASSUME NEW t \in Table, NEW h, Stamped(t, h), NEW p \in Sorting(Swept(t))
    PROVE  Stamped(Rearranged(Swept(t), p), h)
<1>1. Stamped(Swept(t), h)
  BY SweptFields DEF Stamped
<1> QED
  BY <1>1 DEF Stamped, Rearranged, Sorting, Shuffles

\* A row that is live and not gone is in the table that sweep and sort leave.
LEMMA Survives ==
    ASSUME NEW t \in Table, NEW p \in Sorting(Swept(t)), NEW i \in Slot,
           NEW m, Holds(t[i], m), ~Gone(t[i], Tick)
    PROVE  Known(Rearranged(Swept(t), p), m)
<1>1. Holds(Swept(t)[i], m)
  BY SweptFields
<1>2. PICK k \in Slot : p[k] = i
  BY DEF Sorting, Shuffles
<1>3. Rearranged(Swept(t), p)[k] = Swept(t)[i]
  BY <1>2 DEF Rearranged
<1> QED
  BY <1>1, <1>3 DEF Known

\* The facts about a handled report that the two lemmas below need.
LEMMA NodeInformationStep ==
    ASSUME IInv, NodeInformation
    PROVE  LET msg == Head(mbuf)
               rec == Recorded(nodes, msg)
           IN  /\ msg \in NodeInfo
               /\ nodes \in Table /\ rec \in Table
               /\ heard \in [Mac -> Nat] /\ now \in Nat /\ now' = now
               /\ heard' = [heard EXCEPT ![msg.self_mac] = now]
               /\ \E p \in Sorting(Swept(rec)) :
                     nodes' = Rearranged(Swept(rec), p)
<1>1. Head(mbuf) \in NodeInfo
  BY TailType, MessageKind DEF NodeInformation, IInv, TypeOK
<1>2. nodes \in Table /\ now \in Nat /\ heard \in [Mac -> Nat]
  BY DEF IInv, TypeOK, Table
<1>3. Recorded(nodes, Head(mbuf)) \in Table
  BY <1>1, <1>2, RecordedType
<1> QED
  BY <1>1, <1>2, <1>3 DEF NodeInformation

LEMMA InitTickInv == Init => TickInv
<1> SUFFICES ASSUME Init PROVE TickInv
  OBVIOUS
<1>1. \A i \in Slot : ~Live(nodes[i])
  BY DEF Init, FreeRow, Live
<1>2. \A m \in Mac : heard[m] <= now
  BY HttpNodeServerAssumption DEF Init
<1> QED
  BY <1>1, <1>2, InitIInv DEF TickInv, Stamped

LEMMA StepTickInv == TickInv /\ [Next]_vars => TickInv'
<1> SUFFICES ASSUME TickInv, [Next]_vars PROVE TickInv'
  OBVIOUS
<1>1. IInv'
  BY StepIInv DEF TickInv
<1>2. CASE NodeInformation
  <2> DEFINE msg == Head(mbuf)
             rec == Recorded(nodes, msg)
  <2>1. /\ msg \in NodeInfo
        /\ nodes \in Table /\ rec \in Table
        /\ heard \in [Mac -> Nat] /\ now \in Nat /\ now' = now
        /\ heard' = [heard EXCEPT ![msg.self_mac] = now]
    BY <1>2, NodeInformationStep DEF TickInv
  <2>2. PICK p \in Sorting(Swept(rec)) : nodes' = Rearranged(Swept(rec), p)
    BY <1>2, NodeInformationStep DEF TickInv
  <2>3. Stamped(rec, heard')
    BY <2>1, RecordedStamped DEF TickInv, IInv
  <2> HIDE DEF rec, msg
  <2>4. Stamped(nodes', heard')
    BY <2>1, <2>2, <2>3, SettledStamped
  <2>5. \A m \in Mac : heard'[m] <= now'
    BY <2>1 DEF TickInv, NodeInfo
  <2> QED
    BY <1>1, <2>4, <2>5 DEF TickInv, Stamped
<1>3. CASE PrintSystem
  <2>1. /\ heard' = heard /\ now' = now
        /\ \A i \in Slot : /\ nodes'[i].self_mac = nodes[i].self_mac
                           /\ nodes'[i].entry_tick = nodes[i].entry_tick
    BY <1>3, PrintSystemFields DEF TickInv, PrintSystem
  <2> QED
    BY <1>1, <2>1 DEF TickInv, Stamped, Live
<1>4. CASE UNCHANGED <<nodes, heard>> /\ (now' = now \/ now' = now + 1)
  <2>1. now \in Nat /\ heard \in [Mac -> Nat]
    BY DEF TickInv, IInv, TypeOK
  <2>2. \A m \in Mac : heard'[m] <= now'
    BY <1>4, <2>1 DEF TickInv
  <2> QED
    BY <1>1, <1>4, <2>2 DEF TickInv, Stamped
<1>5. \/ NodeInformation \/ PrintSystem
      \/ UNCHANGED <<nodes, heard>> /\ (now' = now \/ now' = now + 1)
  BY DEF Next, vars, serverVars, webUnchanged, JsonToRoot,
         PrintSystemInfoTimer, Elapse, ReceiveOversize, SystemInformation,
         RootGet, SendRow, SystemGet, SendLine, EndResponse
<1> QED
  BY <1>2, <1>3, <1>4, <1>5

\* EvictOnlySilent: whatever the tick counter's width and however often it
\* wrapped, a node leaves the table only after more than EXPIRE ticks without
\* a report, or with a report handled at tick 0.
THEOREM EvictionCorrect == Spec => EvictOnlySilent
<1>1. ASSUME TickInv, [Next]_vars, NEW m \in Mac,
             Known(nodes, m), ~Known(nodes', m), Tick # 0
      PROVE  now - heard[m] > EXPIRE
  <2>1. CASE NodeInformation
    <3> DEFINE msg == Head(mbuf)
               rec == Recorded(nodes, msg)
    <3>1. /\ msg \in NodeInfo
          /\ nodes \in Table /\ rec \in Table
          /\ heard \in [Mac -> Nat] /\ now \in Nat
      BY <2>1, NodeInformationStep, <1>1 DEF TickInv
    <3>2. PICK p \in Sorting(Swept(rec)) : nodes' = Rearranged(Swept(rec), p)
      BY <2>1, NodeInformationStep, <1>1 DEF TickInv
    <3>3. PICK i \in Slot : Holds(nodes[i], m)
      BY <1>1 DEF Known
    <3>4. CASE m = msg.self_mac
      <4>1. rec[i].entry_tick = Tick /\ rec[i].self_mac = m
        BY <3>1, <3>3, <3>4, RecordedStamped, <1>1 DEF TickInv, IInv
      <4>2. Tick - Tick = 0 /\ 0 % TICKS = 0 /\ EXPIRE \in Nat
        BY <3>1, TickType, NodeTableAssumption
      <4> HIDE DEF rec, msg
      <4>3. Holds(rec[i], m) /\ ~Gone(rec[i], Tick)
        BY <1>1, <4>1, <4>2 DEF Holds, Live, Gone
      <4> QED
        BY <3>1, <3>2, <4>3, <1>1, Survives
    <3>5. CASE m # msg.self_mac
      <4>1. rec[i] = nodes[i]
        BY <3>1, <3>3, <3>5, RecordedStamped, <1>1 DEF TickInv, IInv, Holds
      <4> HIDE DEF rec, msg
      <4>2. Gone(nodes[i], Tick)
        BY <1>1, <3>1, <3>2, <3>3, <4>1, Survives
      <4>3. nodes[i].entry_tick = heard[m] % TICKS
        BY <1>1, <3>3 DEF TickInv, Stamped, Holds
      <4>4. ((now % TICKS) - (heard[m] % TICKS)) % TICKS > EXPIRE
        BY <4>2, <4>3 DEF Gone, Tick
      <4>5. ((now % TICKS) - (heard[m] % TICKS)) % TICKS <= now - heard[m]
        BY <3>1, TickDifference, <1>1 DEF TickInv
      <4>6. /\ heard[m] \in Nat /\ EXPIRE \in Nat
            /\ ((now % TICKS) - (heard[m] % TICKS)) % TICKS \in Int
        BY <3>1, NodeTableAssumption
      <4> QED
        BY <3>1, <4>4, <4>5, <4>6
    <3> QED
      BY <3>4, <3>5
  <2>2. CASE PrintSystem
    <3>1. \A i \in Slot : /\ nodes'[i].self_mac = nodes[i].self_mac
                          /\ nodes'[i].entry_tick = nodes[i].entry_tick
      BY <1>1, <2>2, PrintSystemFields DEF TickInv
    <3> QED
      BY <1>1, <3>1 DEF Known, Holds, Live
  <2>3. CASE UNCHANGED nodes
    BY <1>1, <2>3 DEF Known
  <2>4. NodeInformation \/ PrintSystem \/ UNCHANGED nodes
    BY <1>1 DEF Next, vars, serverVars, webUnchanged, JsonToRoot,
           PrintSystemInfoTimer, Elapse, ReceiveOversize, SystemInformation,
           RootGet, SendRow, SystemGet, SendLine, EndResponse
  <2> QED
    BY <2>1, <2>2, <2>3, <2>4
<1>2. TickInv /\ [Next]_vars => [\A m \in Mac : EvictsSilent(m)]_vars
  BY <1>1 DEF EvictsSilent
<1> QED
  BY <1>2, InitTickInv, StepTickInv, PTL DEF Spec, EvictOnlySilent

\* The difference of two tick counts taken less than a turn of the counter
\* apart is the time between them.
LEMMA TickDistance ==
    ASSUME NEW a \in Nat, NEW b \in Nat, b <= a, a - b < TICKS
    PROVE  ((a % TICKS) - (b % TICKS)) % TICKS = a - b
<1> DEFINE p == a \div TICKS
           q == b \div TICKS
           x == a % TICKS
           y == b % TICKS
<1>1. TICKS \in Nat \ {0}
  BY NodeTableAssumption
<1>2. p \in Int /\ q \in Int /\ x \in 0 .. TICKS - 1 /\ y \in 0 .. TICKS - 1
  BY <1>1
<1>3. x = a - TICKS * p
  BY <1>1
<1>4. y = b - TICKS * q
  BY <1>1
<1> HIDE DEF p, q, x, y
<1>5. a - b = TICKS * (p - q) + (x - y)
  BY <1>1, <1>2, <1>3, <1>4
<1>6. CASE p = q
  <2>1. a - b = x - y /\ x - y \in 0 .. TICKS - 1
    BY <1>1, <1>2, <1>5, <1>6
  <2>2. (x - y) % TICKS = x - y
    BY <1>1, <2>1
  <2> QED
    BY <2>1, <2>2 DEF x, y
<1>7. CASE p = q + 1
  <2>1. a - b = TICKS + (x - y)
    BY <1>1, <1>2, <1>5, <1>7
  <2>2. x - y < 0 /\ TICKS + (x - y) \in 0 .. TICKS - 1
    BY <1>1, <1>2, <2>1
  <2>3. (x - y) % TICKS = (x - y) + TICKS
    BY <1>1, <1>2, <2>2
  <2> QED
    BY <1>1, <1>2, <2>1, <2>3 DEF x, y
<1>8. CASE p > q + 1
  <2>1. TICKS * (p - q) >= TICKS * 2
    BY <1>1, <1>2, <1>8
  <2> QED
    BY <1>1, <1>2, <1>5, <2>1
<1>9. CASE p < q
  <2>1. TICKS * (p - q) <= -TICKS
    BY <1>1, <1>2, <1>9
  <2> QED
    BY <1>1, <1>2, <1>5, <2>1
<1> QED
  BY <1>2, <1>6, <1>7, <1>8, <1>9

\* No live row is a whole turn of the tick counter old.
Recent(t, h, time) ==
    \A i \in Slot : Live(t[i]) => time < h[t[i].self_mac] + TICKS

\* Recording, sweep and sort keep that; afterwards no row is stale.
LEMMA NodeInformationRecent ==
    ASSUME TickInv, Recent(nodes, heard, now), NodeInformation
    PROVE  /\ Recent(nodes', heard', now')
           /\ \A m \in Mac : Known(nodes', m) => now - heard'[m] <= EXPIRE
<1> DEFINE msg == Head(mbuf)
           rec == Recorded(nodes, msg)
           h   == heard'
<1>1. /\ msg \in NodeInfo /\ msg.self_mac \in Mac
      /\ nodes \in Table /\ rec \in Table
      /\ heard \in [Mac -> Nat] /\ now \in Nat /\ now' = now
      /\ h = [heard EXCEPT ![msg.self_mac] = now]
  BY NodeInformationStep DEF TickInv, NodeInfo
<1>2. PICK p \in Sorting(Swept(rec)) : nodes' = Rearranged(Swept(rec), p)
  BY NodeInformationStep DEF TickInv
<1>3. /\ \A m \in Mac : h[m] \in Nat /\ heard[m] <= h[m] /\ h[m] <= now
      /\ h[msg.self_mac] = now
  BY <1>1 DEF TickInv
<1>4. /\ Unique(rec) /\ Named(rec) /\ Stamped(rec, h)
      /\ \A i \in Slot : Live(rec[i]) /\ rec[i].self_mac # msg.self_mac =>
            rec[i] = nodes[i]
  <2>1. told \in [Mac -> NodeInfo \cup {None}]
    BY DEF TickInv, IInv, TypeOK
  <2>2. Unique(rec) /\ Named(rec)
    BY <1>1, <2>1, RecordedInv DEF TickInv, IInv
  <2>3. Stamped(rec, h)
    BY <1>1, RecordedStamped DEF TickInv, IInv
  <2>4. \A i \in Slot : Live(rec[i]) /\ rec[i].self_mac # msg.self_mac =>
            rec[i] = nodes[i]
    BY <1>1, RefreshedFields, InsertedFields DEF Recorded, Holds
  <2> QED
    BY <2>2, <2>3, <2>4
<1> HIDE DEF rec, h, msg
<1>5. \A i \in Slot : Live(rec[i]) => now < h[rec[i].self_mac] + TICKS
  <2> SUFFICES ASSUME NEW i \in Slot, Live(rec[i])
               PROVE  now < h[rec[i].self_mac] + TICKS
    OBVIOUS
  <2>1. CASE rec[i].self_mac = msg.self_mac
    BY <1>1, <1>3, <2>1, NodeTableAssumption
  <2>2. CASE rec[i].self_mac # msg.self_mac
    <3>1. rec[i] = nodes[i]
      BY <1>4, <2>2
    <3>2. now < heard[rec[i].self_mac] + TICKS
      BY <3>1 DEF Recent
    <3>3. rec[i].self_mac \in Mac
      BY <1>4 DEF Named
    <3>4. TICKS \in Nat /\ heard[rec[i].self_mac] \in Nat
      BY <1>1, <3>3, NodeTableAssumption
    <3> QED
      BY <1>1, <1>3, <3>2, <3>3, <3>4
  <2> QED
    BY <2>1, <2>2
<1>6. \A i \in Slot : Live(Swept(rec)[i]) =>
         /\ Swept(rec)[i] = rec[i]
         /\ now - h[rec[i].self_mac] <= EXPIRE
  <2> SUFFICES ASSUME NEW i \in Slot, Live(Swept(rec)[i])
               PROVE  /\ Swept(rec)[i] = rec[i]
                      /\ now - h[rec[i].self_mac] <= EXPIRE
    OBVIOUS
  <2>1. Swept(rec)[i] = rec[i] /\ ~Gone(rec[i], Tick) /\ Live(rec[i])
    BY <1>1, SweptFields
  <2> DEFINE s == h[rec[i].self_mac]
  <2>2. s \in Nat /\ s <= now /\ now < s + TICKS
    BY <1>3, <1>4, <1>5, <2>1 DEF Named
  <2>3. rec[i].entry_tick = s % TICKS
    BY <1>4, <2>1 DEF Stamped
  <2> HIDE DEF s
  <2>a. now \in Nat /\ s \in Nat /\ s <= now /\ now - s < TICKS
    BY <1>1, <2>2, NodeTableAssumption
  <2>4. ((now % TICKS) - (s % TICKS)) % TICKS = now - s
    BY <2>a, TickDistance
  <2>5. ~(now - s > EXPIRE)
    BY <2>1, <2>3, <2>4 DEF Gone, Tick
  <2> QED
    BY <1>1, <2>1, <2>2, <2>5, NodeTableAssumption DEF s
<1>7. \A i \in Slot : p[i] \in Slot /\ nodes'[i] = Swept(rec)[p[i]]
  BY <1>2 DEF Rearranged, Sorting, Shuffles
<1>8. Recent(nodes', h, now)
  BY <1>5, <1>6, <1>7 DEF Recent
<1>9. \A m \in Mac : Known(nodes', m) => now - h[m] <= EXPIRE
  BY <1>6, <1>7 DEF Known, Holds
<1> QED
  BY <1>1, <1>8, <1>9 DEF h

\* Every other action leaves the rows' ages below a turn as well.
LEMMA StepRecent ==
    TickInv /\ Recent(nodes, heard, now) /\ [Next]_vars
        => Recent(nodes', heard', now')
<1> SUFFICES ASSUME TickInv, Recent(nodes, heard, now), [Next]_vars
             PROVE  Recent(nodes', heard', now')
  OBVIOUS
<1>1. CASE NodeInformation
  BY <1>1, NodeInformationRecent
<1>2. CASE PrintSystem
  <2>1. \A i \in Slot : /\ nodes'[i].self_mac = nodes[i].self_mac
                        /\ nodes'[i].entry_tick = nodes[i].entry_tick
    BY <1>2, PrintSystemFields DEF TickInv
  <2> QED
    BY <1>2, <2>1 DEF PrintSystem, Recent, Live
<1>3. CASE Elapse
  BY <1>3 DEF Elapse, serverVars, Recent
<1>4. CASE UNCHANGED <<nodes, heard, now>>
  BY <1>4 DEF Recent
<1>5. NodeInformation \/ PrintSystem \/ Elapse \/ UNCHANGED <<nodes, heard, now>>
  BY DEF Next, vars, serverVars, webUnchanged, JsonToRoot,
         PrintSystemInfoTimer, ReceiveOversize, SystemInformation,
         RootGet, SendRow, SystemGet, SendLine, EndResponse
<1> QED
  BY <1>1, <1>2, <1>3, <1>4, <1>5

\* StaleGone: after a handled report no row of a node silent for more than
\* EXPIRE ticks is left, also across a wrap of the tick counter.
THEOREM SweepCorrect == Spec => StaleGone
<1>1. Init => Recent(nodes, heard, now)
  BY DEF Init, Recent, FreeRow, Live
<1>2. TickInv /\ Recent(nodes, heard, now) /\ [Next]_vars => [SweepsStale]_vars
  <2> SUFFICES ASSUME TickInv, Recent(nodes, heard, now), [Next]_vars,
                      heard' # heard
               PROVE  \A m \in Mac : Known(nodes', m) => now - heard'[m] <= EXPIRE
    BY DEF SweepsStale
  <2>1. NodeInformation
    BY DEF Next, vars, serverVars, webUnchanged, JsonToRoot,
           PrintSystemInfoTimer, Elapse, ReceiveOversize, SystemInformation,
           PrintSystem, RootGet, SendRow, SystemGet, SendLine, EndResponse
  <2> QED
    BY <2>1, NodeInformationRecent
<1>3. TickInv /\ Recent(nodes, heard, now) /\ [Next]_vars
         => Recent(nodes, heard, now)'
  BY StepRecent
<1> QED
  BY <1>1, <1>2, <1>3, InitTickInv, StepTickInv, PTL DEF Spec, StaleGone

-----------------------------------------------------------------------------
(* Until the tick counter has turned no report is stamped with the mark of *)
(* a free row, and the present tick is the time.                           *)

NotTurned == now \in 1 .. TICKS - 1

LEMMA TickIsTime == ASSUME NotTurned PROVE Tick = now /\ Tick # 0
BY NodeTableAssumption DEF NotTurned, Tick

\* A free row has no string; nor has any other row the string of another node.
Labelled(t, h) ==
    \A i \in Slot :
        /\ ~Live(t[i]) => t[i].system_string = None
        /\ \A b \in Block : t[i].system_string = b => h[b] = t[i].self_mac

\* The same while the string of a row is being replaced.
StringInv ==
    /\ pc = "print" => Live(nodes[slot])
    /\ \A i \in Slot :
          /\ ~Live(nodes[i]) => nodes[i].system_string = None
          /\ \A b \in Block : Owns(i, b) => heap[b] = nodes[i].self_mac

\* A handled report moves no string to another node: a row is only given to a
\* node when it has no string, and a freed block has no row.
LEMMA NodeInformationString ==
    ASSUME IInv, NotTurned, StringInv, NodeInformation
    PROVE  StringInv'
<1> DEFINE msg == Head(mbuf)
           rec == Recorded(nodes, msg)
           h   == HeapWithout(SweptBlocks(rec))
<1>1. msg \in NodeInfo /\ nodes \in Table /\ rec \in Table
  BY NodeInformationStep
<1>2. pc = "receive" /\ pc' = "receive" /\ heap' = h
  BY DEF NodeInformation
<1>3. PICK p \in Sorting(Swept(rec)) : nodes' = Rearranged(Swept(rec), p)
  BY NodeInformationStep
<1>4. None \notin Block
  BY HttpNodeServerAssumption
<1>5. Labelled(nodes, heap)
  BY <1>2 DEF StringInv, Owns, Labelled
<1>6. Labelled(rec, heap)
  <2>1. Tick # 0
    BY TickIsTime
  <2>2. CASE Known(nodes, msg.self_mac)
    <3>1. \A i \in Slot : /\ rec[i].self_mac = nodes[i].self_mac
                          /\ rec[i].system_string = nodes[i].system_string
                          /\ Live(nodes[i]) => Live(rec[i])
      BY <1>1, <2>1, <2>2 DEF Recorded, Refreshed, Table, Row, Live
    <3> HIDE DEF rec
    <3> QED
      BY <1>5, <3>1 DEF Labelled
  <2>3. CASE ~Known(nodes, msg.self_mac)
    <3>1. \A i \in Slot :
             /\ rec[i].system_string = nodes[i].system_string
             /\ FirstFree(nodes, i) => ~Live(nodes[i])
             /\ ~FirstFree(nodes, i) => rec[i] = nodes[i]
      BY <1>1, <2>3, InsertedFields DEF Recorded, FirstFree
    <3> HIDE DEF rec
    <3> QED
      BY <1>4, <1>5, <3>1 DEF Labelled
  <2> QED
    BY <2>2, <2>3
<1>7. Exact(rec, heap)
  <2>1. Exact(nodes, heap)
    BY <1>2, ExactRows DEF IInv
  <2>2. told \in [Mac -> NodeInfo \cup {None}]
    BY DEF IInv, TypeOK
  <2>3. \A i \in Slot : rec[i].system_string = nodes[i].system_string
    BY <1>1, <2>2, RecordedInv DEF IInv
  <2> HIDE DEF rec
  <2> QED
    BY <2>1, <2>3 DEF Exact
<1> HIDE DEF rec
<1>8. Labelled(Swept(rec), h)
  <2>1. \A i \in Slot : /\ Gone(rec[i], Tick) => Swept(rec)[i].system_string = None
                        /\ ~Gone(rec[i], Tick) => Swept(rec)[i] = rec[i]
    BY <1>1, SweptFields
  <2>2. \A b \in Block : h[b] = IF b \in SweptBlocks(rec) THEN None ELSE heap[b]
    BY DEF HeapWithout
  <2> HIDE DEF h
  <2>3. ASSUME NEW i \in Slot, NEW b \in Block, Swept(rec)[i].system_string = b
        PROVE  ~Gone(rec[i], Tick) /\ b \notin SweptBlocks(rec)
    BY <1>4, <1>7, <2>1, <2>3 DEF Exact, SweptBlocks
  <2> QED
    BY <1>6, <2>1, <2>2, <2>3 DEF Labelled
<1>9. Labelled(nodes', h)
  <2>1. \A i \in Slot : p[i] \in Slot /\ nodes'[i] = Swept(rec)[p[i]]
    BY <1>3 DEF Rearranged, Sorting, Shuffles
  <2> HIDE DEF h
  <2> QED
    BY <1>8, <2>1 DEF Labelled
<1> QED
  BY <1>2, <1>9 DEF StringInv, Labelled, Owns

\* The string that is freed belongs to no other row.
LEMMA SystemInformationString ==
    ASSUME IInv, StringInv, SystemInformation
    PROVE  StringInv'
<1>1. pc = "receive" /\ nodes' = nodes
  BY DEF SystemInformation
<1>2. Exact(nodes, heap)
  BY <1>1, ExactRows DEF IInv
<1>3. CASE UNCHANGED <<heap, slot, pc>>
  BY <1>1, <1>3 DEF StringInv, Owns
<1>4. ASSUME NEW i \in Slot,
             Holds(nodes[i], Head(mbuf).self_mac),
             heap' = HeapWithout({nodes[i].system_string}),
             slot' = i,
             pc' = "print"
      PROVE  StringInv'
  <2>1. \A b \in Block : heap'[b] = IF b = nodes[i].system_string THEN None
                                    ELSE heap[b]
    BY <1>4 DEF HeapWithout
  <2>2. ASSUME NEW k \in Slot, NEW b \in Block, Owns(k, b)'
        PROVE  heap'[b] = nodes'[k].self_mac
    <3>1. nodes[k].system_string = b /\ k # i
      BY <1>1, <1>4, <2>2 DEF Owns
    <3>2. b # nodes[i].system_string
      BY <1>2, <3>1 DEF Exact
    <3>3. heap[b] = nodes[k].self_mac
      BY <1>1, <3>1 DEF StringInv, Owns
    <3> QED
      BY <1>1, <2>1, <3>2, <3>3
  <2> QED
    BY <1>1, <1>4, <2>2 DEF StringInv, Holds
<1> QED
  BY <1>3, <1>4 DEF SystemInformation

\* The new string is that of the row's node and in a block nobody owned.
LEMMA PrintSystemString ==
    ASSUME IInv, StringInv, PrintSystem
    PROVE  StringInv'
<1>1. /\ pc = "print" /\ pc' = "receive" /\ slot \in Slot
      /\ nodes \in Table /\ heap \in [Block -> Mac \cup {None}]
      /\ None \notin Block
  BY HttpNodeServerAssumption DEF PrintSystem, IInv, TypeOK, Table
<1>2. PICK s \in Block \cup {None} :
        /\ nodes' = [nodes EXCEPT ![slot].system_string = s]
        /\ s \in Block => heap[s] = None
        /\ heap' = IF s = None THEN heap
                   ELSE [heap EXCEPT ![s] = nodes[slot].self_mac]
  BY <1>1 DEF PrintSystem
<1>3. /\ nodes'[slot].system_string = s
      /\ \A i \in Slot \ {slot} : nodes'[i] = nodes[i]
      /\ \A i \in Slot : /\ nodes'[i].self_mac = nodes[i].self_mac
                         /\ nodes'[i].entry_tick = nodes[i].entry_tick
  BY <1>1, <1>2 DEF Table, Row
<1>4. \A b \in Block : heap'[b] = IF b = s THEN nodes[slot].self_mac ELSE heap[b]
  BY <1>1, <1>2
<1>5. ASSUME NEW i \in Slot, NEW b \in Block, Owns(i, b)'
      PROVE  heap'[b] = nodes'[i].self_mac
  <2>1. nodes'[i].system_string = b
    BY <1>5 DEF Owns
  <2>2. CASE i = slot
    BY <1>3, <1>4, <2>1, <2>2
  <2>3. CASE i # slot
    <3>1. Owns(i, b)
      BY <1>3, <2>1, <2>3 DEF Owns
    <3>2. heap[b] = nodes[i].self_mac
      BY <3>1 DEF StringInv
    <3>3. b # s
      BY <1>2, <3>1 DEF IInv, HeapExact
    <3> QED
      BY <1>3, <1>4, <3>2, <3>3
  <2> QED
    BY <2>2, <2>3
<1>6. ASSUME NEW i \in Slot, ~Live(nodes'[i]) PROVE nodes'[i].system_string = None
  <2>1. ~Live(nodes[i])
    BY <1>3, <1>6 DEF Live
  <2>2. i # slot
    BY <1>1, <2>1 DEF StringInv
  <2> QED
    BY <1>3, <2>1, <2>2 DEF StringInv
<1> QED
  BY <1>1, <1>5, <1>6 DEF StringInv

\* Every action keeps the strings with their nodes.
LEMMA StepString ==
    IInv /\ NotTurned /\ StringInv /\ [Next]_vars => StringInv'
<1> SUFFICES ASSUME IInv, NotTurned, StringInv, [Next]_vars PROVE StringInv'
  OBVIOUS
<1>1. CASE NodeInformation
  BY <1>1, NodeInformationString
<1>2. CASE SystemInformation
  BY <1>2, SystemInformationString
<1>3. CASE PrintSystem
  BY <1>3, PrintSystemString
<1>4. CASE ReceiveOversize
  BY <1>4 DEF ReceiveOversize, StringInv, Owns
<1>5. CASE UNCHANGED serverVars
  BY <1>5 DEF serverVars, StringInv, Owns
<1>6. \/ NodeInformation \/ SystemInformation \/ PrintSystem
      \/ ReceiveOversize \/ UNCHANGED serverVars
  BY DEF Next, vars, serverVars, webUnchanged, JsonToRoot,
         PrintSystemInfoTimer, Elapse, RootGet, SendRow, SystemGet, SendLine,
         EndResponse
<1> QED
  BY <1>1, <1>2, <1>3, <1>4, <1>5, <1>6

\* StringOwner: as long as the tick counter has not turned (and did not stand
\* at 0, the mark of a free row, when the table was set up) the string of a
\* live row describes the node of that row, through every insertion into a row
\* that was given up, every sort and every string printed in between.  After a
\* turn a report handled at tick 0 gives its row up with the string in it.
THEOREM StringCorrect == Spec /\ []NotTurned => []StringOwner
<1>1. Init => StringInv
  <2> SUFFICES ASSUME Init PROVE StringInv
    OBVIOUS
  <2>1. pc = "receive" /\ \A i \in Slot : nodes[i].system_string = None
    BY DEF Init, FreeRow
  <2> QED
    BY <2>1, HttpNodeServerAssumption DEF StringInv, Owns
<1>2. StringInv => StringOwner
  BY DEF StringInv, StringOwner
<1> QED
  BY <1>1, <1>2, InitIInv, StepIInv, StepString, PTL DEF Spec

-----------------------------------------------------------------------------
(* The page of all nodes.                                                   *)

Positions(m) == {k \in 1 .. Len(web.shown) : web.shown[k] = m}

\* Of the rows written so far, a quiet page shows each node that has one once
\* and no other.
PageInv ==
    web.req = "page" =>
        /\ web.at \in 1 .. NODE_SIZE + 1
        /\ web.quiet => \A m \in Mac :
              IF \E i \in Slot : i < web.at /\ Holds(nodes[i], m)
              THEN \E k : Positions(m) = {k}
              ELSE Positions(m) = {}

\* The next row.
LEMMA SendRowPage ==
    ASSUME IInv, PageInv, SendRow
    PROVE  PageInv'
<1> DEFINE at == web.at
           x  == nodes[at].self_mac
<1>1. /\ web \in Web /\ web.req = "page" /\ at \in Slot /\ nodes' = nodes
      /\ web' = [web EXCEPT !.at = @ + 1,
                            !.shown = IF Live(nodes[at]) THEN Append(@, x) ELSE @]
  BY DEF SendRow, IInv, TypeOK, webUnchanged, serverVars
<1>2. /\ web'.req = "page" /\ web'.quiet = web.quiet /\ web'.at = at + 1
      /\ web'.shown = IF Live(nodes[at]) THEN Append(web.shown, x) ELSE web.shown
      /\ web.shown \in Seq(Mac \cup {None})
  BY <1>1 DEF Web
<1>3. at + 1 \in 1 .. NODE_SIZE + 1 /\ at \in Int
  BY <1>1, NodeTableAssumption DEF Slot
<1>4. ASSUME web.quiet, NEW m \in Mac
      PROVE  IF \E i \in Slot : i < at + 1 /\ Holds(nodes[i], m)
             THEN \E k : Positions(m)' = {k}
             ELSE Positions(m)' = {}
  <2>1. IF \E i \in Slot : i < at /\ Holds(nodes[i], m)
        THEN \E k : Positions(m) = {k}
        ELSE Positions(m) = {}
    BY <1>1, <1>4 DEF PageInv
  <2>2. \A i \in Slot : i < at + 1 <=> i < at \/ i = at
    BY <1>3, NodeTableAssumption DEF Slot
  <2>3. CASE Live(nodes[at])
    <3>1. /\ Len(web.shown) \in Nat
          /\ Len(web'.shown) = Len(web.shown) + 1
          /\ \A k \in 1 .. Len(web.shown) : web'.shown[k] = web.shown[k]
          /\ web'.shown[Len(web.shown) + 1] = x
      BY <1>1, <1>2, <2>3 DEF IInv, Named
    <3>2. Positions(m)' = Positions(m) \cup
                          (IF x = m THEN {Len(web.shown) + 1} ELSE {})
      BY <3>1, SMTT(30) DEF Positions
    <3>3. CASE x = m
      <4>1. Holds(nodes[at], m)
        BY <2>3, <3>3 DEF Holds
      <4>2. \A i \in Slot : i < at => ~Holds(nodes[i], m)
        BY <1>1, <1>3, <2>3, <3>3, NodeTableAssumption DEF IInv, Unique, Slot
      <4>3. Positions(m) = {}
        BY <2>1, <4>2
      <4>4. Positions(m)' = {Len(web.shown) + 1}
        BY <3>2, <3>3, <4>3
      <4> QED
        BY <1>1, <2>2, <4>1, <4>4
    <3>4. CASE x # m
      <4>1. ~Holds(nodes[at], m)
        BY <3>4 DEF Holds
      <4>2. Positions(m)' = Positions(m)
        BY <3>2, <3>4
      <4> QED
        BY <2>1, <2>2, <4>1, <4>2
    <3> QED
      BY <3>3, <3>4
  <2>4. CASE ~Live(nodes[at])
    <3>1. Positions(m)' = Positions(m)
      BY <1>2, <2>4 DEF Positions
    <3>2. ~Holds(nodes[at], m)
      BY <2>4 DEF Holds
    <3> QED
      BY <2>1, <2>2, <3>1, <3>2
  <2> QED
    BY <2>3, <2>4
<1> QED
  BY <1>1, <1>2, <1>3, <1>4 DEF PageInv

\* Every action keeps that: the table is only written when the page is no
\* longer quiet.
LEMMA StepPage == IInv /\ PageInv /\ [Next]_vars => PageInv'
<1> SUFFICES ASSUME IInv, PageInv, [Next]_vars PROVE PageInv'
  OBVIOUS
<1>1. web \in Web
  BY DEF IInv, TypeOK
<1>2. CASE SendRow
  BY <1>2, SendRowPage
<1>3. CASE Disturb
  <2>1. /\ web'.req = web.req /\ web'.at = web.at /\ web'.quiet = FALSE
    BY <1>1, <1>3 DEF Disturb, Web
  <2> QED
    BY <2>1 DEF PageInv
<1>4. CASE RootGet
  <2>1. /\ web'.at = 1 /\ web'.shown = <<>>
    BY <1>4 DEF RootGet, Idle
  <2>2. 1 \in 1 .. NODE_SIZE + 1 /\ \A i \in Slot : ~(i < 1)
    BY NodeTableAssumption DEF Slot
  <2>3. \A m \in Mac : Positions(m)' = {}
    BY <2>1 DEF Positions
  <2> QED
    BY <2>1, <2>2, <2>3 DEF PageInv
<1>5. CASE web'.req # "page"
  BY <1>5 DEF PageInv
<1>6. CASE UNCHANGED <<web, nodes>>
  BY <1>6 DEF PageInv, Positions
<1>7. ASSUME NEW m \in Mac, SystemGet(m)
      PROVE  web'.req # "page" \/ UNCHANGED <<web, nodes>>
  BY <1>7 DEF SystemGet, Idle, webUnchanged, serverVars
<1>8. CASE SendLine
  <2>1. web'.req = "details"
    BY <1>1, <1>8 DEF SendLine, Web
  <2> QED
    BY <1>5, <2>1
<1>9. CASE EndResponse
  BY <1>5, <1>9 DEF EndResponse, Idle
<1>10. \/ SendRow \/ Disturb \/ RootGet \/ (\E m \in Mac : SystemGet(m))
       \/ SendLine \/ EndResponse \/ UNCHANGED <<web, nodes>>
  BY DEF Next, vars, serverVars, JsonToRoot, PrintSystemInfoTimer, Elapse,
         ReceiveOversize, NodeInformation, SystemInformation, PrintSystem
<1> QED
  BY <1>2, <1>3, <1>4, <1>5, <1>6, <1>7, <1>8, <1>9, <1>10

\* PageExactWhenQuiet: a page during whose writing no message was handled shows
\* every node of the table exactly once and no other node.
THEOREM PageCorrect == Spec => []PageExactWhenQuiet
<1>1. Init => PageInv
  BY DEF Init, PageInv, Idle
<1>2. IInv /\ PageInv => PageExactWhenQuiet
  <2> SUFFICES ASSUME IInv, PageInv, Complete, web.quiet, NEW m \in Mac
               PROVE  Times(m) = (IF Known(nodes, m) THEN 1 ELSE 0)
    BY DEF PageExactWhenQuiet, ShowsTable
  <2>1. web.at = NODE_SIZE + 1
    BY NodeTableAssumption DEF PageInv, Complete, Slot
  <2>2. \A i \in Slot : i < web.at
    BY <2>1, NodeTableAssumption DEF Slot
  <2>3. IF Known(nodes, m) THEN \E k : Positions(m) = {k} ELSE Positions(m) = {}
    BY <2>2 DEF PageInv, Complete, Known
  <2>4. (\E k : Positions(m) = {k}) => Cardinality(Positions(m)) = 1
    BY FS_Singleton
  <2>5. Positions(m) = {} => Cardinality(Positions(m)) = 0
    BY FS_EmptySet
  <2> QED
    BY <2>3, <2>4, <2>5 DEF Times, Positions
<1> QED
  BY <1>1, <1>2, InitIInv, StepIInv, StepPage, PTL DEF Spec

-----------------------------------------------------------------------------
(* The table implements Registry.                                           *)

\* The mapping, in the terms of NodeTable_proofs.
LEMMA Mapping ==
    /\ {[name |-> nodes[i].self_mac, level |-> nodes[i].level,
         at |-> nodes[i].entry_tick] : i \in {j \in Slot : Live(nodes[j])}}
         = Entries(nodes)
    /\ Cardinality({i \in Slot : ~Live(nodes[i])})
         = Cardinality(FreeSlots(nodes))
BY DEF Entries, EntryOf, LiveSlots, FreeSlots

\* The live rows are stamped with a time that has been.
Timed(t, time) == \A i \in Slot : Live(t[i]) => t[i].entry_tick \in 0 .. time

\* A row's stamp is the time of the last report of its node.
LEMMA StampIsTime ==
    ASSUME TickInv, NotTurned
    PROVE  Timed(nodes, now)
<1> SUFFICES ASSUME NEW i \in Slot, Live(nodes[i])
             PROVE  nodes[i].entry_tick \in 0 .. now
  BY DEF Timed
<1> DEFINE h == heard[nodes[i].self_mac]
<1>1. h \in Nat /\ h <= now /\ now \in Nat /\ now < TICKS
  BY NodeTableAssumption DEF TickInv, IInv, TypeOK, Named, NotTurned
<1>2. nodes[i].entry_tick = h % TICKS
  BY DEF TickInv, Stamped
<1> HIDE DEF h
<1>3. h % TICKS = h
  BY <1>1, NodeTableAssumption
<1> QED
  BY <1>1, <1>2, <1>3

\* A handled report, as Registry sees it.
LEMMA NodeInformationEntries ==
    ASSUME TickInv, NotTurned, NodeInformation
    PROVE  LET msg   == Head(mbuf)
               fresh == [name |-> msg.self_mac, level |-> msg.level, at |-> now]
               all   == IF Known(nodes, msg.self_mac) \/ FreeSlots(nodes) # {}
                        THEN {e \in Entries(nodes) : e.name # msg.self_mac}
                                \cup {fresh}
                        ELSE Entries(nodes)
           IN  Entries(nodes') = {e \in all : now - e.at <= EXPIRE}
<1> DEFINE msg == Head(mbuf)
           rec == Recorded(nodes, msg)
           n   == msg.self_mac
<1>1. msg \in NodeInfo /\ nodes \in Table /\ rec \in Table /\ now \in Nat
  BY NodeInformationStep DEF TickInv
<1>2. PICK p \in Sorting(Swept(rec)) : nodes' = Rearranged(Swept(rec), p)
  BY NodeInformationStep DEF TickInv
<1>3. Tick = now /\ Tick # 0 /\ now # 0
  BY TickIsTime
<1>4. \A i \in Slot :
         IF Holds(nodes[i], n) \/ (~Known(nodes, n) /\ FirstFree(nodes, i))
         THEN /\ rec[i].self_mac = n
              /\ rec[i].level = msg.level
              /\ rec[i].entry_tick = now
         ELSE rec[i] = nodes[i]
  <2>1. CASE Known(nodes, n)
    BY <1>1, <1>3, <2>1
    DEF Recorded, Refreshed, Table, Row, Holds
  <2>2. CASE ~Known(nodes, n)
    BY <1>1, <1>3, <2>2 DEF Recorded, Inserted, Table, Row, Known
  <2> QED
    BY <2>1, <2>2
<1>5. Unique(nodes)
  BY DEF TickInv, IInv
<1> HIDE DEF rec, msg
<1>6. Entries(rec) =
        IF Known(nodes, n) \/ FreeSlots(nodes) # {}
        THEN {e \in Entries(nodes) : e.name # n}
                \cup {[name |-> n, level |-> msg.level, at |-> now]}
        ELSE Entries(nodes)
  BY <1>3, <1>4, <1>5, RecordedEntries, SMTT(30)
<1>7. Entries(Swept(rec)) = {e \in Entries(rec) : now - e.at <= EXPIRE}
  <2>1. \A i \in Slot : Live(rec[i]) =>
           rec[i].entry_tick \in 0 .. now /\ now - rec[i].entry_tick < TICKS
    <3>1. \A i \in Slot : Live(rec[i]) => rec[i].entry_tick \in 0 .. now
      BY <1>1, <1>4, StampIsTime DEF Timed
    <3> QED
      BY <1>1, <3>1, NodeTableAssumption DEF NotTurned
  <2>2. \A i \in Slot : /\ Gone(rec[i], now) => ~Live(Swept(rec)[i])
                        /\ ~Gone(rec[i], now) => Swept(rec)[i] = rec[i]
    BY <1>1, <1>3, SweptFields
  <2> QED
    BY <1>1, <2>1, <2>2, SweptEntries
<1>8. Entries(nodes') = Entries(Swept(rec))
  BY <1>2, SortedEntries DEF Sorting
<1> QED
  BY <1>6, <1>7, <1>8 DEF msg

\* A handled report is a Report of Registry.
LEMMA NodeInformationListing ==
    ASSUME TickInv, NotTurned, NodeInformation, Unique(nodes')
    PROVE  \E n \in Mac : Listing!Report(n)
<1>a. PICK n \in Mac : n = Head(mbuf).self_mac
  BY NodeInformationStep DEF TickInv, NodeInfo
<1> DEFINE msg == Head(mbuf)
           fresh == [name |-> n, level |-> msg.level, at |-> now]
           others == {e \in Entries(nodes) : e.name # n}
<1>1. msg \in NodeInfo /\ n = msg.self_mac /\ now' = now
  BY <1>a, NodeInformationStep DEF TickInv
<1>2. Offer(n) = msg.level /\ Offer(n) # 0
  BY <1>1, HttpNodeServerAssumption DEF NodeInformation, Offer, NodeInfo
<1>3. Known(nodes, n) <=> \E e \in Entries(nodes) : e.name = n
  BY KnownEntry
<1>4. FreeSlots(nodes) # {} <=> Cardinality(FreeSlots(nodes)) > 0
  BY RoomIsFree DEF FreeSlots
<1>5. Entries(nodes') =
        IF Known(nodes, n) \/ FreeSlots(nodes) # {}
        THEN {e \in others \cup {fresh} : now - e.at <= EXPIRE}
        ELSE {e \in Entries(nodes) : now - e.at <= EXPIRE}
  BY <1>a, NodeInformationEntries
<1>6. Cardinality(FreeSlots(nodes')) = NODE_SIZE - Cardinality(Entries(nodes'))
  BY RoomIsRest
<1>7. /\ Cardinality({i \in Slot : ~Live(nodes'[i])})
           = Cardinality(FreeSlots(nodes'))
      /\ {[name |-> nodes'[i].self_mac, level |-> nodes'[i].level,
           at |-> nodes'[i].entry_tick] : i \in {j \in Slot : Live(nodes'[j])}}
           = Entries(nodes')
  BY DEF Entries, EntryOf, LiveSlots, FreeSlots
<1>8. [m \in Mac |-> Offer(m)][n] = msg.level
  BY <1>1, <1>2
<1>9. Listing!Cardinality(Entries(nodes')) = Cardinality(Entries(nodes'))
  BY DEF Listing!Cardinality, Cardinality
<1> HIDE DEF msg
<1>10. Listing!Report(n)
  <2>1. Listing!IsListed(n) <=> Known(nodes, n)
    BY <1>3, Mapping DEF Listing!IsListed
  <2> QED
    BY <1>1, <1>2, <1>4, <1>5, <1>6, <1>7, <1>8, <1>9,
       <2>1, Mapping
    DEF Listing!Report, Listing!Kept
<1> QED
  BY <1>10

\* Every step of the server is a step of Registry or a stutter.
LEMMA StepListing ==
    TickInv /\ TickInv' /\ NotTurned /\ [Next]_vars
        => [Listing!Next]_(Listing!vars)
<1> SUFFICES ASSUME TickInv, TickInv', NotTurned, [Next]_vars
             PROVE  [Listing!Next]_(Listing!vars)
  OBVIOUS
<1>1. CASE NodeInformation
  BY <1>1, NodeInformationListing DEF Listing!Next, TickInv, IInv, Unique
<1>2. ASSUME now' = now, Entries(nodes') = Entries(nodes),
             FreeSlots(nodes') = FreeSlots(nodes)
      PROVE  Listing!Next
  BY <1>2 DEF Listing!Next, Listing!NewOffer, Entries, EntryOf, LiveSlots,
              FreeSlots
<1>3. CASE PrintSystem
  <2>1. \A i \in Slot : /\ nodes'[i].self_mac = nodes[i].self_mac
                        /\ nodes'[i].level = nodes[i].level
                        /\ nodes'[i].entry_tick = nodes[i].entry_tick
    BY <1>3, PrintSystemFields DEF TickInv
  <2>2. \A i \in Slot : /\ Live(nodes'[i]) <=> Live(nodes[i])
                        /\ EntryOf(nodes'[i]) = EntryOf(nodes[i])
    BY <2>1 DEF Live, EntryOf
  <2>3. LiveSlots(nodes') = LiveSlots(nodes) /\ FreeSlots(nodes') = FreeSlots(nodes)
    BY <2>2 DEF LiveSlots, FreeSlots
  <2>4. Entries(nodes') = Entries(nodes)
    BY <2>2, <2>3 DEF Entries, LiveSlots
  <2> QED
    BY <1>2, <1>3, <2>3, <2>4 DEF PrintSystem
<1>4. CASE Elapse
  BY <1>4 DEF Elapse, serverVars, Listing!Next, Listing!Elapse, Offer
<1>5. CASE UNCHANGED <<nodes, now>>
  BY <1>2, <1>5
<1>6. \/ NodeInformation \/ PrintSystem \/ Elapse \/ UNCHANGED <<nodes, now>>
  BY DEF Next, vars, serverVars, webUnchanged, JsonToRoot,
         PrintSystemInfoTimer, ReceiveOversize, SystemInformation,
         RootGet, SendRow, SystemGet, SendLine, EndResponse
<1> QED
  BY <1>1, <1>3, <1>4, <1>5, <1>6

\* ImplementsRegistry: as long as the tick counter has not turned the table is
\* a Registry, for every number of rows and nodes: an entry for every node
\* heard from within EXPIRE ticks, none doubled, mixed up or lost, and a report
\* turned away only when every row was taken.
THEOREM RegistryCorrect == Spec /\ []NotTurned => ImplementsRegistry
<1>1. Init => Listing!Init
  <2> SUFFICES ASSUME Init PROVE Listing!Init
    OBVIOUS
  <2>1. \A i \in Slot : ~Live(nodes[i])
    BY DEF Init, FreeRow, Live
  <2>2. Entries(nodes) = {}
    BY <2>1 DEF Entries, LiveSlots
  <2>3. Unique(nodes)
    BY <2>1 DEF Unique
  <2>4. Cardinality(FreeSlots(nodes)) = NODE_SIZE
    BY <2>2, <2>3, RoomIsRest, FS_EmptySet, NodeTableAssumption
  <2> QED
    BY <2>2, <2>4, Mapping DEF Init, Listing!Init
<1> QED
  BY <1>1, InitTickInv, StepTickInv, StepListing, PTL
  DEF Spec, ImplementsRegistry, Listing!Spec
=============================================================================
