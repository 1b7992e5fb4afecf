---------------------------- MODULE LeafReports ----------------------------
(***************************************************************************)
(* The reports of the nodes of mesh_http_server and mesh_websocket_server, *)
(* from their timers to the table of the root: each report is sent         *)
(* MAX_RETRY times, copies get lost, nodes move, stop and start, and the   *)
(* root drops who is silent only when its task handles a report, if only   *)
(* the root's own.  The task may be late, wait for the browsers' side or   *)
(* end, while the timers go on.                                            *)
(* The table is a Registry; how rows do it is in HttpNodeServer and        *)
(* NodeManager.  The unit of time is retry_interval (1 s).                 *)
(***************************************************************************)
EXTENDS Integers, FiniteSets, Sequences

CONSTANTS
    Leaf,       \* the nodes that report over the mesh
    Station,    \* the root
    LeafLevel,  \* the levels of leaves
    TABLE_SIZE, \* NODE_SIZE (100)
    ROOM,       \* the reports that fit in the message buffer
    COPIES,     \* MAX_RETRY (5)
    REPORT_PERIOD, \* of the timers (10)
    SILENCE,    \* diff_tick (60000 ticks)
    MaxClock,   \* bound on the time
    MaxMoves,   \* bound on the moves
    MaxStops    \* bound on the stops of a node

\* The copies of a report are sent before the next one is.
ASSUME LeafAssumption ==
    /\ Station \notin Leaf
    /\ LeafLevel \subseteq Nat \ {0, 1}
    /\ {TABLE_SIZE, ROOM, COPIES, REPORT_PERIOD, SILENCE} \subseteq Nat \ {0}
    /\ COPIES <= REPORT_PERIOD
    /\ {MaxClock, MaxMoves, MaxStops} \subseteq Nat

VARIABLES
    clock,
    listed, room,  \* the table of the root
    atRoot,        \* the reports in the message buffer
    tableTask,     \* http_server or node_manager: "receive", "send" or "ended"
    late,          \* the last time that went by with a report in the buffer, or 0
    nodeLevel,     \* esp_mesh_lite_get_level of every node
    sending,       \* the reports that are being sent
    timerAt,       \* when the timer of a node expires, 0 if it has none
    reports,       \* how many reports a node has begun to send
    best,          \* the newest report of a node that the root handled
    stopped,       \* its reports up to the node's last stop, -1 if none
    moves, stops

tableVars == <<clock, listed, room>>
rootVars == <<tableVars, atRoot, tableTask, late>>
leafVars == <<rootVars, nodeLevel, sending, timerAt, reports, best, stopped,
              moves, stops>>

Member == Leaf \cup {Station}
NodeReport == [name : Member, no : Nat, level : LeafLevel \cup {1}]

Table == INSTANCE Registry WITH
    Name <- Member, Level <- LeafLevel \cup {1}, SIZE <- TABLE_SIZE,
    EXPIRE <- SILENCE, StartTime <- 1, now <- clock,
    offer <- [n \in Member |->
                IF atRoot # <<>> /\ Head(atRoot).name = n
                THEN Head(atRoot).level ELSE 0]

LeafTypeOK ==
    /\ Table!TypeOK
    /\ atRoot \in Seq(NodeReport) /\ Len(atRoot) <= ROOM
    /\ tableTask \in {"receive", "send", "ended"} /\ late \in 0 .. clock
    /\ nodeLevel \in [Member -> LeafLevel \cup {1}]
    /\ sending \subseteq [report : NodeReport, left : 1 .. COPIES, at : Nat]
    /\ timerAt \in [Member -> Nat] /\ reports \in [Member -> Nat]
    /\ best \in [Member -> Nat \X Nat]
    /\ stopped \in [Leaf -> Nat \cup {-1}]

\* The time begins with the root's timer, that of a leaf is within a period.
LeafInit ==
    /\ Table!Init
    /\ atRoot = <<>> /\ tableTask = "receive" /\ late = 0 /\ sending = {}
    /\ nodeLevel \in {f \in [Member -> LeafLevel \cup {1}] :
                        \A n \in Member : f[n] = 1 <=> n = Station}
    /\ timerAt \in {f \in [Member -> 1 .. REPORT_PERIOD] : f[Station] = 1}
    /\ reports = [n \in Member |-> 0]
    /\ best = [n \in Member |-> <<0, 0>>]
    /\ stopped = [n \in Leaf |-> -1]
    /\ moves = 0 /\ stops = 0

\* Does something happen before the time goes on?
Expires(n) == timerAt[n] = clock
NowDue == {j \in sending : j.at = clock}

\* The timers and the library keep the time, the task of the table need not.
Pass ==
    /\ clock < MaxClock
    /\ NowDue = {} /\ \A n \in Member : ~Expires(n)
    /\ late' = IF atRoot = <<>> THEN late ELSE clock
    /\ UNCHANGED <<atRoot, tableTask, nodeLevel, sending, timerAt, reports, best,
                   stopped, moves, stops>>
    /\ Table!Elapse

NewReport(n) == [name |-> n, no |-> reports[n] + 1, level |-> nodeLevel[n]]

NextExpiry_AfterCopies == clock + REPORT_PERIOD + COPIES - 1
NextExpiry == clock + REPORT_PERIOD

\* print_system_info_timercb of a leaf: the library sends the copies.
LeafTimer(n) ==
    /\ n \in Leaf /\ Expires(n)
    /\ sending' = sending \cup {[report |-> NewReport(n), left |-> COPIES,
                                at |-> clock]}
    /\ reports' = [reports EXCEPT ![n] = @ + 1]
    /\ timerAt' = [timerAt EXCEPT ![n] = NextExpiry]
    /\ UNCHANGED <<rootVars, nodeLevel, best, stopped, moves, stops>>

\* That of the root writes to the message buffer.  When there is no room, this
\* report is lost, in mesh_websocket_server; in mesh_http_server, where the
\* messages of the other kind take room too and follow a report, the callback
\* deletes the task of the timers.
StationTimer ==
    /\ Expires(Station)
    /\ \E t \in {0, NextExpiry} :
        /\ timerAt' = [timerAt EXCEPT ![Station] = t]
        /\ \/ /\ Len(atRoot) < ROOM
              /\ atRoot' = Append(atRoot, NewReport(Station))
           \/ /\ t = 0 \/ Len(atRoot) = ROOM
              /\ UNCHANGED atRoot
    /\ reports' = [reports EXCEPT ![Station] = @ + 1]
    /\ UNCHANGED <<tableVars, tableTask, late, nodeLevel, sending, best, stopped,
                   moves, stops>>

JobsAfter_NoEnd(j) == (sending \ {j}) \cup {[j EXCEPT !.at = @ + 1]}

\* One copy less, the next after retry_interval.
JobsAfter(j) ==
    (sending \ {j}) \cup (IF j.left = 1 THEN {}
                          ELSE {[j EXCEPT !.left = @ - 1, !.at = @ + 1]})

\* On its way, or because the message buffer has no room: then it may have been
\* acknowledged, and is not sent again.
LoseReport(j) ==
    /\ j \in NowDue
    /\ sending' \in {JobsAfter(j), sending \ {j}}
    /\ UNCHANGED <<rootVars, nodeLevel, timerAt, reports, best, stopped, moves,
                   stops>>

\* json_to_root_handler passes it on.  An acknowledgement ends the job, if it is
\* sent and comes back.
DeliverReport(j) ==
    /\ j \in NowDue /\ Len(atRoot) < ROOM
    /\ atRoot' = Append(atRoot, j.report)
    /\ sending' \in {JobsAfter(j), sending \ {j}}
    /\ UNCHANGED <<tableVars, tableTask, late, nodeLevel, timerAt, reports, best,
                   stopped, moves, stops>>

Handled == Head(atRoot)

\* http_server, or node_manager: afterwards this one waits, if the tree is new and
\* json_server behind, or ends, if the tree is longer than JSON_SIZE.
HandleReport ==
    /\ tableTask = "receive" /\ atRoot # <<>>
    /\ Table!Report(Handled.name)
    /\ atRoot' = Tail(atRoot)
    /\ best' = [best EXCEPT ![Handled.name] =
                   IF Handled.no > @[1] THEN <<Handled.no, Handled.level>> ELSE @]
    /\ tableTask' \in {"receive", "send", "ended"}
    /\ UNCHANGED <<late, nodeLevel, sending, timerAt, reports, stopped, moves,
                   stops>>

\* json_server has made room.
TreeSent ==
    /\ tableTask = "send"
    /\ tableTask' = "receive"
    /\ UNCHANGED <<tableVars, atRoot, late, nodeLevel, sending, timerAt, reports,
                   best, stopped, moves, stops>>

\* http_server, when a message is longer than BUF_SIZE.
TooLong ==
    /\ tableTask = "receive"
    /\ tableTask' = "ended"
    /\ UNCHANGED <<tableVars, atRoot, late, nodeLevel, sending, timerAt, reports,
                   best, stopped, moves, stops>>

MoveLeaf(n, l) ==
    /\ moves < MaxMoves /\ l # nodeLevel[n]
    /\ nodeLevel' = [nodeLevel EXCEPT ![n] = l]
    /\ moves' = moves + 1
    /\ UNCHANGED <<rootVars, sending, timerAt, reports, best, stopped, stops>>

\* Switched off, or not connected: at level 0 a timer sends nothing.
StopLeaf(n) ==
    /\ stops < MaxStops /\ timerAt[n] # 0
    /\ timerAt' = [timerAt EXCEPT ![n] = 0]
    /\ sending' = {j \in sending : j.report.name # n}
    /\ stopped' = [stopped EXCEPT ![n] = reports[n]]
    /\ stops' = stops + 1
    /\ UNCHANGED <<rootVars, nodeLevel, reports, best, moves>>

StartLeaf(n) ==
    /\ timerAt[n] = 0
    /\ \E t \in clock + 1 .. NextExpiry : timerAt' = [timerAt EXCEPT ![n] = t]
    /\ UNCHANGED <<rootVars, nodeLevel, sending, reports, best, stopped, moves,
                   stops>>

LeafNext ==
    \/ Pass
    \/ \E n \in Leaf : LeafTimer(n) \/ StopLeaf(n) \/ StartLeaf(n)
    \/ \E n \in Leaf, l \in LeafLevel : MoveLeaf(n, l)
    \/ StationTimer
    \/ \E j \in sending : LoseReport(j) \/ DeliverReport(j)
    \/ HandleReport \/ TreeSent \/ TooLong

LeafSpec == LeafInit /\ [][LeafNext]_leafVars

StoppedSince(n) == best[n][1] <= stopped[n]

EnoughLost(n) == (reports[n] - best[n][1] + 1) * REPORT_PERIOD > SILENCE

(* A node that runs stays in the table unless so many of its reports in a row
   came to nothing - every copy was lost, or found no room in the buffer - or have
   not been handled yet that they fill SILENCE, wherever in the periods of the
   nodes the copies, the losses and the sweeps fall and however late the task of
   the table is. *)
KeptWhileHeard ==
    [][\A n \in Leaf :
          Table!IsListed(n) /\ ~Table!IsListed(n)' => StoppedSince(n) \/ EnoughLost(n)
      ]_leafVars

(* The table shows the newest report of a node that was handled, never an older one
   of which copies are still being sent or wait in the buffer.  And while the root's
   own timer runs, which triggers the sweep, a node that has gone is not shown for
   longer than SILENCE and one REPORT_PERIOD, unless the task of the table left a
   report in the buffer when the time went on within the last period: a task that
   waits or has ended keeps the silent nodes, one that has caught up gets rid of
   them within a period. *)
TableCurrent ==
    \A e \in listed :
        /\ e.level = best[e.name][2]
        /\ timerAt[Station] # 0 =>
              \/ clock - e.at <= SILENCE + REPORT_PERIOD
              \/ clock - late <= REPORT_PERIOD
=============================================================================
