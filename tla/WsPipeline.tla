----------------------------- MODULE WsPipeline -----------------------------
(***************************************************************************)
(* The root of mesh_websocket_server behind the node table: the tree that  *)
(* node_manager publishes travels through two message buffers to the       *)
(* browsers, and a browser's "init" travels back through the same buffers. *)
(*                                                                         *)
(*   node_manager --save--> xMessageBufferJsonServer --> json_server       *)
(*                               ^                            |            *)
(*                             load                      json-request      *)
(*                               |                            v            *)
(*      browsers <-- client_task <------ xMessageBufferToClient            *)
(*                                         ^          ^                    *)
(*                       init (browser) ---+          +--- timer-request   *)
(*                                                                         *)
(* A tree is its version number.  A buffer holds a number of units: a      *)
(* message with a tree takes TREE_SIZE of them, any other message one.     *)
(***************************************************************************)
EXTENDS Integers, Sequences, FiniteSets

CONSTANTS
    Browser,      \* the browsers
    TREE_SIZE,    \* units of a message with a tree
    JSON_SERVER,  \* units of xMessageBufferJsonServer
    TO_CLIENT,    \* units of xMessageBufferToClient
    MaxTrees,     \* bound on the trees built
    MaxOpens,     \* bound on the connections of browsers
    MaxBacklog    \* timer requests that may lie in xMessageBufferToClient

ASSUME WsPipelineAssumption ==
    /\ TREE_SIZE \in Nat \ {0}
    /\ JSON_SERVER \in Nat /\ TREE_SIZE <= JSON_SERVER
    /\ TO_CLIENT \in Nat /\ TREE_SIZE <= TO_CLIENT
    /\ MaxTrees \in Nat
    /\ MaxOpens \in Nat
    /\ MaxBacklog \in Nat

VARIABLES
    latest,      \* the last tree node_manager built since boot
    publishing,  \* is node_manager sending it?
    saves,       \* xMessageBufferJsonServer
    sender,      \* the tasks that wait to send to it
    stored,      \* json_string of json_server, 0 while not valid_json
    active,      \* active_client of json_server
    posting,     \* is json_server sending json_string to the client task?
    requests,    \* xMessageBufferToClient
    client,      \* what client_task does, with which tree
    page,        \* for every browser, its connection
    shown,       \* for every browser, the tree it shows
    opens        \* connections so far

vars == <<latest, publishing, saves, sender, stored, active, posting, requests,
          client, page, shown, opens>>

managerVars == <<latest, publishing>>
serverVars == <<stored, active, posting>>
browserVars == <<page, shown, opens>>

Trees == 1 .. MaxTrees

\* The messages; tree is 0 in those that carry none.
Save(tree) == [id |-> "save", tree |-> tree]
Load == [id |-> "load", tree |-> 0]
JsonRequest(tree) == [id |-> "json-request", tree |-> tree]
TimerRequest == [id |-> "timer-request", tree |-> 0]
InitRequest == [id |-> "init", tree |-> 0]

HasTree(msg) == msg.tree # 0

Used(buf) == Len(buf) + (TREE_SIZE - 1) * Len(SelectSeq(buf, HasTree))

Units(msg) == IF HasTree(msg) THEN TREE_SIZE ELSE 1

FitsServer(msg) == Used(saves) + Units(msg) <= JSON_SERVER
FitsClient(msg) == Used(requests) + Units(msg) <= TO_CLIENT

Queued_AtFront(buf, msg) == <<msg>> \o buf

Queued(buf, msg) == Append(buf, msg)

Receiving == [do |-> "receive", tree |-> 0]

TypeOK ==
    /\ latest \in 0 .. MaxTrees
    /\ publishing \in BOOLEAN
    /\ saves \in Seq({Load} \cup {Save(t) : t \in Trees})
    /\ Used(saves) <= JSON_SERVER
    /\ sender \in {{}, {"node_manager"}, {"client_task"}}
    /\ stored \in 0 .. latest
    /\ active \in BOOLEAN
    /\ posting \in BOOLEAN
    /\ requests \in Seq({InitRequest, TimerRequest}
                          \cup {JsonRequest(t) : t \in Trees})
    /\ Used(requests) <= TO_CLIENT
    /\ client \in [do : {"receive", "load", "tree", "elapsed"}, tree : 0 .. latest]
    /\ page \in [Browser -> {"closed", "connected", "inited", "unheard"}]
    /\ shown \in [Browser -> 0 .. latest]
    /\ opens \in 0 .. MaxOpens

Init ==
    /\ latest = 0
    /\ publishing = FALSE
    /\ saves = <<>>
    /\ sender = {}
    /\ stored = 0
    /\ active = FALSE
    /\ posting = FALSE
    /\ requests = <<>>
    /\ client = Receiving
    /\ page = [b \in Browser |-> "closed"]
    /\ shown = [b \in Browser |-> 0]
    /\ opens = 0

-----------------------------------------------------------------------------
(* Blocking sends to json_server, by node_manager and by client_task.       *)

\* The message fits.
SendToServer(task, msg) ==
    /\ FitsServer(msg)
    /\ saves' = Queued(saves, msg)
    /\ sender' = sender \ {task}

\* It does not, and the task waits.
WaitForServer(task, msg) ==
    /\ ~FitsServer(msg)
    /\ sender = {}
    /\ sender' = {task}
    /\ UNCHANGED <<managerVars, saves, serverVars, requests, client, browserVars>>

\* It does not, and another task waits already: a message buffer allows one,
\* configASSERT stops the program and the board boots again.
AssertFails(task, msg) ==
    /\ ~FitsServer(msg)
    /\ sender # {} /\ task \notin sender
    /\ latest' = 0
    /\ publishing' = FALSE
    /\ saves' = <<>>
    /\ sender' = {}
    /\ stored' = 0
    /\ active' = FALSE
    /\ posting' = FALSE
    /\ requests' = <<>>
    /\ client' = Receiving
    /\ page' = [b \in Browser |-> "closed"]
    /\ shown' = [b \in Browser |-> 0]
    /\ UNCHANGED opens

-----------------------------------------------------------------------------
(* node_manager: the end of its loop, when the tree changed.                *)

Build ==
    /\ ~publishing
    /\ latest < MaxTrees
    /\ latest' = latest + 1
    /\ publishing' = TRUE
    /\ UNCHANGED <<saves, sender, serverVars, requests, client, browserVars>>

Publish ==
    /\ publishing
    /\ SendToServer("node_manager", Save(latest))
    /\ publishing' = FALSE
    /\ UNCHANGED <<latest, serverVars, requests, client, browserVars>>

PublishBlocked ==
    /\ publishing
    /\ \/ WaitForServer("node_manager", Save(latest))
       \/ AssertFails("node_manager", Save(latest))

-----------------------------------------------------------------------------
(* json_server.                                                             *)

JsonSave_NotForwarded(msg) ==
    stored' = msg.tree /\ posting' = FALSE /\ UNCHANGED active

JsonSave(msg) == stored' = msg.tree /\ posting' = active /\ UNCHANGED active

JsonLoad_Silent == active' = TRUE /\ posting' = FALSE /\ UNCHANGED stored

JsonLoad == active' = TRUE /\ posting' = (stored # 0) /\ UNCHANGED stored

ReceiveJson ==
    /\ ~posting
    /\ saves # <<>>
    /\ saves' = Tail(saves)
    /\ \/ Head(saves).id = "save" /\ JsonSave(Head(saves))
       \/ Head(saves).id = "load" /\ JsonLoad
    /\ UNCHANGED <<managerVars, sender, requests, client, browserVars>>

\* The send waits for room in the client's buffer.
PostJson ==
    /\ posting
    /\ FitsClient(JsonRequest(stored))
    /\ requests' = Queued(requests, JsonRequest(stored))
    /\ posting' = FALSE
    /\ UNCHANGED <<managerVars, saves, sender, stored, active, client, browserVars>>

-----------------------------------------------------------------------------
(* client_task and its timer.                                               *)

IsTimer(msg) == msg.id = "timer-request"

\* Every 500 ticks.  SendFromISR: what does not fit is not sent.
TimerCallback ==
    /\ Len(SelectSeq(requests, IsTimer)) < MaxBacklog
    /\ FitsClient(TimerRequest)
    /\ requests' = Queued(requests, TimerRequest)
    /\ UNCHANGED <<managerVars, saves, sender, serverVars, client, browserVars>>

ReceiveRequest ==
    /\ client.do = "receive"
    /\ requests # <<>>
    /\ requests' = Tail(requests)
    /\ LET msg == Head(requests)
       IN  client' = CASE msg.id = "init" -> [do |-> "load", tree |-> 0]
                       [] msg.id = "json-request" -> [do |-> "tree", tree |-> msg.tree]
                       [] msg.id = "timer-request" -> [do |-> "elapsed", tree |-> 0]
    /\ UNCHANGED <<managerVars, saves, sender, serverVars, browserVars>>

RequestLoad ==
    /\ client.do = "load"
    /\ SendToServer("client_task", Load)
    /\ client' = Receiving
    /\ UNCHANGED <<managerVars, serverVars, requests, browserVars>>

RequestLoadBlocked ==
    /\ client.do = "load"
    /\ \/ WaitForServer("client_task", Load)
       \/ AssertFails("client_task", Load)

Connected == {b \in Browser : page[b] # "closed"}

\* ws_server_send_text_all("TREE", ...): every connected browser shows it.
Shown(tree) == [b \in Browser |-> IF b \in Connected THEN tree ELSE shown[b]]

SendTree ==
    /\ client.do = "tree"
    /\ shown' = Shown(client.tree)
    /\ client' = Receiving
    /\ UNCHANGED <<managerVars, saves, sender, serverVars, requests, page, opens>>

SendElapsed ==
    /\ client.do = "elapsed"
    /\ client' = Receiving
    /\ UNCHANGED <<managerVars, saves, sender, serverVars, requests, browserVars>>

-----------------------------------------------------------------------------
(* The browsers.                                                            *)

Open(b) ==
    /\ page[b] = "closed"
    /\ opens < MaxOpens
    /\ page' = [page EXCEPT ![b] = "connected"]
    /\ opens' = opens + 1
    /\ UNCHANGED <<managerVars, saves, sender, serverVars, requests, client, shown>>

\* onopen sends {"id":"init"}; websocket_callback passes it on from the
\* socket's task without waiting.
OnOpen(b) ==
    /\ page[b] = "connected"
    /\ \/ /\ FitsClient(InitRequest)
          /\ requests' = Queued(requests, InitRequest)
          /\ page' = [page EXCEPT ![b] = "inited"]
       \/ /\ ~FitsClient(InitRequest)
          /\ page' = [page EXCEPT ![b] = "unheard"]
          /\ UNCHANGED requests
    /\ UNCHANGED <<managerVars, saves, sender, serverVars, client, shown, opens>>

Close(b) ==
    /\ page[b] # "closed"
    /\ page' = [page EXCEPT ![b] = "closed"]
    /\ shown' = [shown EXCEPT ![b] = 0]
    /\ UNCHANGED <<managerVars, saves, sender, serverVars, requests, client, opens>>

-----------------------------------------------------------------------------
Next ==
    \/ Build
    \/ Publish
    \/ PublishBlocked
    \/ ReceiveJson
    \/ PostJson
    \/ TimerCallback
    \/ ReceiveRequest
    \/ RequestLoad
    \/ RequestLoadBlocked
    \/ SendTree
    \/ SendElapsed
    \/ \E b \in Browser : Open(b) \/ OnOpen(b) \/ Close(b)

Spec == Init /\ [][Next]_vars

\* The tasks run and a send to the browsers ends.  A task that waits for room
\* is woken when a message is taken; what else could take the room is a timer
\* of 500 ticks or a person, so a task that finds room again and again sends.
Fairness ==
    /\ SF_vars(Publish)
    /\ WF_vars(PublishBlocked)
    /\ WF_vars(ReceiveJson)
    /\ SF_vars(PostJson)
    /\ WF_vars(ReceiveRequest)
    /\ SF_vars(RequestLoad)
    /\ WF_vars(RequestLoadBlocked)
    /\ WF_vars(SendTree)
    /\ WF_vars(SendElapsed)
    /\ \A b \in Browser : WF_vars(OnOpen(b))

FairSpec == Spec /\ Fairness

-----------------------------------------------------------------------------
(* Properties.                                                              *)

\* The refinement mapping: a version is a version, and the tree a page shows is
\* the last one client_task sent to it.
Board == INSTANCE TreeBoard
            WITH Browser <- Browser, latest <- latest, shown <- shown

\* What a browser shows is a tree that was built and is never replaced by an
\* older one, although saves, loads and the trees they trigger overtake each
\* other's requests in two buffers.
ShowsInOrder == Board!Spec

Quiet ==
    /\ ~publishing /\ ~posting
    /\ saves = <<>> /\ requests = <<>>
    /\ client.do = "receive"

\* "Stores and serves up the latest JSON data" (json_server.c:2): when every
\* task waits for work, json_server holds the last tree and every browser
\* whose init was heard shows it.  A page whose init was dropped is either still
\* empty or shows it too, thanks to the requests of others: it is never left
\* with an outdated tree.
QuietLatest ==
    Quiet => \A b \in Browser :
                /\ page[b] = "inited" => shown[b] = stored /\ stored = latest
                /\ shown[b] # 0 => shown[b] = latest

Shows(b) == page[b] = "closed" \/ shown[b] = latest

\* The same as liveness: a browser whose init was heard comes to show the
\* last tree, or goes away.
LatestServed == \A b \in Browser : page[b] = "inited" ~> Shows(b)

\* client_task and json_server wait for room in each other's buffers.
Jammed ==
    /\ client.do = "load" /\ ~FitsServer(Load)
    /\ posting /\ ~FitsClient(JsonRequest(stored))

\* That jam is all that keeps a browser from the last tree, whatever the
\* buffers drop, however often the page is opened and the board boots.
ServedUnlessJammed ==
    \A b \in Browser : page[b] = "inited" ~> Shows(b) \/ Jammed
=============================================================================
