# Verification of esp-mesh-lite-examples

TLA+ models, TLC runs and TLAPS proofs for the programs of this repository:
ESP32 applications on top of the external library *esp-mesh-lite*. Each
application is a `main.c` that joins the mesh and a few FreeRTOS tasks; they
share idioms (a message buffer between the mesh's callbacks and a task, a
node table, a hop-by-hop broadcast, once-only task creation) rather than code.

Modules take their names from the tasks and handlers they model; definitions
keep the names of the C functions and variables where TLA+ allows it.

## 1. Inventory

FreeRTOS, ESP-IDF, cJSON and esp-mesh-lite are not under `src/`. They are
modelled from the way the code uses them:

* a **message buffer** holds whole messages up to a size; `SendFromISR` never
  waits and returns 0 when the message does not fit, `Send` waits, `Receive`
  waits and returns 0, leaving the message, when the caller's buffer is small;
* `esp_mesh_lite_send_msg` with `expect_msg = NULL` sends `max_retry` copies,
  one per `retry_interval`, all with one sequence number of the sender's; with
  an `expect_msg` it stops at the acknowledgement;
* timer callbacks, mesh handlers, event handlers, the HTTP or web-socket
  server's callbacks and the application's tasks run in different tasks.

| Component | State it keeps | Operations | Hard behaviour | What makes it correct |
|---|---|---|---|---|
| **mesh_http_server root** (`main.c`, `http_server.c`) | `xMessageBufferNode`, `nodes[]` with heap strings | timer report, `json_to_root_handler`, `http_server` (update, insert, sweep, sort, system string), `root_get_handler`, `system_get_handler` | lock-free reads of a table that is being sorted; strings moved by `qsort`; tick wrap; full buffer | one row per node, strings owned once, evict exactly the silent, page = table |
| **Broadcast relay** (`router_less_message_exchange/main/no_router.c`, the same handler in `mesh2uart`, `mesh2ble`) | `last_recv_seq` of each node, retry timers | send, receive-and-relay | copies of two messages interleave on one link; loss; restart | a message is handled at most once and, within the retries, at least once |
| **Report to root** (`json_to_root_handler`, `raw_msg_to_root_handler`) | one `last_recv_seq` for all children | request, acknowledge, retry | lost acknowledgement, several children | each report handled once |
| **mesh_websocket_server pipeline** (`main.c`, `node_manager.c`, `json_server.c`, `web_client.c`, `web_server.c`, `html/main.js`) | three message buffers, `json_string`, `active_client` | report, save, load, forward, browser messages | a cycle of blocking senders, slow client | no deadlock; the latest tree reaches the browser |
| **node_manager tree** | node table with a cJSON object per row | update, sweep, sort, build, print, publish | stale levels while the mesh restructures; buffer sizes | the tree is the mesh; no object outlives its release |
| **mesh2uart / usb** (`uart.c`, `tusb.c`) | line buffer, two message buffers | assemble line, send, receive | full buffer in mid-chunk; oversize message | lines arrive whole and in order |
| **mesh2ble** (`nimble_spp_server.c`) | connection and subscription tables | GAP events, write, notify | subscribe/unsubscribe/disconnect orders | notify only subscribed peers |
| **mesh_remote_logging** (`net_logging.c`) | log buffer, UDP or TCP task | `logging_vprintf`, send, reconnect | a sender that dies while the log goes on | logging never stops the program |
| **mesh_mqtt_client** (`mqtt_pub.c`, `mqtt_sub.c`) | one-slot event mailbox, client states | MQTT events, publish, subscribe | two events before the task runs; reconnect | every connected node subscribes |
| **mesh_ftp_client** (`main.c`, `ftp_client.c`) | file, queue of one, task flag | append, upload, dedup | failed login, file written while uploaded | a report reaches the server |
| **Reports of the leaves** (the timers of mesh_http_server and mesh_websocket_server, up to either table) | copies on their way, timers | report, copy, acknowledge | copies of two reports, losses, moves, a sweep that waits for a report | who is heard stays in the table, with its newest report; who is gone leaves it |
| **Start-up** (`app_main` of all applications) | event group bits, buffers, task flags | IP event, wait, `obtain_time` | callbacks between any two steps of `app_main` | callbacks and tasks find their objects; the application comes to do its work |
| **Clients that only send** (`tcp_client_write_task` and the loops of `http_client.c` and `ws_client.c`) | a socket | connect, write | a server that stops and starts unnoticed | each run of the server hears of the node |
| **Connections** (`web_server.c`) | `client_queue` | accept, queue, answer, hand over | short queue, silent clients | no connection is forgotten |
| **mesh_sntp_client** | – | wait for the time | an answer in the last moment | (with start-up) |
| mesh_local_control, Python helper servers, `jsonTree`, `app.js`, sdkconfig | – | – | – | not part of the core |

How the parts interact. All nodes of one application run the same `main.c`; a
build option makes one of them the root. Leaves report to the root every 10 s
through `esp_mesh_lite_send_msg` (`json_id_to_root`); at the root the mesh's task
runs `json_to_root_handler`, which passes the report to an application task
through a message buffer and never waits. The root's own timer does the same.
The task owns its table; the HTTP handlers of mesh_http_server read that table
from the server's task without a lock, whereas mesh_websocket_server builds a
JSON text from it and sends it through two more message buffers to the task that
writes to the browsers. In the other direction a root broadcasts to its children
and every child relays.

## 2. Plan

The order is by how much of the program's own logic a part holds.

| # | Module | Composes / refines | State |
|---|---|---|---|
| 1 | `NodeTable`, `HttpNodeServer` | the table's operators; senders, task and HTTP handlers in one module because they share the table | done, proved |
| 2 | `Broadcast` | – | done, proved |
| 3 | `WsPipeline` | refines `TreeBoard` | done, proved |
| 4 | `NodeManager` | uses `NodeTable`; its publications are the `Build` steps of `WsPipeline` | done, proved |
| 5 | `ToRoot` | the acknowledged report: retries, one `last_recv_seq` for all children | done, proved |
| 6 | `UartGateway`, `BleGateway` | the hosts of the gateways; their broadcasts are the `SendToAllChild` of `Broadcast` | done, proved |
| 7 | `RemoteLogging`, `MqttClient`, `FtpUploader` | each a task against a callback; `FtpUploader` extends `ToRoot` and has the start of a root | done, proved |
| 8 | `Registry` | implemented by `HttpNodeServer` and `NodeManager`, used by `LeafReports` | done, both refinements proved |
| 9 | `LeafReports` | the way from the leaves' timers to the table; `MessagesMC` puts it beside `Broadcast` | done, proved |
| 10 | `Startup`, `HelloClients`, `WebServer` | `app_main` of every application; the clients that only send; the connections of the web server | done, `Startup` proved, the others are about liveness |

Abstract specifications: `TreeBoard` (what a browser may see), `Registry` (the nodes
heard from within `EXPIRE`). A log of reports each printed once, which `ToRoot`
implements as long as one child reports at a time, is stated as `PrintedOnce`.

A board runs one application, so the modules of rows 6, 7 and 10 share a run: `BoardMC`
extends them, and its initial state chooses the application of the board.

Every invariant, action property and refinement that a passing run checks is a
theorem (section 5). Worth proving next:

1. What is left of `AtMostOnce` after a restart: a restarted node may accept again only
   the message whose copies are on their way to it.
2. The type invariants that are not theorems yet, the sizes of the buffers of
   `WsPipeline` and the places of the connections of `WebServer` above all.
3. That `ToRoot` implements a log of reports each printed once, as long as no two
   children repeat at the same time, as a refinement instead of `PrintedOnce`.

## 3. Modules and code

`NodeTable` – operators only. Both roots keep a `NODE_t nodes[NODE_SIZE]` with the
same search, insert, sweep and sort; the operators are the conditions of those
loops (`Holds`, `FirstFree`, `Gone`) and the set of permutations `qsort` may
choose (`compar` never answers 0, so rows of one level may come out in any
order). Tick counts are numbers modulo `TICKS`.

`HttpNodeServer` – mesh_http_server's root. `mbuf` is `xMessageBufferNode`, `nodes`
the table, `heap` the blocks that hold system strings; `pc`/`slot` the position of
the `http_server` task (it can be interrupted between `free` and the new
`cJSON_Print`); `web` the response the httpd task is writing, one chunk per step,
because `httpd_resp_sendstr_chunk` blocks. Actions: `JsonToRoot`,
`PrintSystemInfoTimer` (the two senders), `NodeInformation`, `SystemInformation`,
`PrintSystem`, `ReceiveOversize` (the task), `RootGet`, `SendRow`, `SystemGet`,
`SendLine`, `EndResponse` (the handlers), `Elapse`. `heard` and `told` are history.
One action is a whole loop iteration of the task although a handler could run in
the middle of it; the races the runs show exist already between iterations.

`Registry` – a root's node table without its rows: a set of entries, and how many more
fit. A report enters its node if it was listed or there was room, and drops the
silent; the room that drops them comes too late for the report itself, as in the
code, which sweeps after it has searched. `HttpNodeServer` and `NodeManager` map
their rows to it (`listed` is the set of live rows, `room` the number of the others,
`offer` the report at the head of the buffer or the level a node has). Its time does
not wrap, so `http_table` bounds the ticks below a turn of the counter; after a turn
a report at tick 0 is entered in a row that looks free, and `Registry` does not hold.

`LeafReports` – who is in that table, seen from the leaves. A leaf's timer gives its
report `COPIES` copies, one per unit of time; a copy is lost, or comes to the root's
buffer, which holds `ROOM` reports in their order. An acknowledgement ends the copies;
so does one for a report that found the buffer full, for the handler acknowledges it
all the same. Leaves change their level, stop and start; the root's own timer, which
alone makes sure that somebody reports, may end when the buffer is full
(mesh_http_server) or lose its report (mesh_websocket_server). The task that empties
the buffer is given no time: `Pass` waits for the timers and the library, never for
`HandleReport`, so the task may be late by any amount. After a report it may wait for
json_server, for ever or until `TreeSent` (`node_manager.c:240`), or end with a tree
longer than `JSON_SIZE` (222); http_server ends at a message longer than `BUF_SIZE`
(`TooLong`, `http_server.c:266`). `late` is history: when the time last went on with a
report in the buffer.

`Broadcast` – a message is its number; a job is a series of copies at one node.
`SendToAllChild` is the timer callback of no_router (and the host loop of mesh2uart,
with `PERIOD = 0`), `Resend` one copy, received by any subset of the children,
each of which runs `json_broadcast_handler`: accept when the number differs from
`last`, start a job of its own. `Restart` clears a node's statics. Sequence numbers
are the library's; the model numbers each sender's messages from 1 and never
repeats one, not even after a restart.

`WsPipeline` – one variable per buffer, one per task position. A blocking send is
two actions: the message fits (`Publish`, `PostJson`, `RequestLoad`), or the task is
entered in `sender` and waits. FreeRTOS allows one waiting sender per message
buffer and asserts it, so a second one reboots the board (`AssertFails`).
`node_manager` is reduced to `Build` and `Publish`. `QuietLatest` says that with nothing on
its way a browser shows nothing or the last tree, never an older one: it shows nothing
when its `init` was dropped. `TreeBoard` is what browsers are
promised.

`NodeManager` – one action, `NodeReport`, is one round of the loop: record, sweep,
sort, then one of `NoTree` (`continue`), `OldTree`, `LongTree` (`break`),
`PublishTree`. A row's `json` says what its pointer refers to between rounds. `InTree`
is the least set closed under `Below`, the children whose objects exist when the
parent's is made. `LEVELS` is the 10 of the loop over the levels: `Made` are the rows it
reaches, and a node below them is not in the tree although it is in the table. `mesh` is the real topology and `Move` changes it. When an object
of an earlier round would be hung the model stops: if it was deleted the program's
behaviour is undefined, if it was kept the tree contains an old subtree.

`ToRoot` – the raw messages of no_router and mesh_ftp_client. A child's timer
(`SendToRoot`) gives its report `MAX_RETRY` copies; each is lost (`LoseCopy`) or comes to
`raw_to_root_handler` (`ReceiveRaw`), whose response ends the retries unless it is lost.
The root compares the report's number with its one `last_recv_seq`. Numbers are the
library's; that no two reports share one is assumed, and were it false the root would
drop the other report. A child's retries are over before its next report (`MAX_RETRY`
seconds against 10).

`UartGateway` – mesh2uart with either interface; `interface` is the build option.
`TypeLine` is the host, `ReadBytes` the next chunk, `KeepCharacter`, `EndLine` and
`RefuseLine` the loop over it in `uart_rx` or `tinyusb_cdc_rx_callback`, `BroadcastLine`
app_main. `ReportToHost` is the timer or `json_to_root_handler`, `WriteToHost` the
writing task; `Limit` is the longest report its buffer takes. Empty lines and the
characters the code skips are left out.

`BleGateway` – the root of mesh2ble. Each GAP event is an action of the NimBLE task;
`nimble_spp_task` takes a step for each look at `conn_handle_subs` and each
notification, since peers come and go between them. `asked`, `steady` and `served` are
history. `BLE_GAP_EVENT_SUBSCRIBE` enters a peer also when it ends its subscription,
as the code does, so an entry says only that this peer has asked since it connected.

`FtpUploader` – the root of mesh_ftp_client, on top of `ToRoot`. app_main registers its IP
handler after the mesh has started, so an address may come unheard: `GotIp` has no
effect before `RegisterIpEvent`. `RootTimer` is the timer's callback in steps: the first
call sets `srcFileName` (`FirstCall`), creates the upload task (`CreateClient`) and removes
the file of an earlier boot (`RemoveOld`); each call appends a line (`AppendOwn`) and asks
for an upload (`Ask`). `RawReport` is `raw_to_root_handler`, in another task and so
between any two of these steps. It counts a report as received whether or not its file
could be opened, as it cannot before `srcFileName` is set; a report that comes after
that and before the `unlink` is removed with the old file. `begun` is history: the
reports accepted before the removal. `Put` sends at least the lines there were at its
start, `PutBreaks` fewer; neither is told to anyone. no_router does the same without a
file.

`RemoteLogging` – `remote_logging_init` waits for `udp_client` or for a timeout, then puts
`logging_vprintf` in place. `abort` is the assertion that ends the program. `sent` is what
`lwip_sendto` has taken, not what the server has: the socket is UDP (`net_logging.c:89`),
and a datagram may be lost after that without the program learning of it.

`MqttClient` – `mqttBuf` is a mailbox of one place which the library's task fills in three
steps (`DataEvent`, `CopyTopic`, `CopyData`) and `mqtt_sub` reads in two. `overtaken` is
history: an event came before the last one was dealt with. Topic and data are one
unit each: what a text longer than `data[64]` of `mqtt.h` does to the memory behind it is
outside the model. So is the DISCONNECTED of an attempt to connect that failed; no
property depends on it.

`Startup` – the steps of each application's `app_main` as a sequence, in the order of
the code. `MainStep` does the next one; what the mesh, the timer, the address and the
tasks may use at that moment are `MeshUses`, `TimerUses`, `EventUses` and `TaskUses`, and
`Objects` is what exists. A handler that sends to a buffer that is not there fails an
assertion of FreeRTOS, and the board boots again (`SendsToNull`): mesh2uart and mesh2ble
start the mesh first and can meet it. The local variables of `app_main` are an object
too: mesh_http_server and mesh_websocket_server pass a pointer to one to their
servers, and it lives because they never return. `TimeFailed` is the `ESP_ERROR_CHECK`
of mesh_sntp_client.

`HelloClients` – the TCP task of mesh_remote_logging, the posts of mesh_http_client and
the messages of mesh_websocket_client, against a server that stops and starts; a socket
remembers the run of the server it was opened to, and the client learns that it is
dead only by a write that fails. The web-socket library connects again when a connection
breaks (`LibraryDisconnects`), but its task ends when the server has closed it with a
Close frame (`LibraryCloses`), as `ws-server.py` does when it is stopped: `ws_client.c:58-64`
sets timeouts and does not ask for a new connection then. What the library does is
external and modelled from these settings.

`WebServer` – a connection waits at the listening socket, in the hands of `server_task`
(`newconn`), in `client_queue`, or in those of `server_handle_task` (`handled`); the ends it
may have are the branches of `http_server_netconn_serve`. A failed accept restarts the
board.

`HttpNodeServerMC`, `NodeManagerMC` and `BroadcastMC` add the symmetry sets and the
shapes of the meshes, `MessagesMC` the direction of the messages (the two share no
state, and one of them rests), `BoardMC` the choice of the application (the two clients
of mesh_mqtt_client run one at a time, for they share nothing); `*_proofs` hold the
theorems.

## 4. Runs

All runs bound time, messages, connections or moves; where the last bounded thing
has happened the model stops although the program goes on, hence
`CHECK_DEADLOCK FALSE` in the runs where no other action is left then.

| Run | Shows |
|---|---|
| `http_table` | three nodes compete for two rows while pages and details are written: the table is a `Registry`, every string is owned by the right node, an undisturbed page is the table. Every order of insertion, eviction, reuse and sort; the tick counter does not wrap |
| `http_wrap` | the ownership with a tick counter that wraps and an oversize report; eviction of exactly the silent |
| `http_page_race`, `http_details_race` | see Findings |
| `messages` | down, with the code's constants (5 copies, one per second, 10 s apart) on the three levels of the README's diagram, with lost copies and one restart of any node: no older message after a newer one, and before the restart no message twice. Up, from a leaf that moves, stops and starts: it stays in the table unless reports that fill the limit came to nothing or were not handled yet, its entry is its newest report that was handled, and it is dropped in time as long as the root's own timer runs and its task leaves no report in the buffer for a period |
| `bcast_overlap` | messages without a pause: accepted by all, within `(MAX_RETRY - 1) * depth` intervals, if one copy per hop arrives |
| `bcast_host` | see Findings |
| `ws_order` | trees reach browsers in order (refinement of `TreeBoard`), the last one when all is quiet, and every browser that was heard comes to show it unless json_server and client_task wait for each other; buffers of three and four units, in which one tree and little else fit, so that every send is also seen blocked or dropped and the board is seen to reboot |
| `ws_deadlock` | see Findings |
| `nm_tree` | four nodes in every shape, deeper than the tree has levels, one move of a subtree, silence and return, a tree that is too long: the table is a `Registry`; the tree is the mesh as far as it has levels once the reports agree with it; old objects are hung only while they do not |
| `nm_restructure` | see Findings |
| `boards` | one application on a board. mesh2uart: lines arrive whole, in order, wherever chunks end and buffers are full, and reports reach the host. mesh2ble: a peer finds the root, no entry is left over, a subscriber is notified. mesh_ftp_client: reports are printed once, those accepted since the old file was removed are merged in order and reach the server. mesh_remote_logging: no line before the reader is ready, every line is handed to the network, without gaps. mesh_mqtt_client: topic and data of one message, both clients serve again after a disconnection – unless what the properties name has happened. `app_main` of all eleven: objects exist before they are used (not in the gateways), tasks are created once, the application comes to do its work. The sending clients: each run of the server hears of the node, a WebSocket server unless it has closed the connection. `web_server.c`: every connection ends |

Bounds. Nodes: two suffice for the races of one reader with one writer, three for
eviction with reuse; a chain of three is the deepest on which copies cannot overlap
with the code's constants. Ticks: `EXPIRE = 0` or `1` of
4 or 16 stands for 60000 of 2^32; what matters is that ages below, at and above the
limit and a wrap occur. Messages in a buffer: one or two, so that full buffers are
common. Levels: one fewer than the four nodes of `nm_tree` may reach stand for the
code's 10. `LeafReports` in `messages`: one leaf and the root (leaves share only the
buffer and the table, and each loss the buffer may cause is in the model without
them); 2 copies, a period of 2, a limit of 4 and a time of 7 for 5, 10, 60: copies of
a report end with its period, the limit is two periods, and the time is long enough
that a silent leaf is dropped with the latest sweep. The buffer has room for two
reports, so that a newer one waits behind an older one and a third finds it full.
The bound of `TableCurrent` made one smaller is violated, and so is `TableCurrent` without
the exception for a late task. `boards`: two
children are the fewest that can overlap, and their two copies the fewest with which
one can repeat after the other; a line of three characters is longer than the line
buffer of two and a report of two than the USB buffer of one; two connections, so
that a handle is used again beside another peer; four log lines against a buffer of
two; two messages, so that one can overtake the other; a queue of one connection, for
which three are the fewest that make `server_task` wait while another is served; two
runs of a server, so that a socket is seen to outlive one; two boots.

Fairness (`WsPipeline`): tasks run, so each step of a task that can go on is weakly
fair. The blocking sends are strongly fair: a waiting task is woken when a message
is taken and the only competitors are a timer of 500 ticks and people opening
pages. For that the timer requests must leave room for a tree: `MaxBacklog = 2` of
`TO_CLIENT = 4` says that client_task, when it is not blocked, serves a request
before two more arrive. With a backlog that fills the buffer a timer can keep it
full for ever, which is a slow client and not a wrong one. `Broadcast`: retry timers fire and time
passes, and no node restarts (`SteadyNext`); nothing is assumed of delivery but `Lossy = FALSE`, one copy of each series.
`boards`: the tasks and the periodic timer of an application go on (weak fairness of
`WriteToHost`, `RootTimer`, `ReceiveLayer`, `SendLine`, `SubStep`, `PubStep`: a task that can
run is scheduled, a timer that is started fires), and a put that is tried again and
again succeeds once (strong fairness of `Put`; without it a network that breaks every
transfer lets nothing arrive). The main task goes on with `app_main` (`MainStep`, `Waited`,
and `obtain_time`'s loop of looks at the clock, which ends with or without an answer).
The tasks of the sending clients run, and the web-socket library connects again after a
broken connection (`LibraryConnects`), which its `reconnect_timeout_ms` is for; nothing is
assumed after a Close frame, where it does not. Both tasks of the web server
run and `netconn_write` ends: lwIP gives a connection up whose client does not
acknowledge. Nothing is assumed of peers, brokers, servers, addresses or copies.

Liveness uses weak fairness wherever a task's step, once possible, stays possible
until it is taken.

## 5. Proofs

TLAPS checks these for all values of the constants that satisfy the named
assumptions of the modules (`NodeTableAssumption`, `HttpNodeServerAssumption`,
`NodeManagerAssumption`, `BroadcastAssumption`, `LeafAssumption`, `WsPipelineAssumption`,
`ToRootAssumption`, `FtpAssumption`, `UartAssumption`, `BleAssumption`, `LogAssumption`,
`MqttAssumption`, `StartupAssumption`), so for any number of nodes, rows, levels, copies,
children, connections, browsers, any size of the buffers and any counter width. The
bounds on time, moves, messages and boots are constants as well: a theorem holds for
each of them. What a theorem assumes beyond that is named with it.

The proof modules follow the parts of the system: `NodeTable_proofs` (lemmas that both
roots share), `HttpNodeServer_proofs`, `NodeManager_proofs`, `WsPipeline_proofs`,
`Messages_proofs` (`Broadcast` and `LeafReports`), `ToRoot_proofs` (`ToRoot` and
`FtpUploader`), `Gateway_proofs` (`BleGateway` and `UartGateway`), `Clients_proofs`
(`RemoteLogging`, `MqttClient`, `Startup`).

**The table of mesh_http_server** (`HttpNodeServer_proofs`)

* `TypeCorrect`. Each stage of the handler (record, sweep,
  sort) maps tables to tables; the buffer never exceeds its size.
* `TableCorrect`: `UniqueMac`, `HeapExact`, `RowsLatest`. The invariant `IInv` states them
  of the rows themselves (`Unique`, `Named`, `Latest`, `Exact`) and adds that a row with
  a string has a name and that while a string is printed (`pc = "print"`) its row holds
  the one pointer to a freed block: without it `HeapExact` is not inductive, since it
  excepts exactly that row. The lemmas carry the facts through record, sweep and an
  arbitrary permutation.
* `EvictionCorrect`, `SweepCorrect`: the action properties `EvictOnlySilent`, `StaleGone`.
  `TickInv` adds that a row is stamped with `heard % TICKS`; two lemmas say that the
  unsigned difference of two stamps never exceeds the true age, and equals it when
  less than `TICKS` ticks passed, which `Elapse` guards: some report is handled within
  each turn of the counter (2^32 ticks, 49 days at 1000 ticks per second; the models
  are parametric in `TICKS`).
* `StringCorrect`: `StringOwner`. `StringInv` adds that a row that was given up has no
  string, so that whoever gets the row next starts without one. It assumes `NotTurned`,
  that the time is between 1 and `TICKS - 1`: at tick 0 a fresh row carries the mark of a
  free one, and is given up with its string. That is the code's behaviour, and the
  theorem is false without the assumption. It holds in the first 2^32 ticks of a root.
* `PageCorrect`: `PageExactWhenQuiet`. Of the rows written so far (`PageInv`), a page
  during which no message was handled shows each node once; `Unique` makes the next
  row one that was not shown.
* `RegistryCorrect`: `ImplementsRegistry`, also under `NotTurned`. `NodeTable_proofs` gives
  what record, sweep and sort do to the entries of a table (`RecordedEntries`,
  `SweptEntries`, `SortedEntries`), that a table that is not full has a first free row
  (`FirstFreeExists`), and that the free rows are as many as `Registry` has room
  (`RoomIsRest`, by a bijection from live rows to entries, which `Unique` makes one).

**The tree of mesh_websocket_server** (`NodeManager_proofs`)

* `OldObjectsCorrect`: `OldOnlyWhileMoving`. `MeshTree` says of the mesh that it is a tree
  whose levels count from the root, whatever subtrees moved; then in a table that
  agrees with it a child is deeper than its parent, so its object is made earlier,
  whichever order the sort left rows of one level in.
* `TreeCorrect`: `TreeExact`. While the task receives, the tree of the table is
  published (`Current`); that the least set closed under `Below` is exactly the nodes
  with a listed path to the root is shown by induction on the level, as the absence of
  a least counterexample.
* `RegistryCorrect`: `ImplementsRegistry`, with the lemmas of `NodeTable_proofs` and
  without `NotTurned`, since the module's time begins at 1 and `MaxTime < TICKS` is one
  of its assumptions.

**The pipeline to the browsers** (`WsPipeline_proofs`)

* `PagesCorrect`: `ShowsInOrder`, the refinement of `TreeBoard`. `Order` says that the trees
  from the pages back to node_manager get newer: shown, in client_task's hands, in its
  buffer, stored, in json_server's buffer. That no page shows an older tree after a
  newer one is not inductive alone, for nothing keeps an older tree from being on its
  way behind it.
* `QuietCorrect`: `QuietLatest`. `Promise` says what is still to come: as long as the last
  tree is not stored its message is in the buffer, and as long as a page that was
  heard does not show what is stored, either that tree is on its way to it or its
  request is (`Asked`, `Forwarded`). With all tasks at rest nothing is on its way.
  Neither theorem needs the sizes of the buffers, and both include the boots.

**Messages over the mesh** (`Messages_proofs`)

* `TypeCorrect` of `Broadcast`.
* `OrderCorrect`: under `NoOverlap`, `InOrder`. `OrderInv` says that a node with children
  sends copies of the last message only and will have finished before the root may
  send again. `NoOverlap` is the condition `(MAX_RETRY - 1) * (depth + 1) < PERIOD` for
  every relaying node; the code's 5 and 10 satisfy it up to relays at depth 1, that is
  three levels. On the next level copies of successive messages do interleave.
* `OnceCorrect`: under `NoOverlap`, `AtMostOnce`: each message at most once until the
  first restart. `OnceInv` adds that a
  node has one job, that it sends on only what it accepted, that a message reaches
  a node through its parent, and that a node which accepted the last message
  remembers the number under which its parent sends it.
* `TimeCorrect`: `InTime` of `FairSpec`, if one copy of each series gets through
  (`~Lossy`) and no node restarts; it needs no `NoOverlap`. The difficulty is a child
  that drops a copy because another message made it remember the same number:
  `Numbered` says that the numbers of one sender differ, `Received` that a child a copy
  reached, or that remembers its number, has accepted that message. `Deadlines` bounds
  the last copy of every job, and `Coming` says that what a node has not accepted is
  being sent by its parent, or has not come to the parent. The theorem then looks at
  a node of least depth that has not accepted the message in time: its parent has, so
  a job is under way, and its deadline has passed.
* `TableCorrect`: `TableCurrent` of `LeafReports`. That an entry is its node's newest report
  (`Levels`) rests on time at the sender: `Copies` says that only the last report of a
  node is being sent and that all its copies are sent before the node's timer expires
  again, which is what `COPIES <= REPORT_PERIOD` is for; and on the order of the buffer:
  `AtHand` says that the reports of one node wait in the order in which they were sent,
  however long, none older than the newest that was handled. That the silent are dropped
  in time rests on `Swept`: since the root's timer last expired there was a sweep, or its
  report waits in the buffer and the time has not gone on since, or it has, and then
  `late` says when. Nothing is assumed of the task: the bound is on a task that has left
  no report in the buffer for a period, and one that waits or has ended keeps the table.
* `KeptCorrect`: the action property `KeptWhileHeard`. `Running` counts a node's reports: its
  timer expires no later than its entry's time and one period for each report since.
  So when the sweep finds the entry older than the limit, that many reports were lost
  or are still waiting.
* `TableTypeCorrect`: `LeafTypeOK`; with `Places`, `room` is what the entries leave, so the
  table never has more entries than fit although the room that a sweep makes comes
  after the insertion. `Fits` says the same of the message buffer.

**Reports to a root that remembers one number** (`ToRoot_proofs`)

* `AnsweredCorrect`: the action property `AnsweredIsPrinted`, a child stops before its last
  copy only when its report was printed; what is remembered was printed (`Heard`). `OnceCorrect`: `PrintedOnce`. `Remembered` says that before two
  children have repeated at the same time, a report that is being repeated and was
  printed is the one in `last_recv_seq`: the comparison then catches every copy.
* `MergeCorrect`: `AcceptedIsMerged` of `FtpUploader`; `UploadCorrect`: `ServerIsPrefix`. `FileInv`
  adds that before the old file is removed the upload task, which exists by then, has no
  request and the server has no line (`Created`), and that afterwards no line of an
  earlier boot is in the file, which has not got shorter since a put began. Reports that
  come before the removal are accepted and lost in the model as in the code.

**Gateways** (`Gateway_proofs`)

* `AdvertisingCorrect`: `Reachable`, strengthened to an equality, since a
  connection may come only while the root advertises. `SubscriptionCorrect` and
  `NotificationCorrect`: `SubsInv` adds that who is in `steady` is still entered and that
  the loop has notified those of them whose handle it has passed.
* `CharactersCorrect`: `CharactersInOrder`. `OrderInv` and `SentOrder` put everything that is
  on its way into one order: the messages, `rx_buffer`, the chunk, the driver.
* `LinesCorrect`: `WholeLines`. As long as no line was refused the characters that are not
  yet gathered follow each other as the host typed them (`Flow`), and `rx_buffer` holds
  what came before them of the line that is next, cut at `BUF_SIZE` (`Gathered`). After a
  refusal neither is true: `rx_buffer` is not emptied.

**Clients and start-up** (`Clients_proofs`)

* `StartCorrect`: `ReaderReady`; the notification comes from
  `udp_client` only, and `remote_logging_init` runs once (`StartInv`). `LogCorrect`:
  `LogWithoutGaps`; the lines in the buffer continue those that were sent, which needs
  `StartInv`, for nothing may be logged before the task is in its loop.
* `MailCorrect`: `PrintedWhole`. `MailInv` says who has what of the last message: as long as
  none came too early, the handler writes the mailbox only while `mqtt_sub` waits, and
  what the task reads is of one message.
* `StartupCorrect`: `StartupSafe`, over the sequence of steps of each application. The
  invariant says only when the tasks were created; that an object exists when it is
  used follows from the places of the steps (`Steps`: what `app_main` creates stands before
  what uses it, and the two web roots never return).

What the proofs showed about the models: `TaskUses` of `Startup` had cases that
overlap, so that its value depended on the order TLC tries them in; they are disjoint
now. `FtpUploader` had not said that the root's own lines and those of an earlier boot
differ from the reports, without which `AcceptedIsMerged` is false. `StringOwner` and the
refinement of `Registry` need `NotTurned`, which the runs had only as a bound.
`CharactersInOrder` and `AcceptedIsMerged` filtered sequences, a recursion whose properties
need induction over data; they now speak of positions, and say the same.

Proved and in no run: `TypeOK` of the modules whose runs ask something else (`ToRoot`,
`BleGateway`, `RemoteLogging`, `LeafReports`); `UniqueMac` and `RowsLatest`, which
`ImplementsRegistry` contains in `http_table`; `AnsweredIsPrinted`.

Only model-checked: liveness (`EveryoneHears`, `ServedUnlessJammed`, `HostGetsReports`,
`Uploaded`, `LogSent`, `Subscribes`, `PublishesAgain`, `ServesOnceHeard`,
`HelloAgain`, `ConnectionsEnd`), which is beyond the prover: fairness and `ENABLED` are
out of its reach. `HelloClients` and `WebServer`, whose properties are of this kind, have
no theorem. The five properties of the runs in section 6 are false. The type invariants
of `WsPipeline`, `NodeManager`, `UartGateway`, `FtpUploader`, `MqttClient` and `Startup` are
not stated as theorems: the proofs carry as much of them as they need.

## 6. Findings

Each is a run in which TLC finds a behaviour of the code that a sentence of the
repository rules out.

* `http_page_race`: the page is written while the table is sorted; a node appears
  twice or not at all.
* `http_details_race`: the details of one node continue with those of another.
* `bcast_host`: when the host of mesh2uart sends two lines within five seconds their
  copies interleave, and every node accepts and relays both again and again.
* `ws_deadlock`: json_server and client_task wait for each other. It takes a buffer
  xMessageBufferJsonServer with less room than a `load` message, for instance five
  publications of 400 bytes while client_task writes to a slow browser.
* `nm_restructure`: a node that moved down reports before its child: its object is
  made first and the child's deleted object is hung under it.

Seen in the models and not given a run of their own: a report handled when the tick
counter reads 0 leaves a row that looks free with its string (`HeapExact` and the
proofs allow for it, `StringOwner` is checked before the wrap); with the code's
constants copies of successive messages interleave from the fourth level on; a
browser's `init` that finds the buffer full is dropped and not repeated; a tree of
more than `JSON_SIZE` characters ends node_manager; `parent_rssi` of a known node is
never updated. A gateway that hears a report before its buffer exists boots again. A
full buffer ends the timers of mesh_http_server, and with them the sweep that does not
depend on the leaves: after that a silent table stays as it is. So does a table whose
task waits or has ended, while timers and leaves go on (`TableCurrent` excepts both). When two children repeat their reports at the same time each copy
makes the root forget the other's number, and both are printed again. A line that the
full buffer of mesh2uart refuses is not discarded: the next line is appended to it, and
the rest of the chunk is lost. A report longer than `CONFIG_TINYUSB_CDC_RX_BUFSIZE` stays
at the head of the buffer and nothing reaches the USB host after it. A peer of mesh2ble
that ended its subscription is still notified. `udp_client` ends at the first `sendto` that
fails; logging goes on until the buffer is full and the assertion in `logging_vprintf`
stops the program; a datagram lost on its way is not sent again. A report that the root of
mesh_ftp_client accepts between `srcFileName` being set and the `unlink` is deleted with the
old file, though its sender was told that it had arrived. mesh_websocket_client says "Not
connected server" for ever once the server has closed its connection. mqtt_sub ends at the first disconnection, and an event that comes
before the task has read the last one replaces it, CONNECTED included. The upload task
ends at the first connection or login that fails and is never started again.

## 7. Not modelled

The printing of mesh_sntp_client; the requests of `web_server.c` beyond how they
end; the characters and lengths of a text written over BLE, the GATT table and the
security settings. The contents of messages
beyond what the properties tell apart, cJSON, Wi-Fi, mDNS, the HTTP and web-socket
libraries, the heap but for the system strings, and what FreeRTOS leaves undefined
when two tasks write one message buffer at the same moment: sends are atomic here.
Reports are handled in `NodeManager` in the state of the mesh they were sent in; that a
table can show a node's old level while newer copies are lost is in `LeafReports`.
mesh_local_control has no program of a node in the repository, and the Python servers
are test tools outside the mesh.
