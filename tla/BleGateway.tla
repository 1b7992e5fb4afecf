---------------------------- MODULE BleGateway -----------------------------
(***************************************************************************)
(* The root of mesh2ble: the GAP events and writes of the peers, handled   *)
(* in the task of the NimBLE host, beside nimble_spp_task, which notifies  *)
(* the reports of the mesh to the peers that conn_handle_subs names.       *)
(***************************************************************************)
EXTENDS Naturals, Sequences, FiniteSets

CONSTANTS
    MAX_CONNECTIONS,  \* CONFIG_BT_NIMBLE_MAX_CONNECTIONS
    BLE_MESSAGES,     \* the reports that fit in xMessageBufferBle
    MESH_MESSAGES     \* the writes that fit in xMessageBufferMesh

ASSUME BleAssumption ==
    {MAX_CONNECTIONS, BLE_MESSAGES, MESH_MESSAGES} \subseteq Nat \ {0}

Handle == 0 .. MAX_CONNECTIONS

VARIABLES
    connected,    \* the connections of the NimBLE host
    advertising,
    subs,         \* conn_handle_subs
    asked,        \* the peers that subscribed since they connected
    mBle,         \* the reports in xMessageBufferBle
    mMesh,        \* the writes in xMessageBufferMesh
    spp,          \* where nimble_spp_task is: "receive", "check" or "notify"
    conn,         \* i of its loop over the connections
    steady,       \* subscribed when it took the report, and still
    served        \* notified of it

bleVars == <<connected, advertising, subs, asked, mBle, mMesh, spp, conn,
             steady, served>>
sppVars == <<mBle, spp, conn, served>>

BleTypeOK ==
    /\ connected \subseteq Handle
    /\ Cardinality(connected) <= MAX_CONNECTIONS
    /\ advertising \in BOOLEAN
    /\ subs \in [Handle -> BOOLEAN]
    /\ {asked, steady, served} \subseteq SUBSET Handle
    /\ mBle \in 0 .. BLE_MESSAGES /\ mMesh \in 0 .. MESH_MESSAGES
    /\ spp \in {"receive", "check", "notify"}
    /\ conn \in 0 .. MAX_CONNECTIONS + 1

BleInit ==
    /\ connected = {} /\ advertising = TRUE
    /\ subs = [h \in Handle |-> FALSE]
    /\ asked = {} /\ mBle = 0 /\ mMesh = 0
    /\ spp = "receive" /\ conn = 0 /\ steady = {} /\ served = {}

\* The host starts advertising as long as it can take one more connection.
CanAdvertise(peers) == Cardinality(peers) < MAX_CONNECTIONS

\* BLE_GAP_EVENT_LINK_ESTAB: a connection ends the advertising, the handler
\* resumes it when there may be several.  (After a failed attempt it does too.)
Resumes_OffByOne(peers) == MAX_CONNECTIONS > 2 /\ CanAdvertise(peers)
Resumes(peers) == MAX_CONNECTIONS > 1 /\ CanAdvertise(peers)

LinkEstablished(h) ==
    /\ advertising /\ h \notin connected
    /\ connected' = connected \union {h}
    /\ advertising' = Resumes(connected')
    /\ UNCHANGED <<subs, asked, mMesh, steady, sppVars>>

SubsWithout_Kept(h) == subs
SubsWithout(h) == [subs EXCEPT ![h] = FALSE]

Disconnect(h) ==
    /\ h \in connected
    /\ connected' = connected \ {h}
    /\ subs' = SubsWithout(h)
    /\ advertising' = CanAdvertise(connected')
    /\ asked' = asked \ {h}
    /\ steady' = steady \ {h}
    /\ UNCHANGED <<mMesh, sppVars>>

\* BLE_GAP_EVENT_SUBSCRIBE comes when a peer subscribes and when it ends its
\* subscription; the handler does the same.
Subscribe(h) ==
    /\ h \in connected
    /\ subs' = [subs EXCEPT ![h] = TRUE]
    /\ asked' = asked \union {h}
    /\ UNCHANGED <<connected, advertising, mMesh, steady, sppVars>>

\* ble_svc_gatt_handler; a full buffer drops the text.
WriteChr(h) ==
    /\ h \in connected /\ mMesh < MESH_MESSAGES
    /\ mMesh' = mMesh + 1
    /\ UNCHANGED <<connected, advertising, subs, asked, steady, sppVars>>

\* app_main; module Broadcast continues from here.
BroadcastText ==
    /\ mMesh > 0
    /\ mMesh' = mMesh - 1
    /\ UNCHANGED <<connected, advertising, subs, asked, steady, sppVars>>

\* The root's timer or json_to_root_handler; a full buffer drops the report.
ReportToPeers ==
    /\ mBle < BLE_MESSAGES
    /\ mBle' = mBle + 1
    /\ UNCHANGED <<connected, advertising, subs, asked, mMesh, spp, conn,
                   steady, served>>

ReceiveReport ==
    /\ spp = "receive" /\ mBle > 0
    /\ mBle' = mBle - 1
    /\ spp' = "check" /\ conn' = 0
    /\ steady' = {h \in Handle : subs[h]} /\ served' = {}
    /\ UNCHANGED <<connected, advertising, subs, asked, mMesh>>

\* The loop's condition.
LastConn_OffByOne == MAX_CONNECTIONS - 1
LastConn == MAX_CONNECTIONS

CheckSubs ==
    /\ spp = "check" /\ conn <= LastConn
    /\ \/ subs[conn] /\ spp' = "notify" /\ UNCHANGED conn
       \/ ~subs[conn] /\ conn' = conn + 1 /\ UNCHANGED spp
    /\ UNCHANGED <<connected, advertising, subs, asked, mMesh, mBle, steady,
                   served>>

\* Between the test and the call the connection may have ended: an error that
\* is only logged, or a notification to the next peer with that handle.
Notify ==
    /\ spp = "notify"
    /\ served' = served \union ({conn} \intersect connected)
    /\ spp' = "check" /\ conn' = conn + 1
    /\ UNCHANGED <<connected, advertising, subs, asked, mMesh, mBle, steady>>

EndReport ==
    /\ spp = "check" /\ conn > LastConn
    /\ spp' = "receive"
    /\ UNCHANGED <<connected, advertising, subs, asked, mMesh, mBle, conn,
                   steady, served>>

BleNext ==
    \/ \E h \in Handle :
        LinkEstablished(h) \/ Disconnect(h) \/ Subscribe(h) \/ WriteChr(h)
    \/ BroadcastText
    \/ ReportToPeers
    \/ ReceiveReport \/ CheckSubs \/ Notify \/ EndReport

BleSpec == BleInit /\ [][BleNext]_bleVars

(* A peer finds the root whenever the root can take one more connection,
   whatever the order of connections, failures and disconnections. *)
Reachable == CanAdvertise(connected) => advertising

(* No entry of conn_handle_subs is left over from an earlier peer with the same
   handle.  (A peer that ended its subscription is still entered.) *)
NoStaleSubscription == \A h \in Handle : subs[h] => h \in connected \intersect asked

(* "Check if client has subscribed to notifications": a peer that is subscribed
   from before the task takes a report until the task is done with it has been
   notified, whoever comes and goes meanwhile and whatever its handle is. *)
SteadyServed == spp = "receive" => steady \subseteq served
=============================================================================
