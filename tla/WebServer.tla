----------------------------- MODULE WebServer -----------------------------
(***************************************************************************)
(* web_server.c of mesh_websocket_server: server_task accepts connections  *)
(* and queues them for server_handle_task, which reads one request of      *)
(* each, answers it and closes the connection, or hands it over to the     *)
(* websocket library.  A connection is its number in the order in which    *)
(* they are opened.                                                        *)
(***************************************************************************)
EXTENDS Naturals, Sequences

CONSTANTS
    CLIENT_QUEUE,    \* client_queue_size (10)
    MaxConnections,  \* bound on the connections
    MaxRestarts      \* bound on the restarts

ASSUME WebAssumption ==
    /\ CLIENT_QUEUE \in Nat \ {0}
    /\ MaxConnections \in Nat
    /\ MaxRestarts \in Nat

VARIABLES
    requested,    \* connections that clients have opened
    accepted,     \* of these, those server_task has accepted
    newconn,      \* the one it is putting into the queue, or 0
    clientQueue,  \* client_queue
    handled,      \* the one server_handle_task serves, or 0
    ended,        \* for every connection, how it ended
    restarts

webVars == <<requested, accepted, newconn, clientQueue, handled, ended, restarts>>

Connection == 1 .. MaxConnections

WebTypeOK ==
    /\ requested \in 0 .. MaxConnections
    /\ accepted \in 0 .. requested
    /\ {newconn, handled} \subseteq 0 .. accepted
    /\ clientQueue \in Seq(1 .. accepted) /\ Len(clientQueue) <= CLIENT_QUEUE
    /\ ended \in [Connection -> {"no", "answered", "closed", "websocket", "reset"}]
    /\ restarts \in 0 .. MaxRestarts

WebInit ==
    /\ requested = 0 /\ accepted = 0 /\ newconn = 0 /\ clientQueue = <<>> /\ handled = 0
    /\ ended = [c \in Connection |-> "no"]
    /\ restarts = 0

\* A client connects; the TCP stack keeps the connection until it is accepted.
OpenConnection ==
    /\ requested < MaxConnections
    /\ requested' = requested + 1
    /\ UNCHANGED <<accepted, newconn, clientQueue, handled, ended, restarts>>

-----------------------------------------------------------------------------
(* server_task.                                                             *)

Accept ==
    /\ newconn = 0
    /\ accepted < requested
    /\ accepted' = accepted + 1
    /\ newconn' = accepted + 1
    /\ UNCHANGED <<requested, clientQueue, handled, ended, restarts>>

QueueClient_Drops ==
    /\ newconn # 0
    /\ clientQueue' = IF Len(clientQueue) < CLIENT_QUEUE
                      THEN Append(clientQueue, newconn) ELSE clientQueue
    /\ newconn' = 0
    /\ UNCHANGED <<requested, accepted, handled, ended, restarts>>

\* xQueueSendToBack waits until there is room.
QueueClient ==
    /\ newconn # 0
    /\ Len(clientQueue) < CLIENT_QUEUE
    /\ clientQueue' = Append(clientQueue, newconn)
    /\ newconn' = 0
    /\ UNCHANGED <<requested, accepted, handled, ended, restarts>>

\* netconn_accept fails: esp_restart.  No connection survives it.
AcceptFails ==
    /\ newconn = 0
    /\ restarts < MaxRestarts
    /\ restarts' = restarts + 1
    /\ accepted' = requested
    /\ clientQueue' = <<>> /\ handled' = 0
    /\ ended' = [c \in Connection |->
                    IF c <= requested /\ ended[c] \in {"no", "websocket"}
                    THEN "reset" ELSE ended[c]]
    /\ UNCHANGED <<requested, newconn>>

-----------------------------------------------------------------------------
(* server_handle_task.                                                      *)

TakeClient ==
    /\ handled = 0
    /\ clientQueue # <<>>
    /\ handled' = Head(clientQueue)
    /\ clientQueue' = Tail(clientQueue)
    /\ UNCHANGED <<requested, accepted, newconn, ended, restarts>>

Finish(how) ==
    /\ handled # 0
    /\ ended' = [ended EXCEPT ![handled] = how]
    /\ handled' = 0
    /\ UNCHANGED <<requested, accepted, newconn, clientQueue, restarts>>

\* A page, a file, or the error page.
SendFile == Finish("answered")

\* Not a GET, an empty buffer, or nothing within a second.
CloseUnanswered == Finish("closed")

\* ws_server_add_client takes the connection over, or closes it when it has no
\* room for one more: either way it is the library's.
UpgradeWebsocket == Finish("websocket")

WebNext ==
    \/ OpenConnection
    \/ Accept \/ QueueClient \/ AcceptFails
    \/ TakeClient \/ SendFile \/ CloseUnanswered \/ UpgradeWebsocket

\* Both tasks run, a request is read within a second, and netconn_write ends:
\* a client that asked reads the answer, or TCP gives the connection up.
WebSpec ==
    /\ WebInit /\ [][WebNext]_webVars
    /\ WF_webVars(Accept) /\ WF_webVars(QueueClient) /\ WF_webVars(TakeClient)
    /\ WF_webVars(SendFile \/ CloseUnanswered \/ UpgradeWebsocket)

(* Each connection a client opens is answered, closed or handed over, although
   the queue is short, clients may be silent and the board may restart; none is
   forgotten between the two tasks. *)
ConnectionsEnd ==
    \A c \in Connection : requested >= c ~> ended[c] # "no"
=============================================================================
