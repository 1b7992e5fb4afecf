---------------------------- MODULE HelloClients ----------------------------
(***************************************************************************)
(* The three clients that tell a server about the node again and again:    *)
(* mesh_remote_logging over a TCP connection it keeps open,                *)
(* mesh_http_client with a POST each time, mesh_websocket_client over a    *)
(* library that connects again by itself when a connection breaks, but not *)
(* after the server has closed it.  The server is external: it stops and   *)
(* starts again, and a connection of the earlier run is dead without the   *)
(* client knowing.                                                         *)
(***************************************************************************)
EXTENDS Naturals

CONSTANT MaxRuns  \* bound on the runs of the server

ASSUME HelloAssumption == MaxRuns \in Nat

VARIABLES
    protocol,  \* of this client: "tcp", "http" or "websocket"
    run,       \* how often the server has been started
    up,        \* does it run?
    task,      \* of the client: "connect" or "send"
    socket,    \* g_sockfd, or the library's: the run it was opened to, 0 if none
    library,   \* does the WebSocket library still look for the server?
    hello      \* the last run of the server that got a message

helloVars == <<protocol, run, up, task, socket, library, hello>>

HelloTypeOK ==
    /\ protocol \in {"tcp", "http", "websocket"}
    /\ run \in 0 .. MaxRuns
    /\ {up, library} \subseteq BOOLEAN
    /\ task \in {"connect", "send"}
    /\ socket \in 0 .. run
    /\ hello \in 0 .. run

HelloInit ==
    /\ protocol \in {"tcp", "http", "websocket"}
    /\ run = 0 /\ up = FALSE
    /\ task = IF protocol = "http" THEN "send" ELSE "connect"
    /\ socket = 0 /\ library = TRUE /\ hello = 0

ServerStarts ==
    /\ ~up /\ run < MaxRuns
    /\ up' = TRUE /\ run' = run + 1
    /\ UNCHANGED <<protocol, task, socket, library, hello>>

ServerStops ==
    /\ up
    /\ up' = FALSE
    /\ UNCHANGED <<protocol, run, task, socket, library, hello>>

\* Does the other end of the socket still exist?
Linked == up /\ socket = run

-----------------------------------------------------------------------------
\* socket_tcp_client_create: a socket that cannot connect is closed again.
TcpConnect ==
    /\ protocol = "tcp" /\ task = "connect"
    /\ IF up
       THEN socket' = run /\ task' = "send"
       ELSE UNCHANGED <<socket, task>>
    /\ UNCHANGED <<protocol, run, up, library, hello>>

TcpWrite ==
    /\ protocol = "tcp" /\ task = "send" /\ Linked
    /\ hello' = run
    /\ UNCHANGED <<protocol, run, up, task, socket, library>>

\* The first writes to a dead connection may succeed: they are lost.
TcpWriteFails_Continues ==
    /\ protocol = "tcp" /\ task = "send" /\ ~Linked
    /\ UNCHANGED helloVars

\* close, g_sockfd = -1.
TcpWriteFails ==
    /\ protocol = "tcp" /\ task = "send" /\ ~Linked
    /\ socket' = 0 /\ task' = "connect"
    /\ UNCHANGED <<protocol, run, up, library, hello>>

-----------------------------------------------------------------------------
\* http_post_with_url: a client of its own for each message.  A message that
\* fails is only logged.
HttpPost ==
    /\ protocol = "http"
    /\ hello' = IF up THEN run ELSE hello
    /\ UNCHANGED <<protocol, run, up, task, socket, library>>

-----------------------------------------------------------------------------
\* The library connects when there is a server, and notices a dead connection.
LibraryConnects ==
    /\ protocol = "websocket" /\ library /\ socket = 0 /\ up
    /\ socket' = run
    /\ UNCHANGED <<protocol, run, up, task, library, hello>>

LibraryDisconnects ==
    /\ protocol = "websocket" /\ socket # 0 /\ ~Linked
    /\ socket' = 0
    /\ UNCHANGED <<protocol, run, up, task, library, hello>>

\* The server closes the connection with a Close frame, as ws-server.py does when it
\* is stopped by hand or has waited too long for the node's answer: the task of the
\* library ends, because ws_client.c does not ask it to connect again after that.
LibraryCloses ==
    /\ protocol = "websocket" /\ socket # 0
    /\ socket' = 0 /\ library' = FALSE
    /\ UNCHANGED <<protocol, run, up, task, hello>>

IsConnected == socket # 0

WsWait ==
    /\ protocol = "websocket" /\ task = "connect" /\ IsConnected
    /\ task' = "send"
    /\ UNCHANGED <<protocol, run, up, socket, library, hello>>

\* Sent only if esp_websocket_client_is_connected.
WsSend ==
    /\ protocol = "websocket" /\ task = "send"
    /\ hello' = IF IsConnected /\ Linked THEN run ELSE hello
    /\ UNCHANGED <<protocol, run, up, task, socket, library>>

HelloNext ==
    \/ ServerStarts \/ ServerStops
    \/ TcpConnect \/ TcpWrite \/ TcpWriteFails
    \/ HttpPost
    \/ LibraryConnects \/ LibraryDisconnects \/ LibraryCloses
    \/ WsWait \/ WsSend

\* The tasks run, the library does, and TCP notices a dead connection.
HelloSpec ==
    /\ HelloInit /\ [][HelloNext]_helloVars
    /\ WF_helloVars(TcpConnect) /\ WF_helloVars(TcpWrite)
    /\ WF_helloVars(TcpWriteFails)
    /\ WF_helloVars(HttpPost)
    /\ WF_helloVars(LibraryConnects) /\ WF_helloVars(LibraryDisconnects)
    /\ WF_helloVars(WsWait) /\ WF_helloVars(WsSend)

(* However often the server stops and starts, also while a message is on its way
   or before the node noticed the last time: each run of it hears of the node
   again, unless it ends.  A WebSocket server whose Close frame has reached the
   node does not: the client logs "Not connected server" from then on. *)
HelloAgain == up ~> (hello = run \/ ~up \/ ~library)
=============================================================================
