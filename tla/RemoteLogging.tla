--------------------------- MODULE RemoteLogging ---------------------------
(***************************************************************************)
(* mesh_remote_logging: the log of a node goes through a message buffer to *)
(* a task that sends it over UDP.  remote_logging_init waits until that    *)
(* task is ready before it puts logging_vprintf in place of vprintf.       *)
(***************************************************************************)
EXTENDS Naturals, Sequences

CONSTANTS
    LOG_MESSAGES,  \* the lines that fit in xMessageBufferUDP
    MaxLogged      \* bound: the lines that are logged

ASSUME LogAssumption ==
    /\ LOG_MESSAGES \in Nat \ {0}
    /\ MaxLogged \in Nat

VARIABLES
    tcpTask,    \* tcp_task: tcp_client_write_task was created
    starting,   \* remote_logging_init: "none", "create", "wait" or "done"
    handle,     \* xMessageBufferUDP # NULL
    buffer,     \* its lines
    udp,        \* udp_client: "none", "setup", "loop" or "ended"
    notified,   \* the task's notification
    logged,     \* the number of lines that were put in the buffer
    sent,       \* the lines that udp_client has handed to the network
    abort       \* why the program has stopped: "no", "full" or "null"

logVars == <<tcpTask, starting, handle, buffer, udp, notified, logged,
             sent, abort>>

LogTypeOK ==
    /\ {tcpTask, handle, notified} \subseteq BOOLEAN
    /\ starting \in {"none", "create", "wait", "done"}
    /\ udp \in {"none", "setup", "loop", "ended"}
    /\ logged \in 0 .. MaxLogged
    /\ {buffer, sent} \subseteq Seq(1 .. MaxLogged)
    /\ Len(buffer) <= LOG_MESSAGES
    /\ abort \in {"no", "full", "null"}

LogInit ==
    /\ tcpTask = FALSE /\ starting = "none" /\ handle = FALSE /\ buffer = <<>>
    /\ udp = "none" /\ notified = FALSE /\ logged = 0 /\ sent = <<>>
    /\ abort = "no"

Running == abort = "no"

\* ip_event_sta_got_ip_handler, each time the node gets an address.
IpEvent ==
    /\ Running
    /\ tcpTask' = TRUE
    /\ starting' = IF tcpTask THEN starting ELSE "create"
    /\ UNCHANGED <<handle, buffer, udp, notified, logged, sent, abort>>

CreateBuffer ==
    /\ Running /\ starting = "create"
    /\ handle' = TRUE /\ udp' = "setup" /\ starting' = "wait"
    /\ UNCHANGED <<tcpTask, buffer, notified, logged, sent, abort>>

\* udp_client has its socket and its memory.
UdpReady ==
    /\ Running /\ udp = "setup"
    /\ notified' = TRUE /\ udp' = "loop"
    /\ UNCHANGED <<tcpTask, starting, handle, buffer, logged, sent, abort>>

UdpFails ==
    /\ Running /\ udp = "setup"
    /\ udp' = "ended"
    /\ UNCHANGED <<tcpTask, starting, handle, buffer, notified, logged,
                   sent, abort>>

TakeNotify ==
    /\ Running /\ starting = "wait" /\ notified
    /\ notified' = FALSE /\ starting' = "done"
    /\ UNCHANGED <<tcpTask, handle, buffer, udp, logged, sent, abort>>

\* 1000 ms have passed: the log stays on stdout.
ReadyTimeout_KeepsBuffer ==
    /\ Running /\ starting = "wait" /\ ~notified
    /\ starting' = "done"
    /\ UNCHANGED <<tcpTask, handle, buffer, udp, notified, logged, sent,
                   abort>>
ReadyTimeout ==
    /\ Running /\ starting = "wait" /\ ~notified
    /\ handle' = FALSE /\ starting' = "done"
    /\ UNCHANGED <<tcpTask, buffer, udp, notified, logged, sent, abort>>

\* logging_vprintf with room in the buffer, or after a timeout.
LogLine ==
    /\ Running /\ starting = "done" /\ handle
    /\ logged < MaxLogged /\ Len(buffer) < LOG_MESSAGES
    /\ buffer' = Append(buffer, logged + 1)
    /\ logged' = logged + 1
    /\ UNCHANGED <<tcpTask, starting, handle, udp, notified, sent, abort>>

\* assert(sended == strlen(buffer)) fails
LogFull ==
    /\ Running /\ starting = "done" /\ handle
    /\ logged < MaxLogged /\ Len(buffer) = LOG_MESSAGES
    /\ abort' = "full"
    /\ UNCHANGED <<tcpTask, starting, handle, buffer, udp, notified, logged,
                   sent>>

Received_NotLast == handle /\ Len(buffer) > 1
Received == handle /\ buffer # <<>>

\* lwip_sendto takes the line as a datagram: what becomes of it the program does
\* not learn.
SendLine ==
    /\ Running /\ udp = "loop" /\ Received
    /\ sent' = Append(sent, Head(buffer))
    /\ buffer' = Tail(buffer)
    /\ UNCHANGED <<tcpTask, starting, handle, udp, notified, logged, abort>>

\* lwip_sendto sends less than it was given: the loop ends.
SendFails_GoesOn ==
    /\ Running /\ udp = "loop" /\ Received
    /\ buffer' = Tail(buffer)
    /\ UNCHANGED <<tcpTask, starting, handle, udp, notified, logged, sent,
                   abort>>
SendFails ==
    /\ Running /\ udp = "loop" /\ Received
    /\ buffer' = Tail(buffer)
    /\ udp' = "ended"
    /\ UNCHANGED <<tcpTask, starting, handle, notified, logged, sent,
                   abort>>

\* The task was ready too late and receives from no buffer: FreeRTOS asserts.
ReceiveNull ==
    /\ Running /\ udp = "loop" /\ ~handle
    /\ abort' = "null"
    /\ UNCHANGED <<tcpTask, starting, handle, buffer, udp, notified, logged,
                   sent>>

LogNext ==
    \/ IpEvent \/ CreateBuffer
    \/ UdpReady \/ UdpFails \/ TakeNotify \/ ReadyTimeout
    \/ LogLine \/ LogFull
    \/ SendLine \/ SendFails \/ ReceiveNull

LogSpec ==
    /\ LogInit /\ [][LogNext]_logVars
    /\ WF_logVars(SendLine \/ SendFails)

(* Whichever of the notification and the timeout comes first, and whatever fails
   in udp_client: a line is put in the buffer only when udp_client has reached
   its loop. *)
ReaderReady == starting = "done" /\ handle => udp \in {"loop", "ended"}

(* What udp_client hands to the network is the log from its first line on, without
   gaps and in order; what is not sent is still in the buffer or was logged after
   the task had ended.  That only one task sends, and none after a line that
   lwip_sendto refused, makes it so.  A datagram that is lost on the way to the
   server nobody sends again. *)
LogWithoutGaps ==
    /\ \A i \in DOMAIN sent : sent[i] = i
    /\ udp = "loop" /\ Running => Len(sent) + Len(buffer) = logged

(* Each line that was logged is handed to the network, unless udp_client ends or
   the program stops. *)
LogSent ==
    \A n \in 1 .. MaxLogged :
        (logged >= n) ~> (Len(sent) >= n \/ udp = "ended" \/ ~Running)
=============================================================================
