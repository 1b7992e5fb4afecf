----------------------------- MODULE Broadcast -----------------------------
(***************************************************************************)
(* How a message of the root reaches every node                            *)
(* (router_less_message_exchange/main/no_router.c; mesh2uart and mesh2ble  *)
(* have the same handler).                                                 *)
(*                                                                         *)
(* esp_mesh_lite_send_broadcast_msg_to_child reaches the sender's children *)
(* only, so the handler of a child sends the message on to its own.  No    *)
(* acknowledgement is asked for: every sender sends MAX_RETRY copies, one  *)
(* per retry interval, under one sequence number of its own, and a         *)
(* receiver tells the copies by the last number it saw.                    *)
(*                                                                         *)
(* Time counts retry intervals (1000 ms).  A message is its number.  A copy*)
(* arrives within its interval or is lost.                                 *)
(***************************************************************************)
EXTENDS Integers, Sequences

CONSTANTS
    Node,         \* the nodes of the mesh
    Root,         \* the node of level 1
    Parent,       \* for every other node, the node it is connected to
    Depth,        \* levels below the root
    MAX_RETRY,    \* copies of a message (5)
    PERIOD,       \* least time between two messages of the root (10)
    Lossy,        \* may all copies for one child be lost?
    MaxMessages,  \* bound on the messages of the root
    MaxRestarts,  \* bound on restarts of nodes
    MaxTime       \* bound on the time of the root's last message

ASSUME BroadcastAssumption ==
    /\ Root \in Node
    /\ Parent \in [Node \ {Root} -> Node]
    /\ Depth \in [Node -> Nat]
    /\ Depth[Root] = 0
    /\ \A n \in Node \ {Root} : Depth[n] = Depth[Parent[n]] + 1
    /\ MAX_RETRY \in Nat \ {0}
    /\ PERIOD \in Nat
    /\ Lossy \in BOOLEAN
    /\ MaxMessages \in Nat
    /\ MaxRestarts \in Nat
    /\ MaxTime \in Nat

Children(n) == {c \in Node \ {Root} : Parent[c] = n}

VARIABLES
    now,       \* time
    sentAt,    \* when the root sent each of its messages
    jobs,      \* for every node: the messages it is sending copies of
    seq,       \* for every node: the last sequence number it sent under
    last,      \* for every node: last_recv_seq
    handled,   \* for every node: the messages its handler accepted since boot
    restarts   \* restarts so far

vars == <<now, sentAt, jobs, seq, last, handled, restarts>>

Sent == Len(sentAt)

\* A message on its way: copies left, when the next one is due, and the
\* children that one of the copies reached.
Job == [seq : Nat, msg : Nat \ {0}, left : 1 .. MAX_RETRY, next : Nat,
        reached : SUBSET Node]

TypeOK ==
    /\ now \in Nat
    /\ sentAt \in Seq(Nat)
    /\ jobs \in [Node -> SUBSET Job]
    /\ seq \in [Node -> Nat]
    /\ last \in [Node -> Nat]
    /\ handled \in [Node -> Seq(Nat \ {0})]
    /\ restarts \in Nat

Init ==
    /\ now = 0
    /\ sentAt = <<>>
    /\ jobs = [n \in Node |-> {}]
    /\ seq = [n \in Node |-> 0]
    /\ last = [n \in Node |-> 0]
    /\ handled = [n \in Node |-> <<>>]
    /\ restarts = 0

-----------------------------------------------------------------------------
\* esp_mesh_lite_send_msg at node n.
NewJob(n, msg) == [seq |-> seq[n] + 1, msg |-> msg, left |-> MAX_RETRY,
                   next |-> now, reached |-> {}]

Due_Always == TRUE

Due == \A k \in 1 .. Sent : now >= sentAt[k] + PERIOD

\* The root's timer callback, or its loop over the lines of the host.
SendToAllChild ==
    /\ Sent < MaxMessages
    /\ now <= MaxTime
    /\ Due
    /\ sentAt' = Append(sentAt, now)
    /\ jobs' = [jobs EXCEPT ![Root] = @ \cup {NewJob(Root, Sent + 1)}]
    /\ seq' = [seq EXCEPT ![Root] = @ + 1]
    /\ UNCHANGED <<now, last, handled, restarts>>

AfterCopy_OneLess(j, got) ==
    IF j.left <= 2 THEN {}
    ELSE {[j EXCEPT !.left = @ - 1, !.next = @ + 1, !.reached = @ \cup got]}

AfterCopy_NoEnd(j, got) ==
    {[j EXCEPT !.left = @ - 1, !.next = @ + 1, !.reached = @ \cup got]}

AfterCopy(j, got) ==
    IF j.left = 1 THEN {}
    ELSE {[j EXCEPT !.left = @ - 1, !.next = @ + 1, !.reached = @ \cup got]}

Accepts_FirstOnly(c, s) == last[c] = 0

Accepts(c, s) == last[c] # s

LastAfter_Forgotten(new, s) == last

LastAfter(new, s) == [n \in Node |-> IF n \in new THEN s ELSE last[n]]

\* A copy of n's message j is due; the children in got receive it and run
\* their json_broadcast_handler.
Resend(n, j, got) ==
    LET new == {c \in got : Accepts(c, j.seq)}
    IN  /\ j \in jobs[n]
        /\ j.next = now
        /\ ~Lossy /\ j.left = 1 => Children(n) \subseteq j.reached \cup got
        /\ jobs' = [k \in Node |->
                      IF k = n THEN (jobs[n] \ {j}) \cup AfterCopy(j, got)
                      ELSE IF k \in new THEN jobs[k] \cup {NewJob(k, j.msg)}
                      ELSE jobs[k]]
        /\ seq' = [k \in Node |-> IF k \in new THEN seq[k] + 1 ELSE seq[k]]
        /\ last' = LastAfter(new, j.seq)
        /\ handled' = [k \in Node |-> IF k \in new
                                      THEN Append(handled[k], j.msg)
                                      ELSE handled[k]]
        /\ UNCHANGED <<now, sentAt, restarts>>

\* A node reboots: its statics and the copies it had left to send are gone.
Restart(n) ==
    /\ n # Root
    /\ restarts < MaxRestarts
    /\ restarts' = restarts + 1
    /\ jobs' = [jobs EXCEPT ![n] = {}]
    /\ last' = [last EXCEPT ![n] = 0]
    /\ handled' = [handled EXCEPT ![n] = <<>>]
    /\ UNCHANGED <<now, sentAt, seq>>

\* Copies are sent when they are due; time goes on until all are sent.
Elapse ==
    /\ now < MaxTime \/ \E n \in Node : jobs[n] # {}
    /\ \A n \in Node : \A j \in jobs[n] : j.next > now
    /\ now' = now + 1
    /\ UNCHANGED <<sentAt, jobs, seq, last, handled, restarts>>

ResendSome ==
    \E n \in Node : \E j \in jobs[n], got \in SUBSET Children(n) :
        Resend(n, j, got)

Next ==
    \/ SendToAllChild
    \/ ResendSome
    \/ \E n \in Node : Restart(n)
    \/ Elapse

Spec == Init /\ [][Next]_vars

\* While no node restarts.
SteadyNext == SendToAllChild \/ ResendSome \/ Elapse

\* The library's retry timers run and time passes.
FairSpec ==
    Init /\ [][SteadyNext]_vars /\ WF_vars(ResendSome) /\ WF_vars(Elapse)

-----------------------------------------------------------------------------
(* Properties.                                                              *)

\* A node never accepts an older message after a newer one.
InOrder ==
    \A n \in Node : \A i, k \in 1 .. Len(handled[n]) :
        i < k => handled[n][i] <= handled[n][k]

Distinct ==
    \A n \in Node : \A i, k \in 1 .. Len(handled[n]) :
        i # k => handled[n][i] # handled[n][k]

\* "The same message will be received MAX_RETRY times, so if it is the same
\* message, it will be discarded" (no_router.c:243, mesh2uart main.c:186): a
\* node accepts, prints and sends on every message at most once.  After a
\* restart the numbers start anew, and nothing is said.
AtMostOnce == restarts = 0 => Distinct

HandledBy(n, msg) == \E i \in 1 .. Len(handled[n]) : handled[n][i] = msg

\* As long as one copy in MAX_RETRY gets through each link, a message is
\* accepted at depth d within d times MAX_RETRY - 1 intervals, even when it
\* overlaps with others on the way.
InTime ==
    \A msg \in 1 .. Sent, n \in Node \ {Root} :
        now > sentAt[msg] + (MAX_RETRY - 1) * Depth[n] => HandledBy(n, msg)

\* As long as one copy in MAX_RETRY gets through each link, every message of
\* the root is eventually accepted by every node.
EveryoneHears ==
    \A msg \in 1 .. MaxMessages, n \in Node \ {Root} :
        msg <= Sent ~> HandledBy(n, msg)
=============================================================================
