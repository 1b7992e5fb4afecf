------------------------------- MODULE ToRoot ------------------------------
(***************************************************************************)
(* Raw reports of the children to the root.  A child repeats its report    *)
(* until a response arrives, MAX_RETRY times at most; the root drops a     *)
(* repetition by last_recv_seq, one variable for all children.             *)
(***************************************************************************)
EXTENDS Naturals, Sequences, FiniteSets

CONSTANTS
    Child,
    MAX_RETRY,
    MaxSent     \* bound: the reports of each child

ASSUME ToRootAssumption ==
    /\ MAX_RETRY \in Nat \ {0}
    /\ MaxSent \in Nat

VARIABLES
    number,       \* the number of each child's last report
    copies,       \* how many more times it may be sent
    lastRecvSeq,  \* last_recv_seq, {} before the first report
    printed,      \* the reports the root has accepted, in order
    overlap       \* have two children repeated at the same time?

toRootVars == <<number, copies, lastRecvSeq, printed, overlap>>

\* The library's number of a report; no two reports share one.
RawSeq(c) == <<c, number[c]>>
Report == Child \X (1 .. MaxSent)

ToRootTypeOK ==
    /\ number \in [Child -> 0 .. MaxSent]
    /\ copies \in [Child -> 0 .. MAX_RETRY]
    /\ lastRecvSeq \subseteq Report /\ Cardinality(lastRecvSeq) <= 1
    /\ printed \in Seq(Report)
    /\ overlap \in BOOLEAN

ToRootInit ==
    /\ number = [c \in Child |-> 0] /\ copies = [c \in Child |-> 0]
    /\ lastRecvSeq = {} /\ printed = <<>> /\ overlap = FALSE

\* The timer of a child: MAX_RETRY seconds of retries are over before the next
\* ten seconds are.
SendToRoot(c) ==
    /\ copies[c] = 0 /\ number[c] < MaxSent
    /\ number' = [number EXCEPT ![c] = @ + 1]
    /\ copies' = [copies EXCEPT ![c] = MAX_RETRY]
    /\ overlap' = (overlap \/ \E d \in Child : copies[d] > 0)
    /\ UNCHANGED <<lastRecvSeq, printed>>

\* A copy is lost on the way to the root.
LoseCopy(c) ==
    /\ copies[c] > 0
    /\ copies' = [copies EXCEPT ![c] = @ - 1]
    /\ UNCHANGED <<number, lastRecvSeq, printed, overlap>>

\* The condition of raw_to_root_handler and what it leaves in last_recv_seq.
AcceptsRaw(seq) == seq \notin lastRecvSeq
LastRawAfter_Forgotten(seq) == lastRecvSeq
LastRawAfter(seq) == {seq}

\* raw_to_root_handler; the response may be lost.
ReceiveRaw(c, answered) ==
    /\ copies[c] > 0
    /\ IF AcceptsRaw(RawSeq(c))
       THEN /\ printed' = Append(printed, RawSeq(c))
            /\ lastRecvSeq' = LastRawAfter(RawSeq(c))
       ELSE UNCHANGED <<printed, lastRecvSeq>>
    /\ copies' = [copies EXCEPT ![c] = IF answered THEN 0 ELSE @ - 1]
    /\ UNCHANGED <<number, overlap>>

ToRootNext ==
    \E c \in Child :
        \/ SendToRoot(c)
        \/ LoseCopy(c)
        \/ \E answered \in BOOLEAN : ReceiveRaw(c, answered)

ToRootSpec == ToRootInit /\ [][ToRootNext]_toRootVars

(* "The same message will be received MAX_RETRY times, so if it is the same
   message, it will be discarded": true as long as no two children repeat their
   reports at the same time.  When they do, each one's copy makes the root
   forget the other's number. *)
PrintedOnce ==
    ~overlap => \A i, j \in DOMAIN printed : printed[i] = printed[j] => i = j

(* A child that stops repeating early, because a response has come, has been heard,
   whoever reported before: the number that is compared is never another report's. *)
AnsweredIsPrinted ==
    [][\A c \in Child : copies[c] > 1 /\ copies'[c] = 0 =>
          \E i \in DOMAIN printed' : printed'[i] = RawSeq(c)]_toRootVars
=============================================================================
