-------------------------- MODULE Messages_proofs --------------------------
(***************************************************************************)
(* What the messages of a mesh that are sent MAX_RETRY times guarantee,    *)
(* for any number of nodes and of copies: down from the root to every      *)
(* node, on a mesh of any shape, and up from the nodes to the root's       *)
(* table.                                                                  *)
(*                                                                         *)
(* Downwards, the order of the messages and their acceptance at most once  *)
(* rest on time alone: when the copies of a message have all been sent, by *)
(* every node that has children, before the root sends the next one, only  *)
(* one message is ever on its way and last_recv_seq is enough to know it.  *)
(* If no copy is lost the messages also come in time when they overlap.    *)
(*                                                                         *)
(* Upwards, a report's copies are all sent within a period, so that the    *)
(* root never handles an older report after a newer one.                   *)
(***************************************************************************)
EXTENDS Broadcast, LeafReports, FiniteSetTheorems, WellFoundedInduction, TLAPS

\* The time between two messages exceeds the time in which the copies of one
\* are on their way to the last level.
NoOverlap ==
    \A n \in Node : Children(n) # {} => (MAX_RETRY - 1) * (Depth[n] + 1) < PERIOD

-----------------------------------------------------------------------------
\* The record of a new message to send is well formed.
LEMMA NewJobType ==
    ASSUME TypeOK, NEW n \in Node, NEW msg \in Nat \ {0}
    PROVE  NewJob(n, msg) \in Job
<1>1. seq[n] + 1 \in Nat /\ MAX_RETRY \in 1 .. MAX_RETRY /\ now \in Nat
  BY BroadcastAssumption DEF TypeOK
<1> QED
  BY <1>1 DEF NewJob, Job

\* What is left of a message after one of its copies is well formed.
LEMMA AfterCopyType ==
    ASSUME NEW j \in Job, NEW got \in SUBSET Node
    PROVE  /\ AfterCopy(j, got) \subseteq Job
           /\ \A k \in AfterCopy(j, got) :
                 /\ j.left # 1
                 /\ k.msg = j.msg
                 /\ k.seq = j.seq
                 /\ k.left = j.left - 1
                 /\ k.next = j.next + 1
           /\ \A k, l \in AfterCopy(j, got) : k = l
<1>1. j.left \in 1 .. MAX_RETRY /\ j.next \in Nat /\ MAX_RETRY \in Nat
  BY BroadcastAssumption DEF Job
<1>2. CASE j.left = 1
  BY <1>2 DEF AfterCopy
<1>3. CASE j.left # 1
  <2> DEFINE k == [j EXCEPT !.left = @ - 1, !.next = @ + 1,
                            !.reached = @ \cup got]
  <2>1. AfterCopy(j, got) = {k}
    BY <1>3 DEF AfterCopy
  <2>2. j.left - 1 \in 1 .. MAX_RETRY /\ j.next + 1 \in Nat
    BY <1>1, <1>3
  <2>3. /\ k \in Job
        /\ k.msg = j.msg
        /\ k.seq = j.seq
        /\ k.left = j.left - 1
        /\ k.next = j.next + 1
    BY <2>2 DEF Job
  <2> QED
    BY <1>3, <2>1, <2>3
<1> QED
  BY <1>2, <1>3

\* Every variable keeps its type: copies are counted down to the last and
\* sequence numbers count up, at every node and whatever is lost.
THEOREM TypeCorrect == Spec => []TypeOK
<1>1. Init => TypeOK
  BY BroadcastAssumption DEF Init, TypeOK
<1>2. TypeOK /\ [Next]_vars => TypeOK'
  <2> SUFFICES ASSUME TypeOK, [Next]_vars
               PROVE  TypeOK'
    OBVIOUS
  <2>1. CASE SendToAllChild
    <3>1. Sent + 1 \in Nat \ {0} /\ now \in Nat
      BY DEF TypeOK, Sent
    <3>2. NewJob(Root, Sent + 1) \in Job
      BY <3>1, NewJobType, BroadcastAssumption
    <3>3. jobs' \in [Node -> SUBSET Job]
      BY <2>1, <3>2 DEF SendToAllChild, TypeOK
    <3>4. sentAt' \in Seq(Nat)
      BY <2>1 DEF SendToAllChild, TypeOK
    <3>5. seq' \in [Node -> Nat]
      <4>1. seq' = [seq EXCEPT ![Root] = seq[Root] + 1] /\ Root \in Node
        BY <2>1, BroadcastAssumption DEF SendToAllChild
      <4>2. seq \in [Node -> Nat] /\ seq[Root] + 1 \in Nat
        BY <4>1 DEF TypeOK
      <4> QED
        BY <4>1, <4>2
    <3> QED
      BY <2>1, <3>3, <3>4, <3>5 DEF SendToAllChild, TypeOK
  <2>2. ASSUME NEW n \in Node, NEW j \in jobs[n], NEW got \in SUBSET Children(n),
               Resend(n, j, got)
        PROVE  TypeOK'
    <3>1. j \in Job /\ got \in SUBSET Node
      BY DEF TypeOK, Children
    <3>2. j.msg \in Nat \ {0} /\ j.seq \in Nat
      BY <3>1 DEF Job
    <3>3. AfterCopy(j, got) \subseteq Job
      BY <3>1, AfterCopyType
    <3>4. \A k \in Node : NewJob(k, j.msg) \in Job
      BY <3>2, NewJobType
    <3>5. jobs' \in [Node -> SUBSET Job]
      BY <2>2, <3>3, <3>4 DEF Resend, TypeOK
    <3>6. seq' \in [Node -> Nat] /\ last' \in [Node -> Nat]
      BY <2>2, <3>2 DEF Resend, TypeOK, LastAfter
    <3>7. handled' \in [Node -> Seq(Nat \ {0})]
      BY <2>2, <3>2 DEF Resend, TypeOK
    <3> QED
      BY <2>2, <3>5, <3>6, <3>7 DEF Resend, TypeOK
  <2>3. ASSUME NEW n \in Node, Restart(n)
        PROVE  TypeOK'
    BY <2>3 DEF Restart, TypeOK
  <2>4. CASE Elapse
    BY <2>4 DEF Elapse, TypeOK
  <2>5. CASE UNCHANGED vars
    BY <2>5 DEF vars, TypeOK
  <2> QED
    BY <2>1, <2>2, <2>3, <2>4, <2>5 DEF Next, ResendSome
<1> QED
  BY <1>1, <1>2, PTL DEF Spec

-----------------------------------------------------------------------------
\* The time a message needs at most to the level of n.
Span(n) == (MAX_RETRY - 1) * Depth[n]

\* Each level adds the time between the first and the last copy.
LEMMA SpanStep ==
    /\ \A n \in Node : Span(n) \in Nat
    /\ Span(Root) = 0
    /\ \A n \in Node \ {Root} : Span(n) = Span(Parent[n]) + (MAX_RETRY - 1)
<1>1. \A w, d \in Nat : w * d \in Nat /\ w * (d + 1) = w * d + w /\ w * 0 = 0
  OBVIOUS
<1>2. MAX_RETRY - 1 \in Nat
  BY BroadcastAssumption
<1>3. /\ Depth[Root] = 0
      /\ \A n \in Node : Depth[n] \in Nat
      /\ \A n \in Node \ {Root} : Parent[n] \in Node
      /\ \A n \in Node \ {Root} : Depth[n] = Depth[Parent[n]] + 1
  BY BroadcastAssumption
<1> QED
  BY <1>1, <1>2, <1>3 DEF Span

\* The messages a node accepted were sent.
Past == \A n \in Node : \A i \in 1 .. Len(handled[n]) : handled[n][i] <= Sent

\* A node with children sends copies of the last message only, none is
\* overdue, and all will have been sent before the next message.
Current ==
    \A n \in Node : Children(n) # {} =>
        \A j \in jobs[n] :
            /\ j.msg = Sent
            /\ now <= j.next
            /\ j.next + j.left <= sentAt[Sent] + Span(n) + MAX_RETRY

OrderInv == TypeOK /\ Past /\ Current /\ InOrder

\* When the root may send again, no copy is on its way.
LEMMA Quiet ==
    ASSUME NoOverlap, OrderInv, Due, NEW n \in Node, Children(n) # {}
    PROVE  jobs[n] = {}
<1> SUFFICES ASSUME NEW j \in jobs[n]
             PROVE  FALSE
  OBVIOUS
<1>1. /\ j \in Job /\ j.msg = Sent /\ now <= j.next
      /\ j.next + j.left <= sentAt[Sent] + Span(n) + MAX_RETRY
  BY DEF OrderInv, Current, TypeOK
<1>2. /\ j.left \in Nat /\ j.left >= 1 /\ j.next \in Nat /\ now \in Nat
      /\ j.msg \in Nat \ {0} /\ MAX_RETRY \in Nat /\ PERIOD \in Nat
  BY <1>1, BroadcastAssumption DEF Job, OrderInv, TypeOK
<1>3. Sent \in 1 .. Sent /\ sentAt[Sent] \in Nat
  BY <1>1, <1>2, SMTT(30) DEF OrderInv, TypeOK, Sent
<1>4. sentAt[Sent] + PERIOD <= now
  BY <1>2, <1>3 DEF Due
<1>5. Span(n) \in Nat
  BY SpanStep
<1>6. Span(n) + (MAX_RETRY - 1) < PERIOD
  <2>1. \A w, d \in Nat : w * (d + 1) = w * d + w
    OBVIOUS
  <2>2. (MAX_RETRY - 1) * (Depth[n] + 1) < PERIOD
    BY DEF NoOverlap
  <2>3. MAX_RETRY - 1 \in Nat /\ Depth[n] \in Nat
    BY BroadcastAssumption
  <2> QED
    BY <2>1, <2>2, <2>3 DEF Span
<1> QED
  BY <1>1, <1>2, <1>3, <1>4, <1>5, <1>6

\* The root's next message keeps the invariant.
LEMMA SendKeepsOrder ==
    ASSUME NoOverlap, OrderInv, TypeOK', SendToAllChild
    PROVE  OrderInv'
<1>1. /\ Sent \in Nat /\ now \in Nat /\ sentAt' = Append(sentAt, now)
      /\ Sent' = Sent + 1 /\ sentAt'[Sent'] = now
      /\ now' = now /\ handled' = handled
  BY DEF SendToAllChild, OrderInv, TypeOK, Sent
<1>2. Past'
  <2>1. \A n \in Node : \A i \in 1 .. Len(handled[n]) :
            handled[n][i] \in Nat /\ handled[n][i] <= Sent
    BY DEF OrderInv, Past, TypeOK
  <2> QED
    BY <1>1, <2>1 DEF Past
<1>3. InOrder'
  BY <1>1 DEF OrderInv, InOrder
<1>4. Current'
  <2> SUFFICES ASSUME NEW n \in Node, Children(n) # {}, NEW j \in jobs'[n]
               PROVE  /\ j.msg = Sent'
                      /\ now' <= j.next
                      /\ j.next + j.left <= sentAt'[Sent'] + Span(n) + MAX_RETRY
    BY DEF Current, Span
  <2>1. jobs[n] = {}
    BY Quiet DEF SendToAllChild
  <2>2. n = Root /\ j = NewJob(Root, Sent + 1)
    BY <2>1 DEF SendToAllChild, OrderInv, TypeOK
  <2>3. j.msg = Sent + 1 /\ j.next = now /\ j.left = MAX_RETRY
    BY <2>2 DEF NewJob
  <2>4. MAX_RETRY \in Nat /\ Span(n) = 0
    BY <2>2, SpanStep, BroadcastAssumption
  <2> QED
    BY <1>1, <2>3, <2>4
<1> QED
  BY <1>2, <1>3, <1>4 DEF OrderInv

\* The messages a node accepted and those it sends, after a copy of message j
\* of node n reached its children got.
LEMMA ResendEffect ==
    ASSUME TypeOK, NEW n \in Node, NEW j \in jobs[n],
           NEW got \in SUBSET Children(n), Resend(n, j, got)
    PROVE  /\ j \in Job /\ got \subseteq Node \ {Root} /\ n \notin got
           /\ jobs'[n] = (jobs[n] \ {j}) \cup AfterCopy(j, got)
           /\ \A k \in got : Parent[k] = n
           /\ \A k \in got : last[k] # j.seq =>
                 /\ jobs'[k] = jobs[k] \cup {NewJob(k, j.msg)}
                 /\ handled'[k] = Append(handled[k], j.msg)
                 /\ last'[k] = j.seq
                 /\ seq'[k] = seq[k] + 1
           /\ \A k \in Node : k \notin got \/ last[k] = j.seq =>
                 /\ k # n => jobs'[k] = jobs[k]
                 /\ handled'[k] = handled[k]
                 /\ last'[k] = last[k]
                 /\ seq'[k] = seq[k]
           /\ UNCHANGED <<now, sentAt, restarts>>
<1>1. j \in Job /\ got \subseteq Node \ {Root}
  BY DEF TypeOK, Children
<1>2. \A k \in got : Parent[k] = n
  BY DEF Children
<1>3. n \notin got
  <2>1. \A d \in Nat : d # d + 1
    OBVIOUS
  <2> QED
    BY <1>1, <1>2, <2>1, BroadcastAssumption
<1>4. \A k \in got : k \in Node
  BY <1>1
<1> QED
  BY <1>1, <1>2, <1>3, <1>4 DEF Resend, Accepts, LastAfter

\* A copy keeps the invariant.
LEMMA ResendKeepsOrder ==
    ASSUME OrderInv, TypeOK', NEW n \in Node, NEW j \in jobs[n],
           NEW got \in SUBSET Children(n), Resend(n, j, got)
    PROVE  OrderInv'
<1>1. TypeOK
  BY DEF OrderInv
<1>2. /\ j \in Job /\ got \subseteq Node \ {Root} /\ n \notin got
      /\ jobs'[n] = (jobs[n] \ {j}) \cup AfterCopy(j, got)
      /\ \A k \in got : Parent[k] = n
      /\ \A k \in got : last[k] # j.seq =>
            /\ jobs'[k] = jobs[k] \cup {NewJob(k, j.msg)}
            /\ handled'[k] = Append(handled[k], j.msg)
      /\ \A k \in Node : k \notin got \/ last[k] = j.seq =>
            /\ k # n => jobs'[k] = jobs[k]
            /\ handled'[k] = handled[k]
      /\ now' = now /\ sentAt' = sentAt /\ Sent' = Sent
  BY <1>1, ResendEffect DEF Sent
<1>3. j.next = now
  BY DEF Resend
<1>4. Sent \in Nat /\ now \in Nat /\ MAX_RETRY \in Nat
  BY <1>1, BroadcastAssumption DEF TypeOK, Sent
<1>5. /\ j.left \in Nat /\ j.left >= 1 /\ j.next \in Nat /\ j.msg \in Nat \ {0}
  BY <1>2 DEF Job
<1>6. got # {} => /\ j.msg = Sent
                  /\ j.next + j.left <= sentAt[Sent] + Span(n) + MAX_RETRY
                  /\ sentAt[Sent] \in Nat
  <2>1. got # {} => Children(n) # {}
    OBVIOUS
  <2>2. j.msg = Sent => sentAt[Sent] \in Nat
    BY <1>1, <1>4, <1>5, SMTT(30) DEF TypeOK, Sent
  <2> QED
    BY <2>1, <2>2 DEF OrderInv, Current
<1>7. ASSUME NEW k \in Node
      PROVE  /\ \A i \in 1 .. Len(handled'[k]) : handled'[k][i] <= Sent
             /\ \A i, l \in 1 .. Len(handled'[k]) :
                   i < l => handled'[k][i] <= handled'[k][l]
  <2>1. /\ \A i \in 1 .. Len(handled[k]) :
              handled[k][i] <= Sent /\ handled[k][i] \in Nat
        /\ \A i, l \in 1 .. Len(handled[k]) :
              i < l => handled[k][i] <= handled[k][l]
        /\ handled[k] \in Seq(Nat \ {0})
    <3>1. handled[k] \in Seq(Nat \ {0})
      BY <1>1 DEF TypeOK
    <3>2. \A i \in 1 .. Len(handled[k]) : handled[k][i] \in Nat
      BY <3>1
    <3>3. \A i \in 1 .. Len(handled[k]) : handled[k][i] <= Sent
      BY DEF OrderInv, Past
    <3>4. \A i, l \in 1 .. Len(handled[k]) :
              i < l => handled[k][i] <= handled[k][l]
      BY DEF OrderInv, InOrder
    <3> QED
      BY <3>1, <3>2, <3>3, <3>4
  <2>2. CASE k \in got /\ last[k] # j.seq
    <3>1. handled'[k] = Append(handled[k], Sent)
      BY <1>2, <1>6, <2>2
    <3>2. /\ Len(handled'[k]) = Len(handled[k]) + 1
          /\ \A i \in 1 .. Len(handled[k]) : handled'[k][i] = handled[k][i]
          /\ handled'[k][Len(handled[k]) + 1] = Sent
      BY <1>4, <2>1, <3>1
    <3>3. Len(handled[k]) \in Nat
      BY <2>1
    <3>4. \A i \in 1 .. Len(handled'[k]) :
              i \in 1 .. Len(handled[k]) \/ i = Len(handled[k]) + 1
      BY <3>2, <3>3
    <3>5. \A i \in 1 .. Len(handled'[k]) : handled'[k][i] <= Sent
      BY <1>4, <2>1, <3>2, <3>4, SMTT(30)
    <3> QED
      <4> SUFFICES ASSUME NEW i \in 1 .. Len(handled'[k]),
                          NEW l \in 1 .. Len(handled'[k]), i < l
                   PROVE  handled'[k][i] <= handled'[k][l]
        BY <3>5
      <4>1. i \in 1 .. Len(handled[k])
        BY <3>2, <3>3
      <4>2. CASE l \in 1 .. Len(handled[k])
        BY <2>1, <3>2, <4>1, <4>2
      <4>3. CASE l = Len(handled[k]) + 1
        BY <2>1, <3>2, <4>1, <4>3
      <4> QED
        BY <3>4, <4>2, <4>3
  <2>3. CASE k \notin got \/ last[k] = j.seq
    BY <1>2, <2>1, <2>3
  <2> QED
    BY <2>2, <2>3
<1>8. Past' /\ InOrder'
  BY <1>2, <1>7 DEF Past, InOrder
<1>9. Current'
  <2> SUFFICES ASSUME NEW k \in Node, Children(k) # {}, NEW i \in jobs'[k]
               PROVE  /\ i.msg = Sent
                      /\ now <= i.next
                      /\ i.next + i.left <= sentAt[Sent] + Span(k) + MAX_RETRY
    BY <1>2 DEF Current, Span
  <2>1. CASE i \in jobs[k]
    BY <2>1 DEF OrderInv, Current
  <2>2. CASE k = n /\ i \in AfterCopy(j, got)
    <3>1. got \in SUBSET Node
      BY <1>2
    <3>2. i.msg = j.msg /\ i.left = j.left - 1 /\ i.next = j.next + 1
      BY <1>2, <2>2, <3>1, AfterCopyType
    <3>3. /\ j.msg = Sent
          /\ j.next + j.left <= sentAt[Sent] + Span(n) + MAX_RETRY
      BY <2>2 DEF OrderInv, Current
    <3>4. i.next + i.left = j.next + j.left
      BY <1>5, <3>2
    <3> QED
      BY <1>3, <1>4, <1>5, <2>2, <3>2, <3>3, <3>4
  <2>3. CASE k \in got /\ i = NewJob(k, j.msg)
    <3>1. i.msg = Sent /\ i.next = now /\ i.left = MAX_RETRY
      BY <1>6, <2>3 DEF NewJob
    <3>2. Span(k) = Span(n) + (MAX_RETRY - 1) /\ Span(n) \in Nat
      BY <1>2, <2>3, SpanStep
    <3>3. /\ now + j.left <= sentAt[Sent] + Span(n) + MAX_RETRY
          /\ sentAt[Sent] \in Nat
      BY <1>3, <1>6, <2>3
    <3> QED
      BY <1>4, <1>5, <3>1, <3>2, <3>3
  <2> QED
    BY <1>2, <2>1, <2>2, <2>3
<1> QED
  BY <1>8, <1>9 DEF OrderInv

\* Every step keeps the order invariant.
LEMMA StepKeepsOrder ==
    ASSUME NoOverlap, OrderInv, TypeOK', [Next]_vars
    PROVE  OrderInv'
<1>1. CASE SendToAllChild
  BY <1>1, SendKeepsOrder
<1>2. ASSUME NEW n \in Node, NEW j \in jobs[n], NEW got \in SUBSET Children(n),
             Resend(n, j, got)
      PROVE  OrderInv'
  BY <1>2, ResendKeepsOrder
<1>3. ASSUME NEW n \in Node, Restart(n)
      PROVE  OrderInv'
  <2>1. Past' /\ InOrder'
    BY <1>3 DEF Restart, OrderInv, TypeOK, Past, InOrder, Sent
  <2>2. Current'
    BY <1>3 DEF Restart, OrderInv, TypeOK, Current, Sent, Span
  <2> QED
    BY <2>1, <2>2 DEF OrderInv
<1>4. CASE Elapse
  <2>1. \A n \in Node : \A j \in jobs[n] : now + 1 <= j.next
    BY <1>4 DEF Elapse, OrderInv, TypeOK, Job
  <2>2. Past' /\ InOrder'
    BY <1>4 DEF Elapse, OrderInv, Past, InOrder, Sent
  <2>3. Current'
    BY <1>4, <2>1 DEF Elapse, OrderInv, Current, Sent, Span
  <2> QED
    BY <2>2, <2>3 DEF OrderInv
<1>5. CASE UNCHANGED vars
  BY <1>5 DEF vars, OrderInv, Past, Current, InOrder, Sent, Span
<1> QED
  BY <1>1, <1>2, <1>3, <1>4, <1>5 DEF Next, ResendSome

\* When the root's period exceeds the time a message is on its way, no node
\* accepts an older message after a newer one, whatever is lost and whichever
\* nodes restart.
THEOREM OrderCorrect ==
    ASSUME NoOverlap
    PROVE  Spec => []InOrder
<1>1. Init => OrderInv
  <2>1. Init => TypeOK
    BY BroadcastAssumption DEF Init, TypeOK
  <2> QED
    BY <2>1 DEF Init, OrderInv, Past, Current, InOrder
<1>2. TypeOK' /\ OrderInv /\ [Next]_vars => OrderInv'
  BY StepKeepsOrder
<1>3. OrderInv => InOrder
  BY DEF OrderInv
<1> QED
  BY <1>1, <1>2, <1>3, TypeCorrect, PTL DEF Spec

-----------------------------------------------------------------------------
(* Without restarts last_recv_seq is exact.  The last message is the only   *)
(* one on its way, and a node has accepted it if and only if last_recv_seq  *)
(* is the number under which its parent sends it.                           *)

Relays(n) == Children(n) # {}

OneJob == \A n \in Node : Relays(n) => \A i, j \in jobs[n] : i = j

\* A node sends on what it accepted.
SendsHandled ==
    \A n \in Node \ {Root} :
        Relays(n) /\ jobs[n] # {} => HandledBy(n, Sent)

\* The last message reached a node through its parent.
FromParent ==
    \A c \in Node \ {Root} :
        Parent[c] # Root /\ HandledBy(c, Sent) => HandledBy(Parent[c], Sent)

Exact ==
    \A c \in Node \ {Root} : \A j \in jobs[Parent[c]] :
        HandledBy(c, Sent) => last[c] = j.seq

OnceInv ==
    OrderInv /\ OneJob /\ SendsHandled /\ FromParent /\ Exact /\ Distinct

\* A message that was never sent was never accepted.
LEMMA NotYet ==
    ASSUME TypeOK, Past, NEW n \in Node
    PROVE  ~HandledBy(n, Sent + 1)
<1>1. handled[n] \in Seq(Nat \ {0}) /\ Sent \in Nat
  BY DEF TypeOK, Sent
<1>2. \A i \in 1 .. Len(handled[n]) :
          handled[n][i] \in Nat /\ handled[n][i] <= Sent
  BY <1>1 DEF Past
<1> QED
  BY <1>1, <1>2 DEF HandledBy

\* The parent of a node has children.
LEMMA ParentRelays ==
    \A c \in Node \ {Root} : Parent[c] \in Node /\ Relays(Parent[c])
BY BroadcastAssumption DEF Relays, Children

\* The root's next message keeps the exactness.
LEMMA SendKeepsOnce ==
    ASSUME NoOverlap, OnceInv, OrderInv', SendToAllChild
    PROVE  OnceInv'
<1>1. OrderInv /\ TypeOK /\ Past
  BY DEF OnceInv, OrderInv
<1>2. /\ handled' = handled /\ last' = last /\ Root \in Node
      /\ jobs' = [jobs EXCEPT ![Root] = @ \cup {NewJob(Root, Sent + 1)}]
      /\ Sent' = Sent + 1
  BY <1>1, BroadcastAssumption DEF SendToAllChild, TypeOK, Sent
<1>3. \A n \in Node : Relays(n) => jobs[n] = {}
  BY <1>1, Quiet DEF SendToAllChild, Relays
<1>4. \A n \in Node \ {Root} : jobs'[n] = jobs[n]
  BY <1>1, <1>2 DEF TypeOK
<1>5. jobs'[Root] = jobs[Root] \cup {NewJob(Root, Sent + 1)}
  BY <1>1, <1>2 DEF TypeOK
<1>6. \A n \in Node : ~HandledBy(n, Sent)'
  <2>1. \A n \in Node : HandledBy(n, Sent)' = HandledBy(n, Sent + 1)
    BY <1>2 DEF HandledBy
  <2> QED
    BY <1>1, <2>1, NotYet
<1>7. OneJob'
  BY <1>3, <1>4, <1>5 DEF OneJob, Relays, Children
<1>8. SendsHandled'
  BY <1>3, <1>4 DEF SendsHandled, Relays, Children
<1>9. FromParent' /\ Exact'
  BY <1>6 DEF FromParent, Exact
<1>10. Distinct'
  BY <1>2 DEF Distinct, OnceInv
<1> QED
  BY <1>7, <1>8, <1>9, <1>10 DEF OnceInv

\* A copy keeps the exactness: it is accepted only where its message was not.
LEMMA ResendKeepsOnce ==
    ASSUME OnceInv, OrderInv', NEW n \in Node, NEW j \in jobs[n],
           NEW got \in SUBSET Children(n), Resend(n, j, got)
    PROVE  OnceInv'
<1>1. OrderInv /\ TypeOK /\ Past
  BY DEF OnceInv, OrderInv
<1>2. /\ j \in Job /\ got \subseteq Node \ {Root} /\ n \notin got
      /\ jobs'[n] = (jobs[n] \ {j}) \cup AfterCopy(j, got)
      /\ \A k \in got : Parent[k] = n
      /\ \A k \in got : last[k] # j.seq =>
            /\ jobs'[k] = jobs[k] \cup {NewJob(k, j.msg)}
            /\ handled'[k] = Append(handled[k], j.msg)
            /\ last'[k] = j.seq
      /\ \A k \in Node : k \notin got \/ last[k] = j.seq =>
            /\ k # n => jobs'[k] = jobs[k]
            /\ handled'[k] = handled[k]
            /\ last'[k] = last[k]
      /\ Sent' = Sent
  BY <1>1, ResendEffect DEF Sent
<1> DEFINE new == {k \in got : last[k] # j.seq}
<1>3. /\ new \subseteq Node \ {Root}
      /\ \A k \in new : /\ Parent[k] = n
                        /\ jobs'[k] = jobs[k] \cup {NewJob(k, j.msg)}
                        /\ handled'[k] = Append(handled[k], j.msg)
                        /\ last'[k] = j.seq
      /\ \A k \in Node \ new : /\ k # n => jobs'[k] = jobs[k]
                               /\ handled'[k] = handled[k]
                               /\ last'[k] = last[k]
  BY <1>2
<1>4. n \notin new
  BY <1>2
<1>5. new # {} => j.msg = Sent /\ Relays(n)
  BY <1>1, <1>2 DEF OrderInv, Current, Relays
<1>6. \A k \in new : ~HandledBy(k, Sent)
  <2> SUFFICES ASSUME NEW k \in new PROVE ~HandledBy(k, Sent)
    OBVIOUS
  <2>1. k \in Node \ {Root} /\ Parent[k] = n /\ last[k] # j.seq
    BY <1>3
  <2> QED
    BY <2>1 DEF OnceInv, Exact
<1>7. \A k \in new : Relays(k) => jobs[k] = {}
  BY <1>3, <1>6 DEF OnceInv, SendsHandled
<1>8. \A k \in Node : HandledBy(k, Sent)' <=> HandledBy(k, Sent) \/ k \in new
  <2> SUFFICES ASSUME NEW k \in Node
               PROVE  HandledBy(k, Sent)' <=> HandledBy(k, Sent) \/ k \in new
    OBVIOUS
  <2>1. CASE k \in new
    <3>1. handled[k] \in Seq(Nat \ {0}) /\ Sent \in Nat \ {0}
      BY <1>1, <1>2, <1>5, <2>1 DEF TypeOK, Job
    <3>2. handled'[k] = Append(handled[k], Sent)
      BY <1>3, <1>5, <2>1
    <3>3. /\ Len(handled[k]) + 1 \in 1 .. Len(handled'[k])
          /\ handled'[k][Len(handled[k]) + 1] = Sent
      BY <3>1, <3>2
    <3> QED
      BY <1>2, <2>1, <3>3 DEF HandledBy
  <2>2. CASE k \notin new
    BY <1>2, <1>3, <2>2 DEF HandledBy
  <2> QED
    BY <2>1, <2>2
<1>9. \A i \in jobs'[n] : i \in jobs[n] \/ (i \in AfterCopy(j, got) /\ i.seq = j.seq)
  BY <1>2, AfterCopyType
<1>10. OneJob'
  <2> SUFFICES ASSUME NEW k \in Node, Relays(k), NEW a \in jobs'[k],
                      NEW b \in jobs'[k]
               PROVE  a = b
    BY DEF OneJob, Relays, Children
  <2>1. \A i, l \in jobs[k] : i = l
    BY DEF OnceInv, OneJob
  <2>2. CASE k = n
    <3>1. jobs'[k] = AfterCopy(j, got)
      BY <1>2, <2>1, <2>2
    <3> QED
      BY <1>2, <3>1, AfterCopyType
  <2>3. CASE k \in new
    BY <1>3, <1>7, <2>3
  <2>4. CASE k # n /\ k \notin new
    BY <1>3, <2>1, <2>4
  <2> QED
    BY <2>2, <2>3, <2>4
<1>11. SendsHandled'
  <2> SUFFICES ASSUME NEW k \in Node \ {Root}, Relays(k), jobs'[k] # {}
               PROVE  HandledBy(k, Sent)'
    BY DEF SendsHandled, Relays, Children
  <2>1. CASE k \in new
    BY <1>8, <2>1
  <2>2. CASE k \notin new
    <3>1. jobs[k] # {}
      BY <1>3, <2>2
    <3> QED
      BY <1>8, <3>1 DEF OnceInv, SendsHandled
  <2> QED
    BY <2>1, <2>2
<1>12. FromParent'
  <2> SUFFICES ASSUME NEW c \in Node \ {Root}, Parent[c] # Root,
                      HandledBy(c, Sent)'
               PROVE  HandledBy(Parent[c], Sent)'
    BY DEF FromParent
  <2>1. Parent[c] \in Node
    BY ParentRelays
  <2>2. CASE c \in new
    <3>1. Parent[c] = n /\ Relays(n) /\ jobs[n] # {} /\ n # Root
      BY <1>3, <1>5, <2>2
    <3>2. HandledBy(n, Sent)
      BY <3>1 DEF OnceInv, SendsHandled
    <3> QED
      BY <1>8, <3>1, <3>2
  <2>3. CASE c \notin new
    <3>1. HandledBy(c, Sent)
      BY <1>8, <2>3
    <3>2. HandledBy(Parent[c], Sent)
      BY <3>1 DEF OnceInv, FromParent
    <3> QED
      BY <1>8, <2>1, <3>2
  <2> QED
    BY <2>2, <2>3
<1>13. Exact'
  <2> SUFFICES ASSUME NEW c \in Node \ {Root}, NEW i \in jobs'[Parent[c]],
                      HandledBy(c, Sent)'
               PROVE  last'[c] = i.seq
    BY DEF Exact
  <2>1. Parent[c] \in Node /\ Relays(Parent[c])
    BY ParentRelays
  <2>2. CASE Parent[c] \in new
    <3>1. ~HandledBy(Parent[c], Sent) /\ Parent[c] # Root
      BY <1>3, <1>6, <2>2
    <3>2. ~HandledBy(c, Sent)
      BY <3>1 DEF OnceInv, FromParent
    <3>3. c \notin new
      BY <1>3, <1>4, <2>2
    <3> QED
      BY <1>8, <3>2, <3>3
  <2>3. CASE Parent[c] = n
    <3>1. i.seq = j.seq
      <4>1. \A l \in jobs[n] : l = j
        BY <2>1, <2>3 DEF OnceInv, OneJob
      <4> QED
        BY <1>9, <2>3, <4>1
    <3>2. CASE c \in new
      BY <1>3, <3>1, <3>2
    <3>3. CASE c \notin new
      <4>1. HandledBy(c, Sent)
        BY <1>8, <3>3
      <4>2. last[c] = j.seq
        BY <2>3, <4>1 DEF OnceInv, Exact
      <4> QED
        BY <1>3, <3>1, <3>3, <4>2
    <3> QED
      BY <3>2, <3>3
  <2>4. CASE Parent[c] # n /\ Parent[c] \notin new
    <3>1. i \in jobs[Parent[c]]
      BY <1>3, <2>1, <2>4
    <3>2. c \notin new
      BY <1>3, <2>4
    <3>3. HandledBy(c, Sent)
      BY <1>8, <3>2
    <3>4. last[c] = i.seq
      BY <3>1, <3>3 DEF OnceInv, Exact
    <3> QED
      BY <1>3, <3>2, <3>4
  <2> QED
    BY <2>2, <2>3, <2>4
<1>14. Distinct'
  <2> SUFFICES ASSUME NEW k \in Node, NEW i \in 1 .. Len(handled'[k]),
                      NEW l \in 1 .. Len(handled'[k]), i # l
               PROVE  handled'[k][i] # handled'[k][l]
    BY DEF Distinct
  <2>1. \A a, b \in 1 .. Len(handled[k]) :
            a # b => handled[k][a] # handled[k][b]
    BY DEF OnceInv, Distinct
  <2>2. CASE k \in new
    <3>1. handled[k] \in Seq(Nat \ {0})
      BY <1>1 DEF TypeOK
    <3>2. handled'[k] = Append(handled[k], Sent)
      BY <1>3, <1>5, <2>2
    <3>3. \A a \in 1 .. Len(handled[k]) : handled[k][a] # Sent
      BY <1>6, <2>2 DEF HandledBy
    <3>4. /\ Len(handled[k]) \in Nat
          /\ Len(handled'[k]) = Len(handled[k]) + 1
      BY <3>1, <3>2
    <3>5. /\ \A a \in 1 .. Len(handled[k]) : handled'[k][a] = handled[k][a]
          /\ handled'[k][Len(handled[k]) + 1] = Sent
      BY <3>1, <3>2
    <3>6. \A a \in 1 .. Len(handled'[k]) :
              a \in 1 .. Len(handled[k]) \/ a = Len(handled[k]) + 1
      BY <3>4
    <3> QED
      BY <2>1, <3>3, <3>5, <3>6
  <2>3. CASE k \notin new
    BY <1>3, <2>1, <2>3
  <2> QED
    BY <2>2, <2>3
<1> QED
  BY <1>10, <1>11, <1>12, <1>13, <1>14 DEF OnceInv

\* When the root's period exceeds the time a message is on its way, every node
\* accepts every message at most once until the first restart, whatever is
\* lost: the comment of json_broadcast_handler holds there.
THEOREM OnceCorrect ==
    ASSUME NoOverlap
    PROVE  Spec => []AtMostOnce
<1> DEFINE GInv == OrderInv /\ (restarts = 0 => OnceInv)
<1>1. Init => GInv
  <2>1. Init => TypeOK
    BY BroadcastAssumption DEF Init, TypeOK
  <2>2. Init => OrderInv
    BY <2>1 DEF Init, OrderInv, Past, Current, InOrder
  <2>3. Init => \A n \in Node : ~HandledBy(n, Sent) /\ jobs[n] = {}
    <3> SUFFICES ASSUME Init, NEW n \in Node
                 PROVE  ~HandledBy(n, Sent) /\ jobs[n] = {}
      OBVIOUS
    <3>1. handled[n] = <<>> /\ jobs[n] = {}
      BY DEF Init
    <3>2. 1 .. Len(handled[n]) = {}
      BY <3>1
    <3> QED
      BY <3>1, <3>2, Zenon DEF HandledBy
  <2>4. Init => Distinct
    BY DEF Init, Distinct
  <2> QED
    BY <2>2, <2>3, <2>4
    DEF OnceInv, OneJob, SendsHandled, FromParent, Exact
<1>2. TypeOK' /\ GInv /\ [Next]_vars => GInv'
  <2> SUFFICES ASSUME TypeOK', GInv, [Next]_vars
               PROVE  GInv'
    OBVIOUS
  <2>1. OrderInv /\ OrderInv'
    BY StepKeepsOrder
  <2>2. CASE SendToAllChild
    <3>1. restarts' = restarts
      BY <2>2 DEF SendToAllChild
    <3>2. OnceInv => OnceInv'
      BY <2>1, <2>2, SendKeepsOnce
    <3> QED
      BY <2>1, <3>1, <3>2
  <2>3. ASSUME NEW n \in Node, NEW j \in jobs[n],
               NEW got \in SUBSET Children(n), Resend(n, j, got)
        PROVE  GInv'
    <3>1. restarts' = restarts
      BY <2>3 DEF Resend
    <3>2. OnceInv => OnceInv'
      BY <2>1, <2>3, ResendKeepsOnce
    <3> QED
      BY <2>1, <3>1, <3>2
  <2>4. ASSUME NEW n \in Node, Restart(n)
        PROVE  GInv'
    <3>1. restarts' # 0
      BY <2>1, <2>4 DEF Restart, OrderInv, TypeOK
    <3> QED
      BY <2>1, <3>1
  <2>5. ASSUME UNCHANGED <<jobs, last, handled, sentAt, restarts>>
        PROVE  GInv'
    <3>1. OnceInv => OnceInv'
      BY <2>1, <2>5 DEF OnceInv, OneJob, SendsHandled, FromParent, Exact,
                        Distinct, HandledBy, Sent, Relays, Children
    <3> QED
      BY <2>1, <2>5, <3>1
  <2> QED
    BY <2>2, <2>3, <2>4, <2>5 DEF Next, ResendSome, Elapse, vars
<1>3. GInv => AtMostOnce
  BY DEF OnceInv, AtMostOnce
<1> QED
  BY <1>1, <1>2, <1>3, TypeCorrect, PTL DEF Spec

-----------------------------------------------------------------------------
(* In time, also when messages overlap on the way.                          *)

\* Every nonempty set of natural numbers has a least element.
LEMMA LeastNatural ==
    ASSUME NEW S \in SUBSET Nat, S # {}
    PROVE  \E n \in S : \A m \in S : n <= m
<1>1. IsWellFoundedOn(OpToRel(<, Nat), Nat)
  BY NatLessThanWellFounded, Zenon
<1>2. PICK n \in S : \A m \in S : ~(<<m, n>> \in OpToRel(<, Nat))
  BY <1>1, WFMin, Zenon
<1>3. \A m \in S : n <= m
  <2> SUFFICES ASSUME NEW m \in S PROVE n <= m
    OBVIOUS
  <2>1. <<m, n>> \in Nat \X Nat /\ ~(m < n)
    BY <1>2 DEF OpToRel
  <2> QED
    BY <2>1
<1> QED
  BY <1>2, <1>3

\* The numbers of a node's jobs differ, and its children know none that it has
\* not used.
Numbered ==
    \A n \in Node :
        /\ n # Root => last[n] <= seq[Parent[n]]
        /\ \A j \in jobs[n] : j.seq <= seq[n] /\ j.msg \in 1 .. Sent
        /\ \A i, j \in jobs[n] : i.seq = j.seq => i = j

\* A child that a copy reached, now or earlier, has accepted the message.
Received ==
    \A n \in Node : \A j \in jobs[n], c \in Children(n) :
        c \in j.reached \/ last[c] = j.seq => HandledBy(c, j.msg)

\* No copy is overdue, and the last one goes in time to the next level.
Deadlines ==
    \A n \in Node : \A j \in jobs[n] :
        /\ now <= j.next
        /\ j.next + j.left <= sentAt[j.msg] + Span(n) + MAX_RETRY

\* A message that a node has not accepted is being sent by its parent, or has
\* not come to its parent.
Coming ==
    \A n \in Node \ {Root}, msg \in 1 .. Sent :
        \/ HandledBy(n, msg)
        \/ \E j \in jobs[Parent[n]] : j.msg = msg
        \/ Parent[n] # Root /\ ~HandledBy(Parent[n], msg)

TimeInv == Past /\ Numbered /\ Received /\ Deadlines /\ Coming

LEMMA ElementType ==
    ASSUME NEW S, NEW q \in Seq(S), NEW i \in 1 .. Len(q)
    PROVE  q[i] \in S
OBVIOUS

\* Every message was sent at some time.
LEMMA SendingTime ==
    ASSUME TypeOK, NEW msg \in 1 .. Sent
    PROVE  sentAt[msg] \in Nat
<1>1. sentAt \in Seq(Nat) /\ msg \in 1 .. Len(sentAt)
  BY DEF TypeOK, Sent
<1> QED
  BY <1>1, ElementType, Zenon

\* What is accepted stays accepted.
LEMMA HandledAppend ==
    ASSUME TypeOK, NEW n \in Node, NEW m \in Nat \ {0},
           handled'[n] = handled[n] \/ handled'[n] = Append(handled[n], m)
    PROVE  /\ \A msg : HandledBy(n, msg) => HandledBy(n, msg)'
           /\ handled'[n] = Append(handled[n], m) => HandledBy(n, m)'
<1>1. handled[n] \in Seq(Nat \ {0}) /\ Len(handled[n]) \in Nat
  BY DEF TypeOK
<1>2. CASE handled'[n] = handled[n]
  <2>1. \A msg : HandledBy(n, msg) => HandledBy(n, msg)'
    BY <1>2 DEF HandledBy
  <2>2. handled[n] # Append(handled[n], m)
    BY <1>1
  <2> QED
    BY <1>2, <2>1, <2>2
<1>3. CASE handled'[n] = Append(handled[n], m)
  <2>1. /\ Len(handled'[n]) = Len(handled[n]) + 1
        /\ \A i \in 1 .. Len(handled[n]) : handled'[n][i] = handled[n][i]
        /\ handled'[n][Len(handled[n]) + 1] = m
        /\ handled'[n] # handled[n]
    BY <1>1, <1>3
  <2>2. ASSUME NEW msg, HandledBy(n, msg) PROVE HandledBy(n, msg)'
    <3>1. PICK i \in 1 .. Len(handled[n]) : handled[n][i] = msg
      BY <2>2 DEF HandledBy
    <3>2. i \in 1 .. Len(handled'[n]) /\ handled'[n][i] = msg
      BY <1>1, <2>1, <3>1
    <3> QED
      BY <3>2 DEF HandledBy
  <2>3. HandledBy(n, m)'
    <3>1. Len(handled[n]) + 1 \in 1 .. Len(handled'[n])
      BY <1>1, <2>1
    <3> QED
      BY <2>1, <3>1 DEF HandledBy
  <2> QED
    BY <2>2, <2>3
<1> QED
  BY <1>2, <1>3

\* The root's next message keeps the invariant.
LEMMA SendKeepsTime ==
    ASSUME TypeOK, TypeOK', TimeInv, SendToAllChild
    PROVE  TimeInv'
<1> DEFINE new == NewJob(Root, Sent + 1)
<1>1. /\ Sent \in Nat /\ now \in Nat /\ Sent' = Sent + 1
      /\ sentAt'[Sent + 1] = now
      /\ \A k \in 1 .. Sent : sentAt'[k] = sentAt[k]
      /\ UNCHANGED <<now, last, handled>>
  BY DEF SendToAllChild, TypeOK, Sent
<1>2. /\ Root \in Node
      /\ jobs'[Root] = jobs[Root] \cup {new} /\ seq'[Root] = seq[Root] + 1
      /\ \A n \in Node : n # Root => jobs'[n] = jobs[n] /\ seq'[n] = seq[n]
      /\ \A n \in Node : jobs[n] \subseteq jobs'[n]
      /\ \A n \in Node : \A j \in jobs'[n] : j \in jobs[n] \/ (n = Root /\ j = new)
  <2>1. /\ jobs' = [jobs EXCEPT ![Root] = jobs[Root] \cup {new}]
        /\ seq' = [seq EXCEPT ![Root] = seq[Root] + 1]
        /\ DOMAIN jobs = Node /\ DOMAIN seq = Node /\ Root \in Node
    BY BroadcastAssumption DEF SendToAllChild, TypeOK
  <2> HIDE DEF new
  <2> QED
    BY <2>1
<1>3. new.seq = seq[Root] + 1 /\ new.msg = Sent + 1 /\ new.next = now
      /\ new.left = MAX_RETRY /\ new.reached = {}
  BY DEF NewJob
<1>4. \A n \in Node : seq[n] \in Nat /\ last[n] \in Nat /\ jobs[n] \subseteq Job
                      /\ seq'[n] \in Nat /\ seq[n] <= seq'[n]
  <2>1. \A n \in Node : seq[n] \in Nat /\ last[n] \in Nat /\ jobs[n] \subseteq Job
                        /\ seq'[n] \in Nat
    BY DEF TypeOK
  <2> QED
    BY <1>2, <2>1
<1>5. \A n \in Node : \A msg : HandledBy(n, msg)' <=> HandledBy(n, msg)
  BY <1>1 DEF HandledBy
<1>6. \A j \in Job : j.seq \in Nat /\ j.next \in Nat /\ j.left \in Nat /\ j.msg \in Nat \ {0}
  BY BroadcastAssumption DEF Job
<1> HIDE DEF new
<1>7. Numbered'
  <2> SUFFICES ASSUME NEW n \in Node
               PROVE  /\ n # Root => last'[n] <= seq'[Parent[n]]
                      /\ \A j \in jobs'[n] : j.seq <= seq'[n] /\ j.msg \in 1 .. Sent'
                      /\ \A i, j \in jobs'[n] : i.seq = j.seq => i = j
    BY DEF Numbered
  <2>1. n # Root => last'[n] <= seq'[Parent[n]]
    <3> SUFFICES ASSUME n # Root PROVE last'[n] <= seq'[Parent[n]]
      OBVIOUS
    <3>1. Parent[n] \in Node
      BY BroadcastAssumption
    <3>2. last[n] <= seq[Parent[n]]
      BY DEF TimeInv, Numbered
    <3> QED
      BY <1>1, <1>4, <3>1, <3>2
  <2>2. \A j \in jobs[n] : j.seq <= seq[n] /\ j.msg \in 1 .. Sent /\ j.seq \in Nat
    BY <1>4, <1>6 DEF TimeInv, Numbered
  <2>3. \A j \in jobs'[n] : j.seq <= seq'[n] /\ j.msg \in 1 .. Sent'
    BY <1>1, <1>2, <1>3, <1>4, <2>2
  <2>4. \A i, j \in jobs'[n] : i.seq = j.seq => i = j
    <3>1. \A i, j \in jobs[n] : i.seq = j.seq => i = j
      BY DEF TimeInv, Numbered
    <3> QED
      BY <1>2, <1>3, <1>4, <2>2, <3>1
  <2> QED
    BY <2>1, <2>3, <2>4
<1>8. Received'
  <2> SUFFICES ASSUME NEW n \in Node, NEW j \in jobs'[n], NEW c \in Children(n),
                      c \in j.reached \/ last[c] = j.seq
               PROVE  HandledBy(c, j.msg)'
    BY <1>1 DEF Received, Children
  <2>1. c \in Node \ {Root} /\ Parent[c] = n
    BY DEF Children
  <2>2. CASE j \in jobs[n]
    <3>1. HandledBy(c, j.msg)
      BY <2>2 DEF TimeInv, Received
    <3> QED
      BY <1>5, <2>1, <3>1
  <2>3. CASE n = Root /\ j = new
    <3>1. last[c] <= seq[Root] /\ last[c] \in Nat /\ seq[Root] \in Nat
      BY <1>4, <2>1, <2>3 DEF TimeInv, Numbered
    <3> QED
      BY <1>3, <2>3, <3>1
  <2> QED
    BY <1>2, <2>2, <2>3
<1>9. Deadlines'
  <2> SUFFICES ASSUME NEW n \in Node, NEW j \in jobs'[n]
               PROVE  /\ now <= j.next
                      /\ j.next + j.left <= sentAt'[j.msg] + Span(n) + MAX_RETRY
    BY <1>1 DEF Deadlines, Span
  <2>1. CASE j \in jobs[n]
    <3>1. j.msg \in 1 .. Sent
      BY <2>1 DEF TimeInv, Numbered
    <3> QED
      BY <1>1, <2>1, <3>1 DEF TimeInv, Deadlines
  <2>2. CASE n = Root /\ j = new
    BY <1>1, <1>3, <2>2, SpanStep, BroadcastAssumption
  <2> QED
    BY <1>2, <2>1, <2>2
<1>10. Coming'
  <2> SUFFICES ASSUME NEW n \in Node \ {Root}, NEW msg \in 1 .. Sent + 1
               PROVE  \/ HandledBy(n, msg)'
                      \/ \E j \in jobs'[Parent[n]] : j.msg = msg
                      \/ Parent[n] # Root /\ ~HandledBy(Parent[n], msg)'
    BY <1>1 DEF Coming
  <2>1. Parent[n] \in Node
    BY BroadcastAssumption
  <2>2. CASE msg \in 1 .. Sent
    <3>1. \/ HandledBy(n, msg)
          \/ \E j \in jobs[Parent[n]] : j.msg = msg
          \/ Parent[n] # Root /\ ~HandledBy(Parent[n], msg)
      BY <2>2 DEF TimeInv, Coming
    <3> QED
      BY <1>2, <1>5, <2>1, <3>1
  <2>3. CASE msg = Sent + 1
    <3>1. CASE Parent[n] = Root
      BY <1>2, <1>3, <2>3, <3>1
    <3>2. CASE Parent[n] # Root
      <4>1. ~HandledBy(Parent[n], msg)
        <5>1. \A i \in 1 .. Len(handled[Parent[n]]) : handled[Parent[n]][i] <= Sent
          BY <2>1 DEF TimeInv, Past
        <5> QED
          BY <1>1, <2>3, <5>1 DEF HandledBy
      <4> QED
        BY <1>5, <2>1, <3>2, <4>1
    <3> QED
      BY <3>1, <3>2
  <2> QED
    BY <1>1, <2>2, <2>3
<1>11. Past'
  <2>1. \A n \in Node : \A i \in 1 .. Len(handled[n]) :
            handled[n][i] \in Nat /\ handled[n][i] <= Sent
    BY DEF TimeInv, Past, TypeOK
  <2> QED
    BY <1>1, <2>1 DEF Past
<1> QED
  BY <1>7, <1>8, <1>9, <1>10, <1>11 DEF TimeInv

\* A copy keeps the invariant.
LEMMA ResendKeepsTime ==
    ASSUME ~Lossy, TypeOK, TypeOK', TimeInv, NEW n \in Node, NEW j \in jobs[n],
           NEW got \in SUBSET Children(n), Resend(n, j, got)
    PROVE  TimeInv'
<1> DEFINE new == {c \in got : last[c] # j.seq}
<1>1. /\ j \in Job /\ got \subseteq Node \ {Root} /\ n \notin got
      /\ jobs'[n] = (jobs[n] \ {j}) \cup AfterCopy(j, got)
      /\ \A k \in got : Parent[k] = n
      /\ \A k \in new :
            /\ jobs'[k] = jobs[k] \cup {NewJob(k, j.msg)}
            /\ handled'[k] = Append(handled[k], j.msg)
            /\ last'[k] = j.seq
            /\ seq'[k] = seq[k] + 1
      /\ \A k \in Node : k \notin new =>
            /\ k # n => jobs'[k] = jobs[k]
            /\ handled'[k] = handled[k]
            /\ last'[k] = last[k]
            /\ seq'[k] = seq[k]
      /\ UNCHANGED <<now, sentAt>> /\ Sent' = Sent
  BY ResendEffect DEF Sent
<1>2. new \subseteq got
  OBVIOUS
<1> HIDE DEF new
<1>3. /\ \A k \in Node : seq[k] \in Nat /\ last[k] \in Nat /\ jobs[k] \subseteq Job
                         /\ seq'[k] \in Nat
      /\ now \in Nat /\ Sent \in Nat
  BY DEF TypeOK, Sent
<1>4. \A k \in Node : seq[k] <= seq'[k]
  BY <1>1, <1>2, <1>3
<1>5. \A i \in Job : i.seq \in Nat /\ i.next \in Nat /\ i.left \in Nat /\ i.msg \in Nat \ {0}
                     /\ i.left >= 1
  BY BroadcastAssumption DEF Job
<1>6. /\ j.msg \in 1 .. Sent /\ j.seq <= seq[n] /\ j.next = now
      /\ j.next + j.left <= sentAt[j.msg] + Span(n) + MAX_RETRY
      /\ sentAt[j.msg] \in Nat
  <2>1. j.msg \in 1 .. Sent /\ j.seq <= seq[n]
    BY DEF TimeInv, Numbered
  <2>2. j.next = now /\ j.next + j.left <= sentAt[j.msg] + Span(n) + MAX_RETRY
    BY DEF Resend, TimeInv, Deadlines
  <2>3. sentAt[j.msg] \in Nat
    BY <2>1, SendingTime
  <2> QED
    BY <2>1, <2>2, <2>3
\* What a child has accepted it keeps, and every child of got has it now.
<1>7. \A k \in Node : \A msg : HandledBy(k, msg) => HandledBy(k, msg)'
  <2> SUFFICES ASSUME NEW k \in Node
               PROVE  \A msg : HandledBy(k, msg) => HandledBy(k, msg)'
    OBVIOUS
  <2>1. handled'[k] = handled[k] \/ handled'[k] = Append(handled[k], j.msg)
    BY <1>1
  <2> QED
    BY <1>1, <1>5, <2>1, HandledAppend
<1>8. \A k \in new : HandledBy(k, j.msg)'
  <2> SUFFICES ASSUME NEW k \in new PROVE HandledBy(k, j.msg)'
    OBVIOUS
  <2>1. k \in Node /\ handled'[k] = Append(handled[k], j.msg)
    BY <1>1, <1>2
  <2> QED
    BY <1>1, <1>5, <2>1, HandledAppend
<1>9. \A k \in got : HandledBy(k, j.msg)'
  <2> SUFFICES ASSUME NEW k \in got, k \notin new PROVE HandledBy(k, j.msg)'
    BY <1>8
  <2>1. last[k] = j.seq
    BY DEF new
  <2>2. HandledBy(k, j.msg)
    BY <2>1 DEF TimeInv, Received
  <2> QED
    BY <1>1, <1>7, <2>2
\* The jobs there are now.
<1>10. ASSUME NEW k \in Node, NEW i \in jobs'[k]
       PROVE  \/ i \in jobs[k] /\ (k # n \/ i # j)
              \/ /\ k = n /\ j.left # 1 /\ i.msg = j.msg /\ i.seq = j.seq
                 /\ i.left = j.left - 1 /\ i.next = j.next + 1
                 /\ i.reached = j.reached \cup got
              \/ /\ k \in new /\ i.msg = j.msg /\ i.seq = seq[k] + 1
                 /\ i.left = MAX_RETRY /\ i.next = now /\ i.reached = {}
  <2>1. CASE k = n
    <3>1. CASE i \in AfterCopy(j, got)
      <4>1. got \in SUBSET Node
        BY <1>1
      <4>2. /\ j.left # 1 /\ i.msg = j.msg /\ i.seq = j.seq
            /\ i.left = j.left - 1 /\ i.next = j.next + 1
        BY <1>1, <3>1, <4>1, AfterCopyType
      <4>3. i.reached = j.reached \cup got
        BY <1>1, <3>1, <4>2 DEF AfterCopy, Job
      <4> QED
        BY <2>1, <4>2, <4>3
    <3>2. CASE i \in jobs[n] \ {j}
      BY <2>1, <3>2
    <3> QED
      BY <1>1, <2>1, <3>1, <3>2
  <2>2. CASE k # n /\ k \in new
    BY <1>1, <2>2 DEF NewJob
  <2>3. CASE k # n /\ k \notin new
    BY <1>1, <2>3
  <2> QED
    BY <2>1, <2>2, <2>3
<1>11. \A k \in new : k \in Node \ {Root} /\ k # n /\ Parent[k] = n
  BY <1>1, <1>2
<1>12. \A k, c \in Node : c \in Children(k) => c # Root /\ Parent[c] = k
  BY DEF Children
<1>13. Past'
  <2> SUFFICES ASSUME NEW k \in Node, NEW i \in 1 .. Len(handled'[k])
               PROVE  handled'[k][i] <= Sent
    BY <1>1 DEF Past
  <2>1. handled[k] \in Seq(Nat \ {0})
    BY DEF TypeOK
  <2>2. \A l \in 1 .. Len(handled[k]) : handled[k][l] <= Sent
    BY DEF TimeInv, Past
  <2>3. CASE handled'[k] = handled[k]
    BY <2>2, <2>3
  <2>4. CASE handled'[k] = Append(handled[k], j.msg)
    BY <1>6, <2>1, <2>2, <2>4
  <2> QED
    BY <1>1, <2>3, <2>4
<1>14. Numbered'
  <2> SUFFICES ASSUME NEW k \in Node
               PROVE  /\ k # Root => last'[k] <= seq'[Parent[k]]
                      /\ \A i \in jobs'[k] : i.seq <= seq'[k] /\ i.msg \in 1 .. Sent
                      /\ \A i, l \in jobs'[k] : i.seq = l.seq => i = l
    BY <1>1 DEF Numbered
  <2>1. k # Root => last'[k] <= seq'[Parent[k]]
    <3> SUFFICES ASSUME k # Root PROVE last'[k] <= seq'[Parent[k]]
      OBVIOUS
    <3>1. Parent[k] \in Node /\ last[k] <= seq[Parent[k]]
      BY BroadcastAssumption DEF TimeInv, Numbered
    <3>2. CASE k \in new
      <4>1. last'[k] = j.seq /\ Parent[k] = n
        BY <1>1, <1>11, <3>2
      <4> QED
        BY <1>1, <1>3, <1>4, <1>5, <1>6, <4>1
    <3>3. CASE k \notin new
      <4>1. last'[k] = last[k]
        BY <1>1, <3>3
      <4> QED
        BY <1>3, <1>4, <3>1, <4>1
    <3> QED
      BY <3>2, <3>3
  <2>2. \A i \in jobs[k] : i.seq <= seq[k] /\ i.msg \in 1 .. Sent /\ i.seq \in Nat
    BY <1>3, <1>5 DEF TimeInv, Numbered
  <2>3. \A i \in jobs'[k] : i.seq <= seq'[k] /\ i.msg \in 1 .. Sent
    <3> SUFFICES ASSUME NEW i \in jobs'[k] PROVE i.seq <= seq'[k] /\ i.msg \in 1 .. Sent
      OBVIOUS
    <3>1. CASE i \in jobs[k]
      <4>1. i.seq <= seq[k] /\ i.msg \in 1 .. Sent /\ i.seq \in Nat
        BY <2>2, <3>1
      <4> QED
        BY <1>3, <1>4, <4>1
    <3>2. CASE k = n /\ i.msg = j.msg /\ i.seq = j.seq
      <4>1. j.seq \in Nat
        BY <1>1, <1>5
      <4> QED
        BY <1>3, <1>4, <1>6, <3>2, <4>1
    <3>3. CASE k \in new /\ i.msg = j.msg /\ i.seq = seq[k] + 1
      <4>1. seq'[k] = seq[k] + 1 /\ seq[k] \in Nat
        BY <1>1, <1>3, <3>3
      <4> QED
        BY <1>6, <3>3, <4>1
    <3> QED
      BY <1>10, <3>1, <3>2, <3>3
  <2>4. \A i, l \in jobs'[k] : i.seq = l.seq => i = l
    <3>1. \A i, l \in jobs[k] : i.seq = l.seq => i = l
      BY DEF TimeInv, Numbered
    <3>2. CASE k = n
      <4>1. \A i \in AfterCopy(j, got) : i.seq = j.seq
        BY <1>1, AfterCopyType
      <4>2. \A i, l \in AfterCopy(j, got) : i = l
        BY <1>1, AfterCopyType
      <4> QED
        BY <1>1, <3>1, <3>2, <4>1, <4>2
    <3>3. CASE k \in new
      <4>1. jobs'[k] = jobs[k] \cup {NewJob(k, j.msg)} /\ NewJob(k, j.msg).seq = seq[k] + 1
        BY <1>1, <3>3 DEF NewJob
      <4>2. \A i \in jobs[k] : i.seq # seq[k] + 1
        BY <1>3, <2>2
      <4> QED
        BY <3>1, <4>1, <4>2
    <3>4. CASE k # n /\ k \notin new
      BY <1>1, <3>1, <3>4
    <3> QED
      BY <3>2, <3>3, <3>4
  <2> QED
    BY <2>1, <2>3, <2>4
<1>15. Received'
  <2> SUFFICES ASSUME NEW k \in Node, NEW i \in jobs'[k], NEW c \in Children(k),
                      c \in i.reached \/ last'[c] = i.seq
               PROVE  HandledBy(c, i.msg)'
    BY DEF Received, Children
  <2>1. c \in Node /\ Parent[c] = k /\ c # Root
    BY DEF Children
  <2>2. CASE i \in jobs[k] /\ (k # n \/ i # j)
    <3>1. CASE c \in i.reached \/ last[c] = i.seq
      <4>1. HandledBy(c, i.msg)
        BY <2>2, <3>1 DEF TimeInv, Received
      <4> QED
        BY <1>7, <2>1, <4>1
    <3>2. CASE last'[c] = i.seq /\ last'[c] # last[c]
      <4>1. c \in new
        BY <1>1, <2>1, <3>2
      <4>2. k = n /\ i.seq = j.seq
        BY <1>1, <1>11, <2>1, <3>2, <4>1
      <4>3. i = j
        BY <2>2, <4>2 DEF TimeInv, Numbered
      <4> QED
        BY <2>2, <4>2, <4>3
    <3> QED
      BY <3>1, <3>2
  <2>3. CASE k = n /\ i.msg = j.msg /\ i.seq = j.seq /\ i.reached = j.reached \cup got
    <3>1. CASE c \in got
      BY <1>9, <2>3, <3>1
    <3>2. CASE c \notin got
      <4>1. c \notin new
        BY <1>2, <3>2
      <4>2. c \in j.reached \/ last[c] = j.seq
        BY <1>1, <2>1, <2>3, <3>2, <4>1
      <4>3. HandledBy(c, j.msg)
        BY <2>3, <4>2 DEF TimeInv, Received
      <4> QED
        BY <1>7, <2>1, <2>3, <4>3
    <3> QED
      BY <3>1, <3>2
  <2>4. CASE k \in new /\ i.seq = seq[k] + 1 /\ i.reached = {}
    <3>1. c \notin new
      BY <1>11, <2>1, <2>4
    <3>2. last'[c] = last[c] /\ last[c] <= seq[k]
      BY <1>1, <2>1, <3>1 DEF TimeInv, Numbered
    <3> QED
      BY <1>3, <2>1, <2>4, <3>2
  <2> QED
    BY <1>10, <2>2, <2>3, <2>4
<1>16. Deadlines'
  <2> SUFFICES ASSUME NEW k \in Node, NEW i \in jobs'[k]
               PROVE  /\ now <= i.next
                      /\ i.next + i.left <= sentAt[i.msg] + Span(k) + MAX_RETRY
    BY <1>1 DEF Deadlines, Span
  <2>1. CASE i \in jobs[k]
    BY <2>1 DEF TimeInv, Deadlines
  <2>2. CASE /\ k = n /\ j.left # 1 /\ i.msg = j.msg
             /\ i.left = j.left - 1 /\ i.next = j.next + 1
    <3>1. j.left \in Nat /\ j.next \in Nat
      BY <1>1, <1>5
    <3>2. i.next + i.left = j.next + j.left /\ now <= i.next
      BY <1>3, <1>6, <2>2, <3>1
    <3> QED
      BY <1>6, <2>2, <3>2
  <2>3. CASE k \in new /\ i.msg = j.msg /\ i.left = MAX_RETRY /\ i.next = now
    <3>1. /\ Span(n) \in Nat /\ Span(k) = Span(n) + (MAX_RETRY - 1)
          /\ MAX_RETRY \in Nat \ {0}
      BY <1>11, <2>3, SpanStep, BroadcastAssumption
    <3>2. j.left \in Nat /\ j.left >= 1 /\ j.next = now
          /\ j.next + j.left <= sentAt[j.msg] + Span(n) + MAX_RETRY
          /\ sentAt[j.msg] \in Nat
      BY <1>1, <1>5, <1>6
    <3> QED
      BY <1>3, <2>3, <3>1, <3>2
  <2> QED
    BY <1>10, <2>1, <2>2, <2>3
<1>17. Coming'
  <2> SUFFICES ASSUME NEW k \in Node \ {Root}, NEW msg \in 1 .. Sent
               PROVE  \/ HandledBy(k, msg)'
                      \/ \E i \in jobs'[Parent[k]] : i.msg = msg
                      \/ Parent[k] # Root /\ ~HandledBy(Parent[k], msg)'
    BY <1>1 DEF Coming
  <2> DEFINE p == Parent[k]
  <2>1. p \in Node /\ k \in Children(p)
    BY BroadcastAssumption DEF Children
  <2>2. \/ HandledBy(k, msg)
        \/ \E i \in jobs[p] : i.msg = msg
        \/ p # Root /\ ~HandledBy(p, msg)
    BY DEF TimeInv, Coming
  <2> HIDE DEF p
  <2>3. CASE HandledBy(k, msg)
    BY <1>7, <2>3
  <2>4. ASSUME NEW i \in jobs[p], i.msg = msg
        PROVE  HandledBy(k, msg)' \/ \E l \in jobs'[p] : l.msg = msg
    <3>1. CASE p # n
      <4>1. i \in jobs'[p]
        BY <1>1, <2>1, <2>4, <3>1
      <4> QED
        BY <2>4, <4>1
    <3>2. CASE p = n /\ i # j
      <4>1. i \in jobs'[p]
        BY <1>1, <2>4, <3>2
      <4> QED
        BY <2>4, <4>1
    <3>3. CASE p = n /\ i = j /\ j.left # 1
      <4>1. AfterCopy(j, got) # {}
        BY <3>3 DEF AfterCopy
      <4>2. PICK l \in AfterCopy(j, got) : TRUE
        BY <4>1
      <4>3. l \in jobs'[p] /\ l.msg = j.msg
        BY <1>1, <3>3, <4>2, AfterCopyType
      <4> QED
        BY <2>4, <3>3, <4>3
    <3>4. CASE p = n /\ i = j /\ j.left = 1
      <4>1. k \in j.reached \/ k \in got
        BY <2>1, <3>4 DEF Resend
      <4>2. CASE k \in j.reached
        <5>1. HandledBy(k, j.msg)
          BY <2>1, <3>4, <4>2 DEF TimeInv, Received
        <5> QED
          BY <1>7, <2>4, <3>4, <5>1
      <4>3. CASE k \in got
        BY <1>9, <2>4, <3>4, <4>3
      <4> QED
        BY <4>1, <4>2, <4>3
    <3> QED
      BY <3>1, <3>2, <3>3, <3>4
  <2>5. CASE p # Root /\ ~HandledBy(p, msg)
    <3>1. CASE p \notin new
      <4>1. handled'[p] = handled[p]
        BY <1>1, <2>1, <3>1
      <4>2. ~HandledBy(p, msg)'
        BY <2>5, <4>1 DEF HandledBy, p
      <4> QED
        BY <2>5, <4>2 DEF p
    <3>2. CASE p \in new /\ msg = j.msg
      <4>1. NewJob(p, j.msg) \in jobs'[p] /\ NewJob(p, j.msg).msg = j.msg
        BY <1>1, <3>2 DEF NewJob
      <4> QED
        BY <3>2, <4>1 DEF p
    <3>3. CASE p \in new /\ msg # j.msg
      <4>1. handled[p] \in Seq(Nat \ {0}) /\ handled'[p] = Append(handled[p], j.msg)
        BY <1>1, <2>1, <3>3 DEF TypeOK
      <4>2. \A i \in 1 .. Len(handled'[p]) :
               \/ i \in 1 .. Len(handled[p]) /\ handled'[p][i] = handled[p][i]
               \/ handled'[p][i] = j.msg
        BY <4>1
      <4>3. ~HandledBy(p, msg)'
        BY <2>5, <3>3, <4>2 DEF HandledBy, p
      <4> QED
        BY <2>5, <4>3 DEF p
    <3> QED
      BY <3>1, <3>2, <3>3
  <2> QED
    BY <2>2, <2>3, <2>4, <2>5 DEF p
<1> QED
  BY <1>13, <1>14, <1>15, <1>16, <1>17 DEF TimeInv

\* When copies are sent as soon as they are due, none gets overdue.
LEMMA ElapseKeepsTime ==
    ASSUME TypeOK, TimeInv, Elapse
    PROVE  TimeInv'
<1>1. /\ UNCHANGED <<sentAt, jobs, seq, last, handled>> /\ Sent' = Sent
      /\ now' = now + 1 /\ now \in Nat
      /\ \A n \in Node : \A j \in jobs[n] : j.next > now
  BY DEF Elapse, Sent, TypeOK
<1>2. \A n \in Node : \A j \in jobs[n] : j.next \in Nat
  BY DEF TypeOK, Job
<1>3. Deadlines'
  BY <1>1, <1>2 DEF TimeInv, Deadlines, Span
<1>4. Past' /\ Numbered' /\ Received' /\ Coming'
  BY <1>1 DEF TimeInv, Past, Numbered, Received, Coming, HandledBy
<1> QED
  BY <1>3, <1>4 DEF TimeInv

\* The first node on the way to n that has not accepted a message waits for a
\* job of the node above it, which has its deadline.
LEMMA TimeIsKept ==
    ASSUME TypeOK, TimeInv, NEW n \in Node \ {Root}, NEW msg \in 1 .. Sent,
           ~HandledBy(n, msg)
    PROVE  now <= sentAt[msg] + (MAX_RETRY - 1) * Depth[n]
<1> DEFINE Waits == {d \in Nat : \E k \in Node \ {Root} :
                                    d = Depth[k] /\ ~HandledBy(k, msg)}
<1>1. Depth[n] \in Waits /\ Waits \in SUBSET Nat
  BY BroadcastAssumption
<1>2. PICK d \in Waits : \A e \in Waits : d <= e
  BY <1>1, LeastNatural
<1>3. PICK k \in Node \ {Root} : d = Depth[k] /\ ~HandledBy(k, msg)
  BY <1>2
<1>4. /\ Parent[k] \in Node /\ Depth[k] = Depth[Parent[k]] + 1
      /\ Depth[Parent[k]] \in Nat /\ Depth[k] \in Nat /\ Depth[n] \in Nat
      /\ Depth[k] <= Depth[n]
      /\ MAX_RETRY \in Nat \ {0}
  BY <1>1, <1>2, <1>3, BroadcastAssumption
<1>5. Parent[k] = Root \/ HandledBy(Parent[k], msg)
  <2> SUFFICES ASSUME Parent[k] # Root, ~HandledBy(Parent[k], msg) PROVE FALSE
    OBVIOUS
  <2>1. Depth[Parent[k]] \in Waits
    BY <1>4
  <2> QED
    BY <1>2, <1>3, <1>4, <2>1
<1>6. PICK j \in jobs[Parent[k]] : j.msg = msg
  BY <1>3, <1>5 DEF TimeInv, Coming
<1>7. /\ now <= j.next
      /\ j.next + j.left <= sentAt[msg] + Span(Parent[k]) + MAX_RETRY
  BY <1>4, <1>6 DEF TimeInv, Deadlines
<1>8. j.next \in Nat /\ j.left \in 1 .. MAX_RETRY
  <2>1. jobs[Parent[k]] \subseteq Job
    BY <1>4 DEF TypeOK
  <2>2. j \in Job
    BY <1>6, <2>1
  <2> QED
    BY <2>2 DEF Job
<1>9. Span(Parent[k]) \in Nat /\ Span(k) = Span(Parent[k]) + (MAX_RETRY - 1)
  BY <1>4, SpanStep
<1>10. Span(k) \in Nat /\ Span(k) <= Span(n) /\ Span(n) \in Nat
  <2>1. \A w, x, y \in Nat : x <= y => w * x <= w * y
    <3> SUFFICES ASSUME NEW w \in Nat, NEW x \in Nat, NEW y \in Nat, x <= y
                 PROVE  w * x <= w * y
      OBVIOUS
    <3>1. y - x \in Nat /\ y = x + (y - x)
      OBVIOUS
    <3>2. \A z \in Nat : w * (x + z) = w * x + w * z /\ w * z \in Nat /\ w * x \in Nat
      OBVIOUS
    <3> QED
      BY <3>1, <3>2
  <2>2. MAX_RETRY - 1 \in Nat
    BY <1>4
  <2> QED
    BY <1>4, <2>1, <2>2, SpanStep DEF Span
<1>11. now \in Nat /\ sentAt[msg] \in Nat
  <2>1. now \in Nat
    BY DEF TypeOK
  <2> QED
    BY <2>1, SendingTime
<1>12. now <= sentAt[msg] + Span(n)
  BY <1>4, <1>7, <1>8, <1>9, <1>10, <1>11
<1> QED
  BY <1>12 DEF Span

(* InTime: on a mesh of any shape, for any number of messages, however close
   they follow each other and whatever copies are lost, as long as one copy of
   each message gets through each link and no node restarts, every node accepts
   every message within MAX_RETRY - 1 intervals per level. *)
THEOREM TimeCorrect ==
    ASSUME ~Lossy
    PROVE  FairSpec => []InTime
<1>1. Init => TypeOK /\ TimeInv
  <2> SUFFICES ASSUME Init PROVE TypeOK /\ TimeInv
    OBVIOUS
  <2>1. TypeOK
    BY BroadcastAssumption DEF Init, TypeOK
  <2>2. Sent = 0 /\ \A n \in Node : jobs[n] = {} /\ Len(handled[n]) = 0
    BY DEF Init, Sent
  <2>3. \A n \in Node \ {Root} : Parent[n] \in Node
    BY BroadcastAssumption
  <2>4. Numbered
    <3>1. \A n \in Node : last[n] = 0 /\ seq[n] = 0
      BY DEF Init
    <3>2. \A n \in Node : n # Root => last[n] <= seq[Parent[n]]
      BY <2>3, <3>1
    <3> QED
      BY <2>2, <3>2 DEF Numbered
  <2>5. Past /\ Received /\ Deadlines /\ Coming
    BY <2>2, <2>3 DEF Past, Received, Deadlines, Coming
  <2> QED
    BY <2>1, <2>4, <2>5 DEF TimeInv
<1>2. TypeOK /\ TypeOK' /\ TimeInv /\ [SteadyNext]_vars => TimeInv'
  <2> SUFFICES ASSUME TypeOK, TypeOK', TimeInv, [SteadyNext]_vars PROVE TimeInv'
    OBVIOUS
  <2>1. CASE SendToAllChild
    BY <2>1, SendKeepsTime
  <2>2. CASE ResendSome
    BY <2>2, ResendKeepsTime DEF ResendSome
  <2>3. CASE Elapse
    BY <2>3, ElapseKeepsTime
  <2>4. CASE UNCHANGED vars
    BY <2>4 DEF vars, TimeInv, Past, Numbered, Received, Deadlines, Coming,
                HandledBy, Sent
  <2> QED
    BY <2>1, <2>2, <2>3, <2>4 DEF SteadyNext
<1>3. TypeOK /\ TimeInv => InTime
  <2> SUFFICES ASSUME TypeOK, TimeInv, NEW msg \in 1 .. Sent, NEW n \in Node \ {Root},
                      now > sentAt[msg] + (MAX_RETRY - 1) * Depth[n]
               PROVE  HandledBy(n, msg)
    BY DEF InTime
  <2> SUFFICES ASSUME ~HandledBy(n, msg) PROVE FALSE
    OBVIOUS
  <2>1. now <= sentAt[msg] + (MAX_RETRY - 1) * Depth[n]
    BY TimeIsKept
  <2>2. now \in Nat /\ sentAt[msg] \in Nat
    BY DEF TypeOK, Sent
  <2>3. (MAX_RETRY - 1) * Depth[n] \in Nat
    BY SpanStep DEF Span
  <2> QED
    BY <2>1, <2>2, <2>3
<1>4. [SteadyNext]_vars => [Next]_vars
  BY DEF SteadyNext, Next
<1> QED
  BY <1>1, <1>2, <1>3, <1>4, TypeCorrect, PTL DEF FairSpec, Spec

-----------------------------------------------------------------------------
(* The reports of the nodes and the table of the root.                      *)

Sending == [report : NodeReport, left : 1 .. COPIES, at : Nat]
ListEntry == [name : Member, level : LeafLevel \cup {1}, at : Nat]

LeafTypes ==
    /\ clock \in Nat \ {0}
    /\ nodeLevel \in [Member -> LeafLevel \cup {1}]
    /\ timerAt \in [Member -> Nat] /\ reports \in [Member -> Nat]
    /\ best \in [Member -> Nat \X Nat]
    /\ stopped \in [Leaf -> Nat \cup {-1}]
    /\ atRoot \in Seq(NodeReport) /\ sending \subseteq Sending
    /\ listed \subseteq ListEntry
    /\ late \in Nat /\ late <= clock

\* A timer is set for now or later, and never for more than a period; a leaf
\* without one has stopped after its last report.
Timers ==
    /\ \A n \in Member : timerAt[n] # 0 =>
          clock <= timerAt[n] /\ timerAt[n] <= clock + REPORT_PERIOD
    /\ \A n \in Leaf : timerAt[n] = 0 => stopped[n] = reports[n]

\* Only the last report of a leaf is sent, no copy is overdue, and all of them are
\* sent before the next report is.
Copies ==
    /\ \A j \in sending :
          /\ j.report.name \in Leaf /\ j.report.no = reports[j.report.name]
          /\ timerAt[j.report.name] # 0
          /\ clock <= j.at /\ j.at + j.left <= timerAt[j.report.name]
    /\ \A i, j \in sending : i.report.name = j.report.name => i = j

\* The reports of a node wait in the order in which it sent them, none of them
\* older than the newest one that was handled; what two copies have the same
\* number say the same.
AtHand ==
    /\ \A i \in DOMAIN atRoot :
          /\ best[atRoot[i].name][1] <= atRoot[i].no
          /\ atRoot[i].no <= reports[atRoot[i].name]
          /\ atRoot[i].no = best[atRoot[i].name][1] =>
                atRoot[i].level = best[atRoot[i].name][2]
    /\ \A i, k \in DOMAIN atRoot :
          i < k /\ atRoot[i].name = atRoot[k].name =>
              /\ atRoot[i].no <= atRoot[k].no
              /\ atRoot[i].no = atRoot[k].no => atRoot[i].level = atRoot[k].level
    /\ \A i \in DOMAIN atRoot, j \in sending :
          atRoot[i].name = j.report.name /\ atRoot[i].no = j.report.no =>
              atRoot[i].level = j.report.level

\* The root has handled nothing newer than what a node has sent.
Newest ==
    \A n \in Member :
        /\ best[n][1] <= reports[n]
        /\ best[n][1] = reports[n] =>
              \A j \in sending : j.report.name = n => j.report.level = best[n][2]

Levels == \A e \in listed : e.level = best[e.name][2]

\* Since the root's timer last expired there was a sweep, or one is about to be, or
\* the task of the table is late.
Swept ==
    timerAt[Station] # 0 =>
        \A e \in listed :
            \/ timerAt[Station] <= e.at + SILENCE + REPORT_PERIOD
            \/ timerAt[Station] <= late + REPORT_PERIOD
            \/ /\ atRoot # <<>> /\ timerAt[Station] = clock + REPORT_PERIOD
               /\ \/ clock <= e.at + SILENCE + REPORT_PERIOD
                  \/ clock <= late + REPORT_PERIOD

\* A leaf that has not stopped has sent a report in every period since the one
\* that is listed.
Running ==
    \A e \in listed :
        e.name \in Leaf /\ ~StoppedSince(e.name) =>
            timerAt[e.name] <=
                e.at + (reports[e.name] - best[e.name][1] + 1) * REPORT_PERIOD

LeafInv == LeafTypes /\ Timers /\ Copies /\ AtHand /\ Newest /\ Levels /\ Swept
           /\ Running

\* A product with one period more.
LEMMA OneMore ==
    ASSUME NEW x \in Int, NEW p \in Nat
    PROVE  (x + 1) * p = x * p + p /\ x * p \in Int
OBVIOUS

LEMMA NoLess ==
    ASSUME NEW x \in Nat, NEW p \in Nat
    PROVE  x * p >= 0
OBVIOUS

LEMMA Constants ==
    /\ Station \notin Leaf /\ Station \in Member
    /\ \A n \in Leaf : n \in Member /\ n # Station
    /\ \A n \in Member : n = Station \/ n \in Leaf
    /\ COPIES \in Nat \ {0} /\ REPORT_PERIOD \in Nat \ {0} /\ SILENCE \in Nat \ {0}
    /\ TABLE_SIZE \in Nat \ {0} /\ ROOM \in Nat \ {0}
    /\ COPIES <= REPORT_PERIOD
BY LeafAssumption DEF Member

LEMMA LeafStarts == LeafInit => LeafInv
<1> SUFFICES ASSUME LeafInit PROVE LeafInv
  OBVIOUS
<1>1. /\ clock = 1 /\ listed = {} /\ atRoot = <<>> /\ late = 0 /\ sending = {}
      /\ timerAt \in [Member -> 1 .. REPORT_PERIOD] /\ timerAt[Station] = 1
      /\ reports = [n \in Member |-> 0] /\ best = [n \in Member |-> <<0, 0>>]
      /\ stopped = [n \in Leaf |-> -1]
      /\ nodeLevel \in [Member -> LeafLevel \cup {1}]
  BY DEF LeafInit, Table!Init
<1>2. /\ best \in [Member -> Nat \X Nat]
      /\ \A n \in Member : best[n][1] = 0 /\ reports[n] = 0
  BY <1>1
<1>3. timerAt \in [Member -> Nat] /\ \A n \in Member : timerAt[n] >= 1 /\ timerAt[n] <= REPORT_PERIOD
  BY <1>1, Constants
<1>4. LeafTypes
  <2>1. reports \in [Member -> Nat] /\ stopped \in [Leaf -> Nat \cup {-1}]
    BY <1>1
  <2> QED
    BY <1>1, <1>2, <1>3, <2>1 DEF LeafTypes
<1>5. Timers
  BY <1>1, <1>3, Constants DEF Timers
<1>6. Copies /\ AtHand /\ Levels /\ Swept /\ Running
  BY <1>1 DEF Copies, AtHand, Levels, Swept, Running
<1>7. Newest
  BY <1>1, <1>2 DEF Newest
<1> QED
  BY <1>4, <1>5, <1>6, <1>7 DEF LeafInv

LEMMA PassKeeps == LeafInv /\ Pass => LeafInv'
<1> SUFFICES ASSUME LeafInv, Pass PROVE LeafInv'
  OBVIOUS
<1>1. /\ clock' = clock + 1 /\ UNCHANGED <<listed, room>>
      /\ UNCHANGED <<atRoot, nodeLevel, sending, timerAt, reports, best, stopped>>
      /\ late' = IF atRoot = <<>> THEN late ELSE clock
      /\ \A j \in sending : j.at # clock
      /\ \A n \in Member : timerAt[n] # clock
  BY DEF Pass, Table!Elapse, NowDue, Expires
<1>2. LeafTypes /\ clock \in Nat
  BY DEF LeafInv, LeafTypes
<1>3. LeafTypes'
  BY <1>1, <1>2 DEF LeafTypes
<1>4. Timers'
  <2>1. \A n \in Member : timerAt[n] # 0 =>
           clock + 1 <= timerAt[n] /\ timerAt[n] <= clock + 1 + REPORT_PERIOD
    <3> SUFFICES ASSUME NEW n \in Member, timerAt[n] # 0
                 PROVE  clock + 1 <= timerAt[n] /\ timerAt[n] <= clock + 1 + REPORT_PERIOD
      OBVIOUS
    <3>1. timerAt[n] \in Nat /\ timerAt[n] # clock
      BY <1>1, <1>2 DEF LeafTypes
    <3>2. clock <= timerAt[n] /\ timerAt[n] <= clock + REPORT_PERIOD
      BY DEF LeafInv, Timers
    <3> QED
      BY <1>2, <3>1, <3>2, Constants
  <2> QED
    BY <1>1, <2>1 DEF LeafInv, Timers
<1>5. Copies'
  <2>1. \A j \in sending : clock + 1 <= j.at
    <3> SUFFICES ASSUME NEW j \in sending PROVE clock + 1 <= j.at
      OBVIOUS
    <3>1. j.at \in Nat
      BY <1>2 DEF LeafTypes, Sending
    <3>2. clock <= j.at /\ j.at # clock
      BY <1>1 DEF LeafInv, Copies
    <3> QED
      BY <1>2, <3>1, <3>2
  <2> QED
    BY <1>1, <2>1 DEF LeafInv, Copies
<1>6. AtHand' /\ Newest' /\ Levels' /\ Running'
  BY <1>1 DEF LeafInv, AtHand, Newest, Levels, Running, StoppedSince
<1>7. Swept'
  <2>1. late \in Nat /\ late <= clock /\ timerAt[Station] \in Nat
    BY <1>2, Constants DEF LeafTypes
  <2>2. late <= late' /\ (atRoot # <<>> => late' = clock)
    BY <1>1, <1>2, <2>1
  <2>3. ASSUME NEW e \in listed, timerAt[Station] # 0
        PROVE  \/ timerAt[Station] <= e.at + SILENCE + REPORT_PERIOD
               \/ timerAt[Station] <= late' + REPORT_PERIOD
    <3>1. CASE atRoot # <<>> /\ timerAt[Station] = clock + REPORT_PERIOD
      BY <1>2, <2>2, <3>1, Constants
    <3>2. CASE timerAt[Station] <= late + REPORT_PERIOD
      <4>1. late' \in Nat
        BY <1>1, <1>2, <2>1
      <4> QED
        BY <2>1, <2>2, <3>2, <4>1, Constants
    <3> QED
      BY <2>3, <3>1, <3>2 DEF LeafInv, Swept
  <2> QED
    BY <1>1, <2>3 DEF Swept
<1> QED
  BY <1>3, <1>4, <1>5, <1>6, <1>7 DEF LeafInv

LEMMA MoveKeeps ==
    ASSUME LeafInv, NEW n \in Leaf, NEW l \in LeafLevel, MoveLeaf(n, l)
    PROVE  LeafInv'
<1>1. /\ nodeLevel' = [nodeLevel EXCEPT ![n] = l]
      /\ UNCHANGED <<clock, listed, atRoot, late, sending, timerAt, reports, best, stopped>>
  BY DEF MoveLeaf, rootVars, tableVars
<1>2. LeafTypes'
  BY <1>1 DEF LeafInv, LeafTypes
<1>3. Timers' /\ Copies' /\ AtHand' /\ Newest' /\ Levels' /\ Swept' /\ Running'
  BY <1>1 DEF LeafInv, Timers, Copies, AtHand, Newest, Levels, Swept, Running, StoppedSince
<1> QED
  BY <1>2, <1>3 DEF LeafInv

LEMMA StopKeeps ==
    ASSUME LeafInv, NEW n \in Leaf, StopLeaf(n)
    PROVE  LeafInv'
<1>1. /\ timerAt' = [timerAt EXCEPT ![n] = 0]
      /\ sending' = {j \in sending : j.report.name # n}
      /\ stopped' = [stopped EXCEPT ![n] = reports[n]]
      /\ UNCHANGED <<clock, listed, atRoot, late, nodeLevel, reports, best>>
  BY DEF StopLeaf, rootVars, tableVars
<1>2. LeafTypes /\ n \in Member /\ n # Station
  BY Constants DEF LeafInv
<1>3. /\ timerAt'[n] = 0 /\ \A m \in Member : m # n => timerAt'[m] = timerAt[m]
      /\ stopped'[n] = reports[n] /\ \A m \in Leaf : m # n => stopped'[m] = stopped[m]
      /\ sending' \subseteq sending
  BY <1>1, <1>2 DEF LeafTypes
<1>4. LeafTypes'
  <2>1. timerAt' \in [Member -> Nat] /\ stopped' \in [Leaf -> Nat \cup {-1}]
    BY <1>1, <1>2 DEF LeafTypes
  <2> QED
    BY <1>1, <1>2, <1>3, <2>1 DEF LeafTypes
<1>5. Timers'
  BY <1>1, <1>3, Constants DEF LeafInv, Timers
<1>6. Copies'
  BY <1>1, <1>3, Constants DEF LeafInv, Copies
<1>7. AtHand'
  BY <1>1, <1>3 DEF LeafInv, AtHand
<1>8. Newest' /\ Levels'
  BY <1>1, <1>3 DEF LeafInv, Newest, Levels
<1>9. Swept'
  BY <1>1, <1>2, <1>3, Constants DEF LeafInv, Swept
<1>10. Running'
  <2> SUFFICES ASSUME NEW e \in listed, e.name \in Leaf, ~StoppedSince(e.name)'
               PROVE  timerAt'[e.name] <=
                        e.at + (reports[e.name] - best[e.name][1] + 1) * REPORT_PERIOD
    BY <1>1 DEF Running
  <2>1. e.name # n
    BY <1>1, <1>2, <1>3 DEF LeafInv, Newest, StoppedSince
  <2>2. ~StoppedSince(e.name) /\ timerAt'[e.name] = timerAt[e.name]
    BY <1>1, <1>3, <2>1, Constants DEF StoppedSince
  <2> QED
    BY <2>2 DEF LeafInv, Running
<1> QED
  BY <1>4, <1>5, <1>6, <1>7, <1>8, <1>9, <1>10 DEF LeafInv

LEMMA StartKeeps ==
    ASSUME LeafInv, NEW n \in Leaf, StartLeaf(n)
    PROVE  LeafInv'
<1>1. PICK t \in clock + 1 .. clock + REPORT_PERIOD : timerAt' = [timerAt EXCEPT ![n] = t]
  BY DEF StartLeaf, NextExpiry
<1>2. /\ timerAt[n] = 0
      /\ UNCHANGED <<clock, listed, atRoot, late, nodeLevel, sending, reports, best, stopped>>
  BY DEF StartLeaf, rootVars, tableVars
<1>3. LeafTypes /\ n \in Member /\ n # Station
  BY Constants DEF LeafInv
<1>4. t \in Nat /\ clock < t /\ t <= clock + REPORT_PERIOD
  BY <1>1, <1>3, Constants DEF LeafTypes
<1>5. timerAt'[n] = t /\ \A m \in Member : m # n => timerAt'[m] = timerAt[m]
  BY <1>1, <1>3 DEF LeafTypes
<1>6. LeafTypes'
  BY <1>1, <1>2, <1>3, <1>4 DEF LeafTypes
<1>7. Timers'
  <2>1. Timers
    BY DEF LeafInv
  <2>2. ASSUME NEW m \in Member, timerAt'[m] # 0
        PROVE  clock <= timerAt'[m] /\ timerAt'[m] <= clock + REPORT_PERIOD
    <3>1. clock \in Nat
      BY <1>3 DEF LeafTypes
    <3>2. CASE m = n
      BY <1>4, <1>5, <3>1, <3>2
    <3>3. CASE m # n
      BY <1>5, <2>1, <2>2, <3>3 DEF Timers
    <3> QED
      BY <3>2, <3>3
  <2>3. ASSUME NEW m \in Leaf, timerAt'[m] = 0
        PROVE  stopped[m] = reports[m]
    <3>1. m \in Member
      BY Constants
    <3>2. m # n
      <4>1. clock \in Nat
        BY <1>3 DEF LeafTypes
      <4> QED
        BY <1>4, <1>5, <2>3, <4>1
    <3> QED
      BY <1>5, <2>1, <2>3, <3>1, <3>2 DEF Timers
  <2> QED
    BY <1>2, <2>2, <2>3 DEF Timers
<1>8. Copies'
  <2>1. \A j \in sending : j.report.name # n /\ j.report.name \in Member
    BY <1>2, Constants DEF LeafInv, Copies
  <2>2. \A j \in sending : timerAt'[j.report.name] = timerAt[j.report.name]
    BY <1>5, <2>1
  <2> QED
    BY <1>2, <2>2 DEF LeafInv, Copies
<1>9. AtHand'
  BY <1>2 DEF LeafInv, AtHand
<1>10. Newest' /\ Levels'
  BY <1>2 DEF LeafInv, Newest, Levels
<1>11. Swept'
  BY <1>2, <1>3, <1>5, Constants DEF LeafInv, Swept
<1>12. Running'
  <2> SUFFICES ASSUME NEW e \in listed, e.name \in Leaf, ~StoppedSince(e.name)
               PROVE  timerAt'[e.name] <=
                        e.at + (reports[e.name] - best[e.name][1] + 1) * REPORT_PERIOD
    BY <1>2 DEF Running, StoppedSince
  <2>1. e.name # n
    BY <1>2, <1>3 DEF LeafInv, Newest, Timers, StoppedSince
  <2>2. timerAt'[e.name] = timerAt[e.name]
    BY <1>5, <2>1, Constants
  <2> QED
    BY <2>2 DEF LeafInv, Running
<1> QED
  BY <1>6, <1>7, <1>8, <1>9, <1>10, <1>11, <1>12 DEF LeafInv

\* No copy of a leaf's report is left when its timer expires.
LEMMA AllSent ==
    ASSUME LeafInv, NEW n \in Member, Expires(n), NEW j \in sending
    PROVE  j.report.name # n
<1>1. timerAt[n] = clock /\ clock \in Nat \ {0}
  BY DEF Expires, LeafInv, LeafTypes
<1>2. j.left \in 1 .. COPIES /\ j.at \in Nat
  BY DEF LeafInv, LeafTypes, Sending
<1>3. SUFFICES ASSUME j.report.name = n PROVE FALSE
  OBVIOUS
<1>4. clock <= j.at /\ j.at + j.left <= clock
  BY <1>1, <1>3 DEF LeafInv, Copies
<1> QED
  BY <1>1, <1>2, <1>4, Constants

\* The reports in the buffer are reports.
LEMMA BufferType ==
    ASSUME LeafInv, NEW i \in DOMAIN atRoot
    PROVE  /\ atRoot[i] \in NodeReport /\ atRoot[i].name \in Member
           /\ atRoot[i].no \in Nat /\ i \in 1 .. Len(atRoot)
           /\ best[atRoot[i].name][1] \in Nat /\ reports[atRoot[i].name] \in Nat
<1>1. atRoot \in Seq(NodeReport)
  BY DEF LeafInv, LeafTypes
<1>2. atRoot[i] \in NodeReport /\ i \in 1 .. Len(atRoot)
  BY <1>1
<1> QED
  BY <1>2 DEF LeafInv, LeafTypes, NodeReport

\* A report that is not older than those of its node in the buffer goes to its end.
LEMMA EnterKeeps ==
    ASSUME LeafInv, NEW x \in NodeReport, atRoot' = Append(atRoot, x), best' = best,
           reports' \in [Member -> Nat],
           \A n \in Member : reports[n] <= reports'[n],
           \A k \in sending' : \E i \in sending : k.report = i.report,
           best[x.name][1] <= x.no, x.no <= reports'[x.name],
           x.no = best[x.name][1] => x.level = best[x.name][2],
           \A i \in DOMAIN atRoot : atRoot[i].name = x.name =>
              atRoot[i].no <= x.no /\ (atRoot[i].no = x.no => atRoot[i].level = x.level),
           \A j \in sending : x.name = j.report.name /\ x.no = j.report.no =>
              x.level = j.report.level
    PROVE  AtHand' /\ atRoot' \in Seq(NodeReport) /\ atRoot' # <<>>
<1>1. atRoot \in Seq(NodeReport) /\ Len(atRoot) \in Nat
  BY DEF LeafInv, LeafTypes
<1>2. /\ atRoot' \in Seq(NodeReport) /\ atRoot' # <<>>
      /\ DOMAIN atRoot = 1 .. Len(atRoot) /\ DOMAIN atRoot' = 1 .. Len(atRoot) + 1
      /\ \A i \in DOMAIN atRoot : atRoot'[i] = atRoot[i]
      /\ atRoot'[Len(atRoot) + 1] = x
  BY <1>1
<1>3. \A i \in DOMAIN atRoot' :
         \/ i \in DOMAIN atRoot /\ atRoot'[i] = atRoot[i]
         \/ i = Len(atRoot) + 1 /\ atRoot'[i] = x
  BY <1>1, <1>2
<1>4. ASSUME NEW i \in DOMAIN atRoot'
      PROVE  /\ best[atRoot'[i].name][1] <= atRoot'[i].no
             /\ atRoot'[i].no <= reports'[atRoot'[i].name]
             /\ atRoot'[i].no = best[atRoot'[i].name][1] =>
                   atRoot'[i].level = best[atRoot'[i].name][2]
  <2>1. CASE i \in DOMAIN atRoot /\ atRoot'[i] = atRoot[i]
    <3>1. /\ atRoot[i].no <= reports[atRoot[i].name] /\ atRoot[i].no \in Nat
          /\ atRoot[i].name \in Member /\ reports[atRoot[i].name] \in Nat
      BY <2>1, BufferType DEF LeafInv, AtHand
    <3>2. /\ reports[atRoot[i].name] <= reports'[atRoot[i].name]
          /\ reports'[atRoot[i].name] \in Nat
      BY <3>1
    <3>3. atRoot[i].no <= reports'[atRoot[i].name]
      BY <3>1, <3>2
    <3> QED
      BY <2>1, <3>3 DEF LeafInv, AtHand
  <2> QED
    BY <1>3, <2>1
<1>5. ASSUME NEW i \in DOMAIN atRoot', NEW k \in DOMAIN atRoot', i < k,
             atRoot'[i].name = atRoot'[k].name
      PROVE  /\ atRoot'[i].no <= atRoot'[k].no
             /\ atRoot'[i].no = atRoot'[k].no => atRoot'[i].level = atRoot'[k].level
  <2>1. i \in DOMAIN atRoot /\ atRoot'[i] = atRoot[i]
    BY <1>1, <1>2, <1>5
  <2>2. CASE k \in DOMAIN atRoot /\ atRoot'[k] = atRoot[k]
    BY <1>5, <2>1, <2>2 DEF LeafInv, AtHand
  <2>3. CASE atRoot'[k] = x
    BY <1>5, <2>1, <2>3
  <2> QED
    BY <1>3, <2>2, <2>3
<1>6. ASSUME NEW i \in DOMAIN atRoot', NEW k \in sending',
             atRoot'[i].name = k.report.name, atRoot'[i].no = k.report.no
      PROVE  atRoot'[i].level = k.report.level
  <2>1. PICK j \in sending : k.report = j.report
    OBVIOUS
  <2>2. CASE i \in DOMAIN atRoot /\ atRoot'[i] = atRoot[i]
    BY <1>6, <2>1, <2>2 DEF LeafInv, AtHand
  <2>3. CASE atRoot'[i] = x
    BY <1>6, <2>1, <2>3
  <2> QED
    BY <1>3, <2>2, <2>3
<1> QED
  BY <1>2, <1>4, <1>5, <1>6 DEF AtHand

LEMMA LeafTimerKeeps ==
    ASSUME LeafInv, NEW n \in Leaf, LeafTimer(n)
    PROVE  LeafInv'
<1> DEFINE job == [report |-> NewReport(n), left |-> COPIES, at |-> clock]
<1>1. /\ timerAt[n] = clock /\ Expires(n)
      /\ sending' = sending \cup {job}
      /\ reports' = [reports EXCEPT ![n] = reports[n] + 1]
      /\ timerAt' = [timerAt EXCEPT ![n] = clock + REPORT_PERIOD]
      /\ UNCHANGED <<clock, listed, atRoot, late, nodeLevel, best, stopped>>
  BY DEF LeafTimer, rootVars, tableVars, Expires, NextExpiry
<1>2. LeafTypes /\ n \in Member /\ n # Station /\ clock \in Nat \ {0}
  BY Constants DEF LeafInv, LeafTypes
<1>3. /\ reports[n] \in Nat /\ nodeLevel[n] \in LeafLevel \cup {1}
      /\ reports'[n] = reports[n] + 1 /\ timerAt'[n] = clock + REPORT_PERIOD
      /\ \A m \in Member : m # n => reports'[m] = reports[m] /\ timerAt'[m] = timerAt[m]
  BY <1>1, <1>2 DEF LeafTypes
<1>4. /\ job \in Sending /\ job.report.name = n /\ job.report.no = reports[n] + 1
      /\ job.at = clock /\ job.left = COPIES
  BY <1>2, <1>3, Constants DEF Sending, NewReport, NodeReport
<1>5. \A j \in sending : j.report.name # n
  BY <1>1, <1>2, AllSent
<1> HIDE DEF job
<1>6. LeafTypes'
  <2>1. timerAt' \in [Member -> Nat] /\ reports' \in [Member -> Nat]
    BY <1>1, <1>2, <1>3, Constants DEF LeafTypes
  <2> QED
    BY <1>1, <1>2, <1>4, <2>1 DEF LeafTypes
<1>7. Timers'
  <2>1. clock + REPORT_PERIOD # 0 /\ clock <= clock + REPORT_PERIOD
    BY <1>2, Constants
  <2>2. ASSUME NEW m \in Member, timerAt'[m] # 0
        PROVE  clock <= timerAt'[m] /\ timerAt'[m] <= clock + REPORT_PERIOD
    <3>1. CASE m = n
      BY <1>2, <1>3, <2>1, <3>1, Constants
    <3>2. CASE m # n
      BY <1>3, <2>2, <3>2 DEF LeafInv, Timers
    <3> QED
      BY <3>1, <3>2
  <2>3. ASSUME NEW m \in Leaf, timerAt'[m] = 0 PROVE stopped[m] = reports'[m]
    <3>1. m # n /\ m \in Member
      BY <1>3, <2>1, <2>3, Constants
    <3> QED
      BY <1>3, <2>3, <3>1 DEF LeafInv, Timers
  <2> QED
    BY <1>1, <2>2, <2>3 DEF Timers
<1>8. Copies'
  <2>1. /\ clock <= job.at /\ job.at + job.left <= timerAt'[n] /\ timerAt'[n] # 0
    BY <1>2, <1>3, <1>4, Constants
  <2>2. \A j \in sending : j.report.name \in Member /\ j.report.name # n
    BY <1>5, Constants DEF LeafInv, Copies
  <2> QED
    BY <1>1, <1>3, <1>4, <2>1, <2>2 DEF LeafInv, Copies
<1>9. AtHand'
  <2>1. ASSUME NEW i \in DOMAIN atRoot
        PROVE  /\ atRoot[i].no <= reports'[atRoot[i].name]
               /\ atRoot[i].name = n => atRoot[i].no # job.report.no
    <3>1. /\ atRoot[i].no \in Nat /\ atRoot[i].name \in Member
          /\ reports[atRoot[i].name] \in Nat /\ atRoot[i].no <= reports[atRoot[i].name]
      BY BufferType DEF LeafInv, AtHand
    <3> QED
      BY <1>3, <1>4, <3>1
  <2>2. \A i \in DOMAIN atRoot, j \in sending' :
           atRoot[i].name = j.report.name /\ atRoot[i].no = j.report.no =>
               atRoot[i].level = j.report.level
    BY <1>1, <1>4, <2>1 DEF LeafInv, AtHand
  <2> QED
    BY <1>1, <2>1, <2>2 DEF LeafInv, AtHand
<1>10. Newest'
  <2> SUFFICES ASSUME NEW m \in Member
               PROVE /\ best[m][1] <= reports'[m]
                     /\ best[m][1] = reports'[m] =>
                          \A j \in sending' : j.report.name = m =>
                              j.report.level = best[m][2]
    BY <1>1 DEF Newest
  <2>1. best[m][1] \in Nat /\ best[m][1] <= reports[m]
    BY <1>2 DEF LeafInv, LeafTypes, Newest
  <2>2. CASE m = n
    BY <1>3, <2>1, <2>2
  <2>3. CASE m # n
    BY <1>1, <1>3, <1>4, <2>3 DEF LeafInv, Newest
  <2> QED
    BY <2>2, <2>3
<1>11. Levels' /\ Swept'
  BY <1>1, <1>2, <1>3, Constants DEF LeafInv, Levels, Swept
<1>12. Running'
  <2> SUFFICES ASSUME NEW e \in listed, e.name \in Leaf, ~StoppedSince(e.name)
               PROVE  timerAt'[e.name] <=
                        e.at + (reports'[e.name] - best[e.name][1] + 1) * REPORT_PERIOD
    BY <1>1 DEF Running, StoppedSince
  <2>1. timerAt[e.name] <= e.at + (reports[e.name] - best[e.name][1] + 1) * REPORT_PERIOD
    BY DEF LeafInv, Running
  <2>2. CASE e.name = n
    <3> DEFINE x == reports[n] - best[n][1] + 1
    <3>1. best[n][1] \in Nat /\ e.at \in Nat
      BY <1>2 DEF LeafTypes, ListEntry
    <3>2. x \in Int /\ reports'[n] - best[n][1] + 1 = x + 1
      BY <1>3, <3>1
    <3>3. clock <= e.at + x * REPORT_PERIOD
      BY <1>1, <2>1, <2>2
    <3> HIDE DEF x
    <3>4. (x + 1) * REPORT_PERIOD = x * REPORT_PERIOD + REPORT_PERIOD
          /\ x * REPORT_PERIOD \in Int
      BY <3>2, OneMore, Constants
    <3>5. clock + REPORT_PERIOD <= e.at + (x + 1) * REPORT_PERIOD
      BY <1>2, <3>1, <3>3, <3>4, Constants
    <3> QED
      BY <1>3, <2>2, <3>2, <3>5
  <2>3. CASE e.name # n
    BY <1>3, <2>1, <2>3, Constants
  <2> QED
    BY <2>2, <2>3
<1> QED
  BY <1>6, <1>7, <1>8, <1>9, <1>10, <1>11, <1>12 DEF LeafInv

LEMMA StationKeeps == LeafInv /\ StationTimer => LeafInv'
<1> SUFFICES ASSUME LeafInv, StationTimer PROVE LeafInv'
  OBVIOUS
<1> DEFINE own == NewReport(Station)
<1>1. PICK t \in {0, clock + REPORT_PERIOD} :
         /\ timerAt' = [timerAt EXCEPT ![Station] = t]
         /\ \/ atRoot' = Append(atRoot, own)
            \/ (t = 0 \/ Len(atRoot) = ROOM) /\ atRoot' = atRoot
  BY DEF StationTimer, NextExpiry
<1>2. /\ timerAt[Station] = clock /\ Expires(Station)
      /\ reports' = [reports EXCEPT ![Station] = reports[Station] + 1]
      /\ UNCHANGED <<clock, listed, late, nodeLevel, sending, best, stopped>>
  BY DEF StationTimer, tableVars, Expires
<1>3. LeafTypes /\ clock \in Nat \ {0} /\ Station \in Member
  BY Constants DEF LeafInv, LeafTypes
<1>4. /\ reports[Station] \in Nat /\ nodeLevel[Station] \in LeafLevel \cup {1}
      /\ reports'[Station] = reports[Station] + 1 /\ timerAt'[Station] = t
      /\ \A m \in Member : m # Station =>
            reports'[m] = reports[m] /\ timerAt'[m] = timerAt[m]
      /\ reports' \in [Member -> Nat]
      /\ \A m \in Member : reports[m] \in Nat /\ reports[m] <= reports'[m]
  BY <1>1, <1>2, <1>3 DEF LeafTypes
<1>5. /\ own \in NodeReport /\ own.name = Station /\ own.no = reports[Station] + 1
  BY <1>3, <1>4 DEF NewReport, NodeReport
<1>6. \A j \in sending : j.report.name # Station
  BY <1>2, <1>3, AllSent
<1>7. t \in Nat /\ (t # 0 => t = clock + REPORT_PERIOD)
  BY <1>1, <1>3, Constants
<1> HIDE DEF own
<1>8. AtHand' /\ atRoot' \in Seq(NodeReport) /\ (t # 0 => atRoot' # <<>>)
  <2>1. CASE atRoot' = Append(atRoot, own)
    <3>1. best[Station][1] \in Nat /\ best[Station][1] <= reports[Station]
      BY <1>3 DEF LeafInv, LeafTypes, Newest
    <3>2. /\ best[own.name][1] <= own.no /\ own.no # best[own.name][1]
          /\ own.no <= reports'[own.name]
      BY <1>4, <1>5, <3>1
    <3>3. ASSUME NEW i \in DOMAIN atRoot, atRoot[i].name = own.name
          PROVE  atRoot[i].no <= own.no /\ atRoot[i].no # own.no
      <4>1. atRoot[i].no \in Nat /\ atRoot[i].no <= reports[Station]
        BY <1>5, <3>3, BufferType DEF LeafInv, AtHand
      <4> QED
        BY <1>4, <1>5, <4>1
    <3> QED
      BY <1>2, <1>4, <1>5, <1>6, <2>1, <3>2, <3>3, EnterKeeps
  <2>2. CASE (t = 0 \/ Len(atRoot) = ROOM) /\ atRoot' = atRoot
    <3>1. atRoot \in Seq(NodeReport) /\ (Len(atRoot) = ROOM => atRoot # <<>>)
      BY <1>3, Constants DEF LeafTypes
    <3>2. ASSUME NEW i \in DOMAIN atRoot
          PROVE  atRoot[i].no <= reports'[atRoot[i].name]
      <4>1. /\ atRoot[i].no \in Nat /\ atRoot[i].name \in Member
            /\ reports[atRoot[i].name] \in Nat /\ atRoot[i].no <= reports[atRoot[i].name]
        BY BufferType DEF LeafInv, AtHand
      <4>2. reports[atRoot[i].name] <= reports'[atRoot[i].name]
            /\ reports'[atRoot[i].name] \in Nat
        BY <1>4, <4>1
      <4> QED
        BY <4>1, <4>2
    <3> QED
      BY <1>2, <2>2, <3>1, <3>2 DEF LeafInv, AtHand
  <2> QED
    BY <1>1, <2>1, <2>2
<1>9. LeafTypes'
  <2>1. timerAt' \in [Member -> Nat]
    BY <1>1, <1>3, <1>7 DEF LeafTypes
  <2> QED
    BY <1>2, <1>3, <1>4, <1>8, <2>1 DEF LeafTypes
<1>10. Timers'
  <2>1. t # 0 => clock <= t /\ t <= clock + REPORT_PERIOD
    BY <1>3, <1>7, Constants
  <2> QED
    BY <1>2, <1>4, <2>1, Constants DEF LeafInv, Timers
<1>11. Copies'
  BY <1>2, <1>4, Constants DEF LeafInv, Copies
<1>12. Newest'
  <2> SUFFICES ASSUME NEW m \in Member
               PROVE /\ best[m][1] <= reports'[m]
                     /\ best[m][1] = reports'[m] =>
                          \A j \in sending : j.report.name = m =>
                              j.report.level = best[m][2]
    BY <1>2 DEF Newest
  <2>1. best[m][1] \in Nat /\ best[m][1] <= reports[m]
    BY <1>3 DEF LeafInv, LeafTypes, Newest
  <2>2. CASE m = Station
    BY <1>4, <2>1, <2>2
  <2>3. CASE m # Station
    BY <1>4, <2>3 DEF LeafInv, Newest
  <2> QED
    BY <2>2, <2>3
<1>13. Levels'
  BY <1>2 DEF LeafInv, Levels
<1>14. Swept'
  <2> SUFFICES ASSUME t # 0, NEW e \in listed
               PROVE  /\ atRoot' # <<>> /\ t = clock + REPORT_PERIOD
                      /\ \/ clock <= e.at + SILENCE + REPORT_PERIOD
                         \/ clock <= late + REPORT_PERIOD
    BY <1>2, <1>4 DEF Swept
  <2>1. atRoot' # <<>> /\ t = clock + REPORT_PERIOD
    BY <1>7, <1>8
  <2>2. clock # clock + REPORT_PERIOD
    BY <1>3, Constants
  <2>3. \/ clock <= e.at + SILENCE + REPORT_PERIOD
        \/ clock <= late + REPORT_PERIOD
    BY <1>2, <1>3, <2>2 DEF LeafInv, Swept
  <2> QED
    BY <2>1, <2>3
<1>15. Running'
  BY <1>2, <1>4, Constants DEF LeafInv, Running, StoppedSince
<1> QED
  BY <1>8, <1>9, <1>10, <1>11, <1>12, <1>13, <1>14, <1>15 DEF LeafInv

\* What is left of a copy's job, if it is not over, is the job of the same report.
LEMMA JobsLeft ==
    ASSUME LeafInv, NEW j \in sending, j \in NowDue, sending' \in {JobsAfter(j), sending \ {j}}
    PROVE  /\ sending' \subseteq Sending
           /\ \A k \in sending' : \E i \in sending :
                 /\ k.report = i.report
                 /\ clock <= k.at /\ k.at + k.left = i.at + i.left
           /\ \A k, l \in sending' : k.report.name = l.report.name => k = l
<1>1. LeafTypes /\ Copies /\ clock \in Nat \ {0} /\ sending \subseteq Sending
  BY DEF LeafInv, LeafTypes
<1>2. j \in Sending /\ j.at = clock
  BY <1>1 DEF NowDue
<1> DEFINE rest == [j EXCEPT !.left = j.left - 1, !.at = j.at + 1]
<1>3. JobsAfter(j) = (sending \ {j}) \cup (IF j.left = 1 THEN {} ELSE {rest})
  BY DEF JobsAfter
<1>4. j.left # 1 => /\ rest \in Sending /\ rest.report = j.report
                   /\ clock <= rest.at /\ rest.at + rest.left = j.at + j.left
  <2> SUFFICES ASSUME j.left # 1
               PROVE  /\ rest \in Sending /\ rest.report = j.report
                      /\ clock <= rest.at /\ rest.at + rest.left = j.at + j.left
    OBVIOUS
  <2>1. /\ j.left - 1 \in 1 .. COPIES /\ j.at + 1 \in Nat
        /\ j.left \in 1 .. COPIES /\ j.at \in Nat
    BY <1>1, <1>2, Constants DEF Sending
  <2>2. rest \in Sending
    BY <1>2, <2>1 DEF Sending
  <2>3. rest.report = j.report /\ rest.left = j.left - 1 /\ rest.at = j.at + 1
    BY <1>2 DEF Sending
  <2> HIDE DEF rest
  <2> QED
    BY <1>1, <1>2, <2>1, <2>2, <2>3, Constants
<1>5. \A k \in sending' : (k \in sending /\ k # j) \/ (j.left # 1 /\ k = rest)
  <2>1. CASE sending' = sending \ {j}
    BY <2>1
  <2>2. CASE sending' = JobsAfter(j)
    BY <1>3, <2>2
  <2> QED
    BY <2>1, <2>2
<1> HIDE DEF rest
<1>6. \A i \in sending : clock <= i.at /\ i.at + i.left = i.at + i.left
  BY <1>1 DEF Copies
<1>7. sending' \subseteq Sending
  BY <1>1, <1>4, <1>5
<1>8. \A k \in sending' : \E i \in sending :
         k.report = i.report /\ clock <= k.at /\ k.at + k.left = i.at + i.left
  BY <1>4, <1>5, <1>6
<1>9. ASSUME NEW k \in sending', NEW l \in sending', k.report.name = l.report.name
      PROVE  k = l
  <2>1. \A i \in sending : i.report.name = j.report.name => i = j
    BY <1>1 DEF Copies
  <2> DEFINE Old(x) == x \in sending /\ x # j
             New(x) == j.left # 1 /\ x = rest
  <2>2. (Old(k) \/ New(k)) /\ (Old(l) \/ New(l))
    BY <1>5
  <2>3. \A x : New(x) => x.report.name = j.report.name
    BY <1>4
  <2>4. \A x : Old(x) => x.report.name # j.report.name
    BY <2>1
  <2>5. CASE Old(k) /\ Old(l)
    BY <1>1, <1>9, <2>5 DEF Copies
  <2>6. CASE New(k) /\ New(l)
    BY <2>6
  <2> QED
    BY <1>9, <2>2, <2>3, <2>4, <2>5, <2>6
<1> QED
  BY <1>7, <1>8, <1>9

\* The copies that are left keep what the invariant says of them.
LEMMA JobsKept ==
    ASSUME LeafInv, NEW j \in sending, j \in NowDue, sending' \in {JobsAfter(j), sending \ {j}},
           UNCHANGED <<clock, listed, nodeLevel, timerAt, reports, best, stopped>>
    PROVE  /\ Timers' /\ Copies' /\ Levels' /\ Running'
           /\ sending' \subseteq Sending
           /\ \A k \in sending' : \E i \in sending : k.report = i.report
<1>1. /\ sending' \subseteq Sending
      /\ \A k \in sending' : \E i \in sending :
            k.report = i.report /\ clock <= k.at /\ k.at + k.left = i.at + i.left
      /\ \A k, l \in sending' : k.report.name = l.report.name => k = l
  BY JobsLeft
<1>2. Timers' /\ Levels' /\ Running'
  BY DEF LeafInv, Timers, Levels, Running, StoppedSince
<1>3. \A k \in sending' :
         /\ k.report.name \in Leaf /\ k.report.no = reports[k.report.name]
         /\ timerAt[k.report.name] # 0
         /\ clock <= k.at /\ k.at + k.left <= timerAt[k.report.name]
  <2> SUFFICES ASSUME NEW k \in sending'
               PROVE  /\ k.report.name \in Leaf /\ k.report.no = reports[k.report.name]
                      /\ timerAt[k.report.name] # 0
                      /\ clock <= k.at /\ k.at + k.left <= timerAt[k.report.name]
    OBVIOUS
  <2>1. PICK i \in sending :
           k.report = i.report /\ clock <= k.at /\ k.at + k.left = i.at + i.left
    BY <1>1
  <2> QED
    BY <2>1 DEF LeafInv, Copies
<1>4. Copies'
  BY <1>1, <1>3 DEF Copies
<1> QED
  BY <1>1, <1>2, <1>4

LEMMA LoseKeeps ==
    ASSUME LeafInv, NEW j \in sending, LoseReport(j)
    PROVE  LeafInv'
<1>1. /\ j \in NowDue /\ sending' \in {JobsAfter(j), sending \ {j}}
      /\ UNCHANGED <<clock, listed, atRoot, late, nodeLevel, timerAt, reports, best, stopped>>
  BY DEF LoseReport, rootVars, tableVars
<1>2. /\ Timers' /\ Copies' /\ Levels' /\ Running' /\ sending' \subseteq Sending
      /\ \A k \in sending' : \E i \in sending : k.report = i.report
  BY <1>1, JobsKept
<1>3. LeafTypes'
  BY <1>1, <1>2 DEF LeafInv, LeafTypes
<1>4. Swept'
  BY <1>1 DEF LeafInv, Swept
<1>5. Newest'
  BY <1>1, <1>2 DEF LeafInv, Newest
<1>6. AtHand'
  BY <1>1, <1>2 DEF LeafInv, AtHand
<1> QED
  BY <1>2, <1>3, <1>4, <1>5, <1>6 DEF LeafInv

LEMMA DeliverKeeps ==
    ASSUME LeafInv, NEW j \in sending, DeliverReport(j)
    PROVE  LeafInv'
<1>1. /\ j \in NowDue /\ sending' \in {JobsAfter(j), sending \ {j}}
      /\ atRoot' = Append(atRoot, j.report)
      /\ UNCHANGED <<clock, listed, late, nodeLevel, timerAt, reports, best, stopped>>
  BY DEF DeliverReport, tableVars
<1>2. /\ Timers' /\ Copies' /\ Levels' /\ Running' /\ sending' \subseteq Sending
      /\ \A k \in sending' : \E i \in sending : k.report = i.report
  BY <1>1, JobsKept
<1>3. /\ j.report \in NodeReport /\ j.report.name \in Member
      /\ j.report.no = reports[j.report.name]
      /\ reports \in [Member -> Nat]
  BY DEF LeafInv, LeafTypes, Sending, NodeReport, Copies
<1>4. Newest'
  <2>1. \A m \in Member : best[m][1] = reports[m] =>
           \A i \in sending : i.report.name = m => i.report.level = best[m][2]
    BY DEF LeafInv, Newest
  <2> QED
    BY <1>1, <1>2, <2>1 DEF LeafInv, Newest
<1>5. AtHand' /\ atRoot' \in Seq(NodeReport) /\ atRoot' # <<>>
  <2> DEFINE x == j.report
  <2>1. /\ best[x.name][1] <= x.no /\ x.no <= reports[x.name]
        /\ x.no = best[x.name][1] => x.level = best[x.name][2]
    BY <1>3 DEF LeafInv, Newest
  <2>2. \A i \in DOMAIN atRoot : atRoot[i].name = x.name =>
           atRoot[i].no <= x.no /\ (atRoot[i].no = x.no => atRoot[i].level = x.level)
    BY <1>3 DEF LeafInv, AtHand
  <2>3. \A i \in sending : x.name = i.report.name /\ x.no = i.report.no =>
           x.level = i.report.level
    BY DEF LeafInv, Copies
  <2>4. \A n \in Member : reports[n] <= reports'[n]
    BY <1>1, <1>3
  <2>5. x \in NodeReport /\ atRoot' = Append(atRoot, x)
        /\ best' = best /\ reports' = reports
    BY <1>1, <1>3
  <2> HIDE DEF x
  <2> QED
    BY <1>2, <1>3, <2>1, <2>2, <2>3, <2>4, <2>5, EnterKeeps
<1>6. LeafTypes'
  BY <1>1, <1>2, <1>5 DEF LeafInv, LeafTypes
<1>7. Swept'
  BY <1>1, <1>5 DEF LeafInv, Swept
<1> QED
  BY <1>2, <1>4, <1>5, <1>6, <1>7 DEF LeafInv

\* The report that is handled is not older than the newest one that was, and those
\* that stay in the buffer are not older than it.
LEMMA HandledReport ==
    ASSUME LeafInv, HandleReport
    PROVE  /\ Handled \in NodeReport /\ Handled.name \in Member /\ Handled.no \in Nat
           /\ Handled.level \in LeafLevel \cup {1}
           /\ best[Handled.name][1] <= Handled.no /\ Handled.no <= reports[Handled.name]
           /\ Handled.no = best[Handled.name][1] => Handled.level = best[Handled.name][2]
           /\ atRoot' \in Seq(NodeReport)
           /\ \A i \in DOMAIN atRoot' :
                 i + 1 \in DOMAIN atRoot /\ i \in Nat /\ atRoot'[i] = atRoot[i + 1]
           /\ \A i \in DOMAIN atRoot' : atRoot'[i].name = Handled.name =>
                 /\ Handled.no <= atRoot'[i].no
                 /\ Handled.no = atRoot'[i].no => Handled.level = atRoot'[i].level
<1>1. atRoot \in Seq(NodeReport) /\ atRoot # <<>> /\ atRoot' = Tail(atRoot)
  BY DEF HandleReport, LeafInv, LeafTypes
<1>2. 1 \in DOMAIN atRoot /\ Handled = atRoot[1]
  BY <1>1 DEF Handled
<1>3. /\ atRoot' \in Seq(NodeReport)
      /\ \A i \in DOMAIN atRoot' :
            i + 1 \in DOMAIN atRoot /\ i \in Nat \ {0} /\ atRoot'[i] = atRoot[i + 1]
  BY <1>1
<1>4. \A i \in DOMAIN atRoot' : 1 < i + 1
  BY <1>3
<1> QED
  BY <1>2, <1>3, <1>4, BufferType DEF LeafInv, AtHand, NodeReport

\* The table after a report: the entry of its node is new, if there was a place,
\* the others are the ones that are not too old.
LEMMA HandleEffect ==
    ASSUME LeafInv, HandleReport, NEW r, r = Handled
    PROVE  /\ UNCHANGED <<clock, late, nodeLevel, sending, timerAt, reports, stopped>>
           /\ best' = [best EXCEPT ![r.name] = <<r.no, r.level>>]
           /\ \A e \in listed' :
                 \/ e = [name |-> r.name, level |-> r.level, at |-> clock]
                 \/ e \in listed /\ e.name # r.name /\ clock - e.at <= SILENCE
           /\ \A e \in listed :
                 clock - e.at <= SILENCE \/ e.name = r.name => \E f \in listed' : f.name = e.name
<1>1. LeafTypes /\ r \in NodeReport /\ r.name \in Member /\ r.no \in Nat /\ clock \in Nat
  BY HandledReport DEF LeafInv, LeafTypes
<1> DEFINE offer == [n \in Member |->
              IF atRoot # <<>> /\ Head(atRoot).name = n THEN Head(atRoot).level ELSE 0]
           fresh == [name |-> r.name, level |-> r.level, at |-> clock]
           others == {e \in listed : e.name # r.name}
           Young(S) == {e \in S : clock - e.at <= SILENCE}
<1>2. offer[r.name] = r.level
  BY <1>1 DEF HandleReport, Handled
<1>3. listed' = IF Table!IsListed(r.name) \/ room > 0
                THEN Young(others \cup {[name |-> r.name, level |-> offer[r.name], at |-> clock]})
                ELSE Young(listed)
  BY DEF HandleReport, Table!Report, Table!Kept
<1>4. listed' = IF Table!IsListed(r.name) \/ room > 0
                THEN Young(others \cup {fresh}) ELSE Young(listed)
  BY <1>2, <1>3
<1>5. UNCHANGED <<clock, late, nodeLevel, sending, timerAt, reports, stopped>>
  BY DEF HandleReport, Table!Report
<1> HIDE DEF offer
<1>6. \A e \in listed' :
         e = fresh \/ (e \in listed /\ e.name # r.name /\ clock - e.at <= SILENCE)
  <2>1. CASE Table!IsListed(r.name) \/ room > 0
    BY <1>4, <2>1
  <2>2. CASE ~(Table!IsListed(r.name) \/ room > 0)
    BY <1>4, <2>2 DEF Table!IsListed
  <2> QED
    BY <2>1, <2>2
<1>7. \A e \in listed :
         clock - e.at <= SILENCE \/ e.name = r.name => \E f \in listed' : f.name = e.name
  <2>1. CASE Table!IsListed(r.name) \/ room > 0
    <3>1. fresh.name = r.name /\ clock - fresh.at <= SILENCE
      BY <1>1, Constants
    <3>2. fresh \in listed'
      BY <1>4, <2>1, <3>1
    <3>3. \A e \in listed : e.name # r.name /\ clock - e.at <= SILENCE => e \in listed'
      BY <1>4, <2>1
    <3> HIDE DEF fresh
    <3> QED
      BY <3>1, <3>2, <3>3
  <2>2. CASE ~(Table!IsListed(r.name) \/ room > 0)
    BY <1>4, <2>2 DEF Table!IsListed
  <2> QED
    BY <2>1, <2>2
<1>8. best' = [best EXCEPT ![r.name] = <<r.no, r.level>>]
  <2>1. best' = [best EXCEPT ![r.name] =
                   IF r.no > best[r.name][1] THEN <<r.no, r.level>> ELSE best[r.name]]
    BY DEF HandleReport
  <2>2. best[r.name] \in Nat \X Nat
    BY <1>1 DEF LeafTypes
  <2>3. best[r.name][1] <= r.no /\ (r.no = best[r.name][1] => r.level = best[r.name][2])
    BY HandledReport
  <2>4. ~(r.no > best[r.name][1]) => best[r.name] = <<r.no, r.level>>
    BY <1>1, <2>2, <2>3
  <2> QED
    BY <2>1, <2>4
<1> QED
  BY <1>5, <1>6, <1>7, <1>8

LEMMA HandleKeeps == LeafInv /\ HandleReport => LeafInv'
<1> SUFFICES ASSUME LeafInv, HandleReport PROVE LeafInv'
  OBVIOUS
<1>0. PICK r : r = Handled
  OBVIOUS
<1> DEFINE fresh == [name |-> r.name, level |-> r.level, at |-> clock]
<1>1. /\ UNCHANGED <<clock, late, nodeLevel, sending, timerAt, reports, stopped>>
      /\ best' = [best EXCEPT ![r.name] = <<r.no, r.level>>]
      /\ \A e \in listed' :
            e = fresh \/ (e \in listed /\ e.name # r.name /\ clock - e.at <= SILENCE)
  BY <1>0, HandleEffect
<1>2. LeafTypes /\ clock \in Nat \ {0}
  BY DEF LeafInv, LeafTypes
<1>3. /\ r.name \in Member /\ r.no \in Nat /\ r.no <= reports[r.name]
      /\ r.level \in LeafLevel \cup {1} /\ r.level \in Nat
      /\ reports[r.name] \in Nat
  <2>1. /\ r.name \in Member /\ r.no \in Nat /\ r.no <= reports[r.name]
        /\ r.level \in LeafLevel \cup {1}
    BY <1>0, HandledReport
  <2>2. \A l \in LeafLevel \cup {1} : l \in Nat
    BY LeafAssumption
  <2> QED
    BY <1>2, <2>1, <2>2 DEF LeafTypes
<1>4. /\ best'[r.name] = <<r.no, r.level>>
      /\ \A n \in Member : n # r.name => best'[n] = best[n]
      /\ best' \in [Member -> Nat \X Nat]
  BY <1>1, <1>2, <1>3 DEF LeafTypes
<1>5. /\ fresh \in ListEntry /\ fresh.name = r.name /\ fresh.level = r.level
      /\ fresh.at = clock
  BY <1>2, <1>3 DEF ListEntry
<1> HIDE DEF fresh
<1>6. listed' \subseteq ListEntry
  BY <1>1, <1>2, <1>5 DEF LeafTypes
<1>7. LeafTypes'
  <2>1. atRoot' \in Seq(NodeReport)
    BY HandledReport
  <2> QED
    BY <1>1, <1>2, <1>4, <1>6, <2>1 DEF LeafTypes
<1>8. Timers' /\ Copies'
  BY <1>1 DEF LeafInv, Timers, Copies
<1>9. AtHand'
  <2>1. \A i \in DOMAIN atRoot' :
           i + 1 \in DOMAIN atRoot /\ i \in Nat /\ atRoot'[i] = atRoot[i + 1]
    BY HandledReport
  <2>2. ASSUME NEW i \in DOMAIN atRoot'
        PROVE  /\ best'[atRoot'[i].name][1] <= atRoot'[i].no
               /\ atRoot'[i].no <= reports[atRoot'[i].name]
               /\ atRoot'[i].no = best'[atRoot'[i].name][1] =>
                     atRoot'[i].level = best'[atRoot'[i].name][2]
    <3>1. atRoot'[i].name \in Member /\ atRoot'[i].no <= reports[atRoot'[i].name]
      BY <2>1, BufferType DEF LeafInv, AtHand
    <3>2. CASE atRoot'[i].name = r.name
      BY <1>0, <1>4, <3>1, <3>2, HandledReport
    <3>3. CASE atRoot'[i].name # r.name
      BY <1>4, <2>1, <3>1, <3>3 DEF LeafInv, AtHand
    <3> QED
      BY <3>2, <3>3
  <2>3. ASSUME NEW i \in DOMAIN atRoot', NEW k \in DOMAIN atRoot', i < k,
               atRoot'[i].name = atRoot'[k].name
        PROVE  /\ atRoot'[i].no <= atRoot'[k].no
               /\ atRoot'[i].no = atRoot'[k].no => atRoot'[i].level = atRoot'[k].level
    <3>1. i + 1 < k + 1
      BY <2>1, <2>3
    <3> QED
      BY <2>1, <2>3, <3>1 DEF LeafInv, AtHand
  <2>4. ASSUME NEW i \in DOMAIN atRoot', NEW j \in sending,
               atRoot'[i].name = j.report.name, atRoot'[i].no = j.report.no
        PROVE  atRoot'[i].level = j.report.level
    BY <2>1, <2>4 DEF LeafInv, AtHand
  <2> QED
    BY <1>1, <2>2, <2>3, <2>4 DEF AtHand
<1>10. Newest'
  <2> SUFFICES ASSUME NEW n \in Member
               PROVE /\ best'[n][1] <= reports[n]
                     /\ best'[n][1] = reports[n] =>
                          \A j \in sending : j.report.name = n =>
                              j.report.level = best'[n][2]
    BY <1>1 DEF Newest
  <2>1. CASE n = r.name
    <3>1. ASSUME NEW j \in sending, j.report.name = n, r.no = reports[n]
          PROVE  j.report.level = r.level
      <4>1. 1 \in DOMAIN atRoot /\ atRoot[1] = r
        BY <1>0 DEF HandleReport, Handled, LeafInv, LeafTypes
      <4>2. j.report.no = r.no /\ j.report.name = r.name
        BY <2>1, <3>1 DEF LeafInv, Copies
      <4> QED
        BY <4>1, <4>2 DEF LeafInv, AtHand
    <3> QED
      BY <1>3, <1>4, <2>1, <3>1
  <2>2. CASE n # r.name
    BY <1>4, <2>2 DEF LeafInv, Newest
  <2> QED
    BY <2>1, <2>2
<1>11. Levels'
  <2> SUFFICES ASSUME NEW e \in listed' PROVE e.level = best'[e.name][2]
    BY DEF Levels
  <2>1. CASE e = fresh
    BY <1>4, <1>5, <2>1
  <2>2. CASE e \in listed /\ e.name # r.name
    <3>1. e.name \in Member
      BY <1>2, <2>2 DEF LeafTypes, ListEntry
    <3> QED
      BY <1>4, <2>2, <3>1 DEF LeafInv, Levels
  <2> QED
    BY <1>1, <2>1, <2>2
<1>12. Swept'
  <2> SUFFICES ASSUME timerAt[Station] # 0, NEW e \in listed'
               PROVE  timerAt[Station] <= e.at + SILENCE + REPORT_PERIOD
    BY <1>1 DEF Swept
  <2>1. timerAt[Station] \in Nat /\ timerAt[Station] <= clock + REPORT_PERIOD
    BY <1>2, Constants DEF LeafInv, LeafTypes, Timers
  <2>2. e.at \in Nat
    BY <1>6 DEF ListEntry
  <2>3. clock <= e.at + SILENCE
    BY <1>1, <1>2, <1>5, <2>2, Constants
  <2> QED
    BY <1>2, <2>1, <2>2, <2>3, Constants
<1>13. Running'
  <2> SUFFICES ASSUME NEW e \in listed', e.name \in Leaf, ~StoppedSince(e.name)'
               PROVE  timerAt[e.name] <=
                        e.at + (reports[e.name] - best'[e.name][1] + 1) * REPORT_PERIOD
    BY <1>1 DEF Running
  <2>1. CASE e = fresh
    <3> DEFINE x == reports[e.name] - best'[e.name][1] + 1
    <3>1. x \in Nat \ {0} /\ e.at = clock
      BY <1>3, <1>4, <1>5, <2>1
    <3>2. timerAt[e.name] <= clock + REPORT_PERIOD
      <4>1. timerAt[e.name] # 0 => timerAt[e.name] <= clock + REPORT_PERIOD
        BY Constants DEF LeafInv, Timers
      <4>2. timerAt[e.name] \in Nat
        BY <1>2, Constants DEF LeafTypes
      <4> QED
        BY <1>2, <4>1, <4>2, Constants
    <3> HIDE DEF x
    <3>3. REPORT_PERIOD <= x * REPORT_PERIOD /\ x * REPORT_PERIOD \in Int
      <4>1. PICK y \in Nat : x = y + 1
        BY <3>1
      <4>2. REPORT_PERIOD \in Nat
        BY Constants
      <4>3. (y + 1) * REPORT_PERIOD = y * REPORT_PERIOD + REPORT_PERIOD
            /\ y * REPORT_PERIOD \in Int
        BY <4>1, <4>2, OneMore
      <4>4. y * REPORT_PERIOD >= 0
        BY <4>1, <4>2, NoLess
      <4> QED
        BY <4>1, <4>2, <4>3, <4>4
    <3>4. timerAt[e.name] \in Nat
      BY <1>2, Constants DEF LeafTypes
    <3>5. timerAt[e.name] <= e.at + x * REPORT_PERIOD
      BY <1>2, <3>1, <3>2, <3>3, <3>4, Constants
    <3> QED
      BY <3>5 DEF x
  <2>2. CASE e \in listed /\ e.name # r.name
    <3>1. best'[e.name] = best[e.name]
      BY <1>4, <2>2, Constants
    <3>2. ~StoppedSince(e.name)
      BY <1>1, <3>1 DEF StoppedSince
    <3> QED
      BY <2>2, <3>1, <3>2 DEF LeafInv, Running
  <2> QED
    BY <1>1, <2>1, <2>2
<1> QED
  BY <1>7, <1>8, <1>9, <1>10, <1>11, <1>12, <1>13 DEF LeafInv

\* What the task of the table does when it handles no report.
LEMMA TaskKeeps == LeafInv /\ (TreeSent \/ TooLong) => LeafInv'
<1> SUFFICES ASSUME LeafInv, TreeSent \/ TooLong PROVE LeafInv'
  OBVIOUS
<1>1. UNCHANGED <<clock, listed, atRoot, late, nodeLevel, sending, timerAt, reports,
                  best, stopped>>
  BY DEF TreeSent, TooLong, tableVars
<1>2. LeafTypes'
  BY <1>1 DEF LeafInv, LeafTypes
<1>3. Timers' /\ Copies' /\ Swept'
  BY <1>1 DEF LeafInv, Timers, Copies, Swept
<1>4. AtHand' /\ Newest' /\ Levels' /\ Running'
  BY <1>1 DEF LeafInv, AtHand, Newest, Levels, Running, StoppedSince
<1> QED
  BY <1>2, <1>3, <1>4 DEF LeafInv

LEMMA LeafStep == LeafInv /\ [LeafNext]_leafVars => LeafInv'
<1> SUFFICES ASSUME LeafInv, [LeafNext]_leafVars PROVE LeafInv'
  OBVIOUS
<1>1. CASE Pass
  BY <1>1, PassKeeps
<1>2. ASSUME NEW n \in Leaf, LeafTimer(n) \/ StopLeaf(n) \/ StartLeaf(n) PROVE LeafInv'
  BY <1>2, LeafTimerKeeps, StopKeeps, StartKeeps
<1>3. ASSUME NEW n \in Leaf, NEW l \in LeafLevel, MoveLeaf(n, l) PROVE LeafInv'
  BY <1>3, MoveKeeps
<1>4. CASE StationTimer
  BY <1>4, StationKeeps
<1>5. ASSUME NEW j \in sending, LoseReport(j) \/ DeliverReport(j) PROVE LeafInv'
  BY <1>5, LoseKeeps, DeliverKeeps
<1>6. CASE HandleReport \/ TreeSent \/ TooLong
  BY <1>6, HandleKeeps, TaskKeeps
<1>7. CASE UNCHANGED leafVars
  BY <1>7 DEF leafVars, rootVars, tableVars, LeafInv, LeafTypes, Timers, Copies, AtHand,
              Newest, Levels, Swept, Running, StoppedSince
<1> QED
  BY <1>1, <1>2, <1>3, <1>4, <1>5, <1>6, <1>7 DEF LeafNext

LEMMA ShownIsCurrent == LeafInv => TableCurrent
<1> SUFFICES ASSUME LeafInv, NEW e \in listed
             PROVE  /\ e.level = best[e.name][2]
                    /\ timerAt[Station] # 0 =>
                          \/ clock - e.at <= SILENCE + REPORT_PERIOD
                          \/ clock - late <= REPORT_PERIOD
  BY DEF TableCurrent
<1>1. e.level = best[e.name][2]
  BY DEF LeafInv, Levels
<1>2. clock \in Nat /\ e.at \in Nat /\ late \in Nat /\ timerAt[Station] \in Nat
  BY Constants DEF LeafInv, LeafTypes, ListEntry
<1>3. ASSUME timerAt[Station] # 0
      PROVE  clock - e.at <= SILENCE + REPORT_PERIOD \/ clock - late <= REPORT_PERIOD
  <2>1. clock <= timerAt[Station]
    BY <1>3, Constants DEF LeafInv, Timers
  <2>2. \/ timerAt[Station] <= e.at + SILENCE + REPORT_PERIOD
        \/ timerAt[Station] <= late + REPORT_PERIOD
        \/ clock <= e.at + SILENCE + REPORT_PERIOD
        \/ clock <= late + REPORT_PERIOD
    BY <1>3 DEF LeafInv, Swept
  <2> QED
    BY <1>2, <2>1, <2>2, Constants
<1> QED
  BY <1>1, <1>3

(* The root shows the newest report that it handled of every node it lists, and, as
   long as its own timer runs, none of a node that was silent for more than SILENCE
   and one REPORT_PERIOD unless the task of the table was late within the last
   period: for any number of leaves and of copies of a report, whichever copies are
   lost, wherever the timers of the nodes stand, and whether the task is prompt,
   waits for json_server, falls behind or ends (json_to_root_handler, http_server
   and node_manager). *)
THEOREM TableCorrect == LeafSpec => []TableCurrent
<1>1. LeafInit => LeafInv
  BY LeafStarts
<1>2. LeafInv /\ [LeafNext]_leafVars => LeafInv'
  BY LeafStep
<1>3. LeafInv => TableCurrent
  BY ShownIsCurrent
<1> QED
  BY <1>1, <1>2, <1>3, PTL DEF LeafSpec

\* Only a report can drop a node, and only one whose entry is too old.
LEMMA DroppedIsSilent ==
    ASSUME LeafInv, [LeafNext]_leafVars, NEW n \in Leaf,
           Table!IsListed(n), ~Table!IsListed(n)'
    PROVE  StoppedSince(n) \/ EnoughLost(n)
<1>1. PICK e \in listed : e.name = n
  BY DEF Table!IsListed
<1>2. \A f \in listed' : f.name # n
  BY DEF Table!IsListed
<1>3. listed' # listed
  BY <1>1, <1>2
<1>4. HandleReport
  BY <1>3 DEF LeafNext, Pass, Table!Elapse, LeafTimer, StopLeaf, StartLeaf, MoveLeaf,
              StationTimer, LoseReport, DeliverReport, TreeSent, TooLong, rootVars,
              tableVars, leafVars
<1>5. ~(clock - e.at <= SILENCE)
  <2>1. PICK r : r = Handled
    OBVIOUS
  <2> QED
    BY <1>1, <1>2, <1>4, <2>1, HandleEffect
<1>6. SUFFICES ASSUME ~StoppedSince(n) PROVE EnoughLost(n)
  OBVIOUS
<1> DEFINE lost == (reports[n] - best[n][1] + 1) * REPORT_PERIOD
<1>7. timerAt[n] <= e.at + lost
  BY <1>1, <1>6 DEF LeafInv, Running
<1>8. timerAt[n] # 0
  BY <1>6, Constants DEF LeafInv, Timers, Newest, StoppedSince
<1>9. clock <= timerAt[n]
  BY <1>8, Constants DEF LeafInv, Timers
<1>10. /\ clock \in Nat /\ e.at \in Nat /\ timerAt[n] \in Nat
       /\ reports[n] \in Nat /\ best[n][1] \in Nat
  BY Constants DEF LeafInv, LeafTypes, ListEntry
<1>11. lost \in Int
  <2>1. reports[n] - best[n][1] + 1 \in Int
    BY <1>10
  <2> QED
    BY <2>1, OneMore, Constants
<1> HIDE DEF lost
<1>12. lost > SILENCE
  BY <1>5, <1>7, <1>9, <1>10, <1>11, Constants
<1> QED
  BY <1>12 DEF EnoughLost, lost

(* A leaf that runs is dropped only after so many of its reports in a row came to
   nothing that they fill SILENCE: the sweep of http_server and node_manager never
   takes a node for gone because of where its period lies against the root's. *)
THEOREM KeptCorrect == LeafSpec => KeptWhileHeard
<1>1. LeafInit => LeafInv
  BY LeafStarts
<1>2. LeafInv /\ [LeafNext]_leafVars => LeafInv'
  BY LeafStep
<1>3. LeafInv /\ [LeafNext]_leafVars =>
        [\A n \in Leaf : Table!IsListed(n) /\ ~Table!IsListed(n)'
            => StoppedSince(n) \/ EnoughLost(n)]_leafVars
  BY DroppedIsSilent
<1> QED
  BY <1>1, <1>2, <1>3, PTL DEF LeafSpec, KeptWhileHeard

\* room counts the places that the entries leave.
Places ==
    /\ IsFiniteSet(listed)
    /\ room = TABLE_SIZE - Cardinality(listed) /\ room \in 0 .. TABLE_SIZE

\* No message is written to a full buffer.
Fits ==
    /\ Len(atRoot) <= ROOM
    /\ tableTask \in {"receive", "send", "ended"}

LEMMA StepFits ==
    ASSUME LeafInv, Fits, [LeafNext]_leafVars
    PROVE  Fits'
<1>1. atRoot \in Seq(NodeReport) /\ ROOM \in Nat
  BY Constants DEF LeafInv, LeafTypes
<1>2. \A r : r \in NodeReport /\ Len(atRoot) < ROOM => Len(Append(atRoot, r)) <= ROOM
  BY <1>1
<1>3. CASE UNCHANGED <<atRoot, tableTask>>
  BY <1>3 DEF Fits
<1>4. CASE StationTimer
  <2>1. NewReport(Station) \in NodeReport
    BY Constants DEF NewReport, NodeReport, LeafInv, LeafTypes, Member
  <2> QED
    BY <1>2, <1>4, <2>1 DEF StationTimer, Fits
<1>5. CASE \E j \in sending : DeliverReport(j)
  <2>1. PICK j \in sending : DeliverReport(j)
    BY <1>5
  <2>2. j.report \in NodeReport
    BY DEF LeafInv, LeafTypes, Sending
  <2> QED
    BY <1>2, <2>1, <2>2 DEF DeliverReport, Fits
<1>6. CASE HandleReport
  <2>1. Len(atRoot') <= Len(atRoot) /\ Len(atRoot') \in Nat
    BY <1>1, <1>6 DEF HandleReport
  <2> QED
    BY <1>1, <1>6, <2>1 DEF HandleReport, Fits
<1>7. CASE TreeSent
  BY <1>7 DEF TreeSent, Fits
<1>8. CASE TooLong
  BY <1>8 DEF TooLong, Fits
<1> QED
  BY <1>3, <1>4, <1>5, <1>6, <1>7, <1>8
     DEF LeafNext, Pass, LeafTimer, StopLeaf, StartLeaf, MoveLeaf, LoseReport,
         rootVars, leafVars

LEMMA ReportKeepsPlaces ==
    ASSUME Places, NEW n \in Member, Table!Report(n)
    PROVE  Places'
<1> DEFINE offer == [m \in Member |->
              IF atRoot # <<>> /\ Head(atRoot).name = m THEN Head(atRoot).level ELSE 0]
           fresh == [name |-> n, level |-> offer[n], at |-> clock]
           others == {e \in listed : e.name # n}
           Young(S) == {e \in S : clock - e.at <= SILENCE}
<1>1. /\ listed' = IF Table!IsListed(n) \/ room > 0
                   THEN Young(others \cup {fresh}) ELSE Young(listed)
      /\ room' = TABLE_SIZE - Cardinality(listed')
  <2>1. room' = TABLE_SIZE - Cardinality(listed')
    <3>1. room' = TABLE_SIZE - Table!Cardinality(listed')
      BY DEF Table!Report
    <3>2. Table!Cardinality(listed') = Cardinality(listed')
      BY DEF Table!Cardinality, Cardinality
    <3> QED
      BY <3>1, <3>2
  <2>2. listed' = IF Table!IsListed(n) \/ room > 0
                  THEN Young(others \cup {[name |-> n, level |-> offer[n], at |-> clock]})
                  ELSE Young(listed)
    BY DEF Table!Report, Table!Kept
  <2> QED
    BY <2>1, <2>2
<1> HIDE DEF fresh, offer
<1>2. IsFiniteSet(listed) /\ Cardinality(listed) \in Nat /\ Cardinality(listed) <= TABLE_SIZE
  BY FS_CardinalityType, Constants DEF Places
<1>3. SUFFICES IsFiniteSet(listed') /\ Cardinality(listed') <= TABLE_SIZE
  <2>1. IsFiniteSet(listed') => Cardinality(listed') \in Nat
    BY FS_CardinalityType
  <2> QED
    BY <1>1, <2>1, Constants DEF Places
<1>4. others \in SUBSET listed /\ IsFiniteSet(others) /\ Cardinality(others) \in Nat
      /\ Cardinality(others) <= Cardinality(listed)
      /\ (Cardinality(others) = Cardinality(listed) => others = listed)
  <2>1. others \in SUBSET listed
    OBVIOUS
  <2>2. /\ IsFiniteSet(others) /\ Cardinality(others) <= Cardinality(listed)
        /\ (Cardinality(listed) = Cardinality(others) => listed = others)
    BY <1>2, <2>1, FS_Subset
  <2> QED
    BY <2>1, <2>2, FS_CardinalityType
<1>5. CASE Table!IsListed(n) \/ room > 0
  <2>1. Cardinality(others) + 1 <= TABLE_SIZE
    <3>1. CASE Table!IsListed(n)
      <4>1. others # listed
        BY <3>1 DEF Table!IsListed
      <4> HIDE DEF others
      <4> QED
        BY <1>2, <1>4, <4>1, Constants
    <3>2. CASE room > 0
      <4> HIDE DEF others
      <4> QED
        BY <1>2, <1>4, <3>2, Constants DEF Places
    <3> QED
      BY <1>5, <3>1, <3>2
  <2> DEFINE all == others \cup {fresh}
  <2>2. IsFiniteSet(all) /\ Cardinality(all) <= TABLE_SIZE
    <3> HIDE DEF others
    <3>1. /\ IsFiniteSet(all)
          /\ Cardinality(all) = IF fresh \in others THEN Cardinality(others)
                                                   ELSE Cardinality(others) + 1
      BY <1>4, FS_AddElement, Zenon
    <3> HIDE DEF all
    <3> QED
      BY <1>4, <2>1, <3>1, Constants
  <2>3. listed' \in SUBSET all
    BY <1>1, <1>5
  <2> HIDE DEF all
  <2>4. IsFiniteSet(listed') /\ Cardinality(listed') <= Cardinality(all)
    BY <2>2, <2>3, FS_Subset
  <2>5. Cardinality(listed') \in Nat /\ Cardinality(all) \in Nat
    BY <2>2, <2>4, FS_CardinalityType
  <2> QED
    BY <2>2, <2>4, <2>5, Constants
<1>6. CASE ~(Table!IsListed(n) \/ room > 0)
  <2>1. listed' \in SUBSET listed
    BY <1>1, <1>6
  <2>2. IsFiniteSet(listed') /\ Cardinality(listed') <= Cardinality(listed)
    BY <1>2, <2>1, FS_Subset
  <2>3. Cardinality(listed') \in Nat
    BY <2>2, FS_CardinalityType
  <2> QED
    BY <1>2, <2>2, <2>3, Constants
<1> QED
  BY <1>5, <1>6

LEMMA WellTyped == LeafInv /\ Places /\ Fits => LeafTypeOK
<1> SUFFICES ASSUME LeafInv, Places, Fits PROVE LeafTypeOK
  OBVIOUS
<1>1. LeafTypes
  BY DEF LeafInv
<1> DEFINE offer == [n \in Member |->
              IF atRoot # <<>> /\ Head(atRoot).name = n THEN Head(atRoot).level ELSE 0]
<1>2. offer \in [Member -> (LeafLevel \cup {1}) \cup {0}]
  <2>1. atRoot # <<>> => Head(atRoot) \in NodeReport
    BY <1>1 DEF LeafTypes
  <2> QED
    BY <2>1 DEF NodeReport
<1>3. Table!TypeOK
  <2> HIDE DEF offer
  <2>1. clock \in Nat /\ listed \subseteq Table!Entry /\ room \in 0 .. TABLE_SIZE
    BY <1>1 DEF LeafTypes, ListEntry, Table!Entry, Places
  <2> QED
    BY <1>2, <2>1 DEF Table!TypeOK, offer
<1>4. late \in 0 .. clock
  BY <1>1 DEF LeafTypes
<1> QED
  BY <1>1, <1>3, <1>4 DEF LeafTypeOK, LeafTypes, Sending, Fits

(* Everything stays of its type; above all, the root never has more entries than
   NODE_SIZE, though a report is entered before the silent nodes are dropped, and
   the message buffer never more reports than fit. *)
THEOREM TableTypeCorrect == LeafSpec => []LeafTypeOK
<1>1. LeafInit => LeafInv /\ Places /\ Fits
  <2>1. LeafInit => Places
    BY FS_EmptySet, Constants DEF LeafInit, Table!Init, Places
  <2>2. LeafInit => Fits
    BY Constants DEF LeafInit, Fits
  <2> QED
    BY <2>1, <2>2, LeafStarts
<1>2. LeafInv /\ Places /\ Fits /\ [LeafNext]_leafVars => LeafInv' /\ Places' /\ Fits'
  <2> SUFFICES ASSUME LeafInv, Places, Fits, [LeafNext]_leafVars PROVE Places'
    BY LeafStep, StepFits
  <2>1. CASE UNCHANGED <<listed, room>>
    BY <2>1 DEF Places
  <2>2. CASE ~UNCHANGED <<listed, room>>
    <3>1. HandleReport
      BY <2>2 DEF LeafNext, Pass, Table!Elapse, LeafTimer, StopLeaf, StartLeaf, MoveLeaf,
                  StationTimer, LoseReport, DeliverReport, TreeSent, TooLong, rootVars,
                  tableVars, leafVars
    <3>2. PICK n : n = Handled.name
      OBVIOUS
    <3>3. n \in Member /\ Table!Report(n)
      BY <3>1, <3>2, HandledReport DEF HandleReport
    <3> QED
      BY <3>3, ReportKeepsPlaces
  <2> QED
    BY <2>1, <2>2
<1>3. LeafInv /\ Places /\ Fits => LeafTypeOK
  BY WellTyped
<1> QED
  BY <1>1, <1>2, <1>3, PTL DEF LeafSpec
=============================================================================
