------------------------- MODULE WsPipeline_proofs -------------------------
(***************************************************************************)
(* Proofs about WsPipeline, for every set of browsers and every size of    *)
(* the two message buffers.                                                *)
(***************************************************************************)
EXTENDS WsPipeline, TLAPS

ServerMessage == {Load} \cup {Save(t) : t \in Trees}
ClientMessage == {InitRequest, TimerRequest} \cup {JsonRequest(t) : t \in Trees}

\* The message at the end of a buffer, and those in front of it.
LEMMA QueuedFacts ==
    ASSUME NEW M, NEW buf \in Seq(M), NEW msg \in M
    PROVE  /\ Queued(buf, msg) \in Seq(M)
           /\ Len(buf) \in Nat
           /\ Len(Queued(buf, msg)) = Len(buf) + 1
           /\ \A i \in 1 .. Len(buf) : Queued(buf, msg)[i] = buf[i]
           /\ Queued(buf, msg)[Len(buf) + 1] = msg
BY DEF Queued

\* What is left when the first message is taken.
LEMMA TailFacts ==
    ASSUME NEW M, NEW buf \in Seq(M), buf # <<>>
    PROVE  /\ Len(buf) \in Nat \ {0}
           /\ Head(buf) = buf[1] /\ Head(buf) \in M
           /\ Tail(buf) \in Seq(M)
           /\ Len(Tail(buf)) = Len(buf) - 1
           /\ \A i \in 1 .. Len(Tail(buf)) : Tail(buf)[i] = buf[i + 1]
OBVIOUS

\* The kinds of messages.
LEMMA ServerMessageKinds ==
    ASSUME NEW msg \in ServerMessage
    PROVE  \/ msg = Load /\ msg.id = "load" /\ msg.tree = 0
           \/ /\ msg = Save(msg.tree) /\ msg.id = "save"
              /\ msg.tree \in Trees /\ msg.tree # 0
BY WsPipelineAssumption DEF ServerMessage, Load, Save, Trees

LEMMA ClientMessageKinds ==
    ASSUME NEW msg \in ClientMessage
    PROVE  \/ msg = InitRequest /\ msg.id = "init" /\ msg.tree = 0
           \/ msg = TimerRequest /\ msg.id = "timer-request" /\ msg.tree = 0
           \/ /\ msg = JsonRequest(msg.tree) /\ msg.id = "json-request"
              /\ msg.tree \in Trees /\ msg.tree # 0
BY WsPipelineAssumption
DEF ClientMessage, InitRequest, TimerRequest, JsonRequest, Trees

-----------------------------------------------------------------------------
(* What the proofs say of a buffer.                                         *)

Has(buf, msg) == \E i \in 1 .. Len(buf) : buf[i] = msg

\* Its trees do not get older from the front to the end,
Ordered(buf) ==
    \A i, j \in 1 .. Len(buf) :
        i < j /\ HasTree(buf[i]) /\ HasTree(buf[j]) => buf[i].tree <= buf[j].tree

\* are not older than a tree,
NotBefore(buf, tree) ==
    \A i \in 1 .. Len(buf) : HasTree(buf[i]) => tree <= buf[i].tree

\* and not newer than one.
NotAfter(buf, tree) == \A i \in 1 .. Len(buf) : buf[i].tree <= tree

\* A message more at the end.
LEMMA QueuedHas ==
    ASSUME NEW M, NEW buf \in Seq(M), NEW msg \in M, NEW other
    PROVE  Has(Queued(buf, msg), other) <=> Has(buf, other) \/ other = msg
<1>1. /\ Len(buf) \in Nat
      /\ Len(Queued(buf, msg)) = Len(buf) + 1
      /\ \A i \in 1 .. Len(buf) : Queued(buf, msg)[i] = buf[i]
      /\ Queued(buf, msg)[Len(buf) + 1] = msg
  BY QueuedFacts
<1>2. /\ 1 .. Len(buf) + 1 = (1 .. Len(buf)) \cup {Len(buf) + 1}
  BY <1>1
<1> QED
  BY <1>1, <1>2 DEF Has

LEMMA QueuedOrder ==
    ASSUME NEW M, NEW buf \in Seq(M), NEW msg \in M, NEW tree
    PROVE  /\ Ordered(buf) /\ (HasTree(msg) => NotAfter(buf, msg.tree))
                => Ordered(Queued(buf, msg))
           /\ NotBefore(buf, tree) /\ (HasTree(msg) => tree <= msg.tree)
                => NotBefore(Queued(buf, msg), tree)
           /\ NotAfter(buf, tree) /\ msg.tree <= tree
                => NotAfter(Queued(buf, msg), tree)
<1> DEFINE new == Queued(buf, msg)
           n   == Len(buf)
<1>1. /\ n \in Nat /\ Len(new) = n + 1
      /\ \A i \in 1 .. n : new[i] = buf[i]
      /\ new[n + 1] = msg
  BY QueuedFacts
<1> HIDE DEF new, n
<1>2. \A i \in 1 .. Len(new) : i \in 1 .. n \/ i = n + 1
  BY <1>1
<1>3. ASSUME Ordered(buf), HasTree(msg) => NotAfter(buf, msg.tree)
      PROVE  Ordered(new)
  <2> SUFFICES ASSUME NEW i \in 1 .. Len(new), NEW j \in 1 .. Len(new), i < j,
                      HasTree(new[i]), HasTree(new[j])
               PROVE  new[i].tree <= new[j].tree
    BY DEF Ordered
  <2>1. i \in 1 .. n
    BY <1>1, <1>2
  <2>2. CASE j \in 1 .. n
    BY <1>1, <1>3, <2>1, <2>2 DEF Ordered, n
  <2>3. CASE j = n + 1
    BY <1>1, <1>3, <2>1, <2>3 DEF NotAfter, n
  <2> QED
    BY <1>2, <2>2, <2>3
<1>4. ASSUME NotBefore(buf, tree), HasTree(msg) => tree <= msg.tree
      PROVE  NotBefore(new, tree)
  BY <1>1, <1>2, <1>4 DEF NotBefore, n
<1>5. ASSUME NotAfter(buf, tree), msg.tree <= tree
      PROVE  NotAfter(new, tree)
  BY <1>1, <1>2, <1>5 DEF NotAfter, n
<1> QED
  BY <1>3, <1>4, <1>5 DEF new

\* The first message taken.
LEMMA TakenHas ==
    ASSUME NEW M, NEW buf \in Seq(M), buf # <<>>, NEW other
    PROVE  Has(buf, other) <=> other = Head(buf) \/ Has(Tail(buf), other)
<1>1. /\ Len(buf) \in Nat \ {0}
      /\ Head(buf) = buf[1]
      /\ Len(Tail(buf)) = Len(buf) - 1
      /\ \A i \in 1 .. Len(Tail(buf)) : Tail(buf)[i] = buf[i + 1]
  BY TailFacts
<1>2. \A i \in 1 .. Len(buf) : i = 1 \/ (i - 1 \in 1 .. Len(Tail(buf)) /\ (i - 1) + 1 = i)
  BY <1>1
<1>3. Has(buf, other) => other = Head(buf) \/ Has(Tail(buf), other)
  <2> SUFFICES ASSUME NEW i \in 1 .. Len(buf), buf[i] = other, i # 1
               PROVE  Has(Tail(buf), other)
    BY <1>1 DEF Has
  <2>1. i - 1 \in 1 .. Len(Tail(buf)) /\ Tail(buf)[i - 1] = buf[i]
    BY <1>1, <1>2
  <2> QED
    BY <2>1 DEF Has
<1>4. other = Head(buf) => Has(buf, other)
  BY <1>1 DEF Has
<1>5. Has(Tail(buf), other) => Has(buf, other)
  <2> SUFFICES ASSUME NEW i \in 1 .. Len(Tail(buf)), Tail(buf)[i] = other
               PROVE  Has(buf, other)
    BY DEF Has
  <2>1. i + 1 \in 1 .. Len(buf) /\ buf[i + 1] = other
    BY <1>1
  <2> QED
    BY <2>1 DEF Has
<1> QED
  BY <1>3, <1>4, <1>5

LEMMA TakenOrder ==
    ASSUME NEW M, NEW buf \in Seq(M), buf # <<>>, NEW tree
    PROVE  /\ Ordered(buf) => /\ Ordered(Tail(buf))
                              /\ HasTree(Head(buf)) =>
                                    NotBefore(Tail(buf), Head(buf).tree)
           /\ NotBefore(buf, tree) => /\ NotBefore(Tail(buf), tree)
                                      /\ HasTree(Head(buf)) => tree <= Head(buf).tree
           /\ NotAfter(buf, tree) => /\ NotAfter(Tail(buf), tree)
                                     /\ Head(buf).tree <= tree
<1>1. /\ Len(buf) \in Nat \ {0}
      /\ Head(buf) = buf[1]
      /\ Len(Tail(buf)) = Len(buf) - 1
      /\ \A i \in 1 .. Len(Tail(buf)) : Tail(buf)[i] = buf[i + 1]
  BY TailFacts
<1>2. \A i \in 1 .. Len(Tail(buf)) : i + 1 \in 1 .. Len(buf) /\ 1 < i + 1
  BY <1>1
<1>3. 1 \in 1 .. Len(buf)
  BY <1>1
<1>4. ASSUME Ordered(buf) PROVE Ordered(Tail(buf))
  <2> SUFFICES ASSUME NEW i \in 1 .. Len(Tail(buf)), NEW j \in 1 .. Len(Tail(buf)),
                      i < j, HasTree(Tail(buf)[i]), HasTree(Tail(buf)[j])
               PROVE  Tail(buf)[i].tree <= Tail(buf)[j].tree
    BY DEF Ordered
  <2>1. /\ i + 1 \in 1 .. Len(buf) /\ j + 1 \in 1 .. Len(buf) /\ i + 1 < j + 1
        /\ Tail(buf)[i] = buf[i + 1] /\ Tail(buf)[j] = buf[j + 1]
    BY <1>1, <1>2
  <2> QED
    BY <1>4, <2>1 DEF Ordered
<1>5. ASSUME Ordered(buf), HasTree(Head(buf))
      PROVE  NotBefore(Tail(buf), Head(buf).tree)
  BY <1>1, <1>2, <1>3, <1>5 DEF Ordered, NotBefore
<1>6. NotBefore(buf, tree) => /\ NotBefore(Tail(buf), tree)
                              /\ HasTree(Head(buf)) => tree <= Head(buf).tree
  BY <1>1, <1>2, <1>3 DEF NotBefore
<1>7. NotAfter(buf, tree) => /\ NotAfter(Tail(buf), tree)
                             /\ Head(buf).tree <= tree
  BY <1>1, <1>2, <1>3 DEF NotAfter
<1> QED
  BY <1>4, <1>5, <1>6, <1>7

-----------------------------------------------------------------------------
(* The types, without the bounds of the buffers.                            *)

Types ==
    /\ latest \in 0 .. MaxTrees
    /\ publishing \in BOOLEAN
    /\ saves \in Seq(ServerMessage)
    /\ stored \in 0 .. latest
    /\ active \in BOOLEAN
    /\ posting \in BOOLEAN
    /\ requests \in Seq(ClientMessage)
    /\ client \in [do : {"receive", "load", "tree", "elapsed"}, tree : 0 .. latest]
    /\ page \in [Browser -> {"closed", "connected", "inited", "unheard"}]
    /\ shown \in [Browser -> 0 .. latest]
    /\ NotAfter(saves, latest)
    /\ NotAfter(requests, latest)
    /\ publishing => latest # 0
    /\ posting => stored # 0
    /\ client.do = "tree" => client.tree # 0
    /\ \A b \in Browser : page[b] = "closed" => shown[b] = 0

\* The messages that are sent are messages.
LEMMA Messages ==
    /\ Load \in ServerMessage
    /\ InitRequest \in ClientMessage /\ TimerRequest \in ClientMessage
    /\ \A t \in Trees : /\ Save(t) \in ServerMessage /\ JsonRequest(t) \in ClientMessage
                       /\ Save(t).tree = t /\ JsonRequest(t).tree = t
                       /\ HasTree(Save(t)) /\ HasTree(JsonRequest(t))
    /\ Load.tree = 0 /\ InitRequest.tree = 0 /\ TimerRequest.tree = 0
    /\ ~HasTree(Load) /\ ~HasTree(InitRequest) /\ ~HasTree(TimerRequest)
<1>1. /\ Load \in ServerMessage
      /\ InitRequest \in ClientMessage /\ TimerRequest \in ClientMessage
  BY DEF ServerMessage, ClientMessage
<1>2. \A t \in Trees : Save(t) \in ServerMessage /\ JsonRequest(t) \in ClientMessage
  BY DEF ServerMessage, ClientMessage
<1>3. ASSUME NEW t \in Trees
      PROVE  /\ Save(t).tree = t /\ JsonRequest(t).tree = t
             /\ HasTree(Save(t)) /\ HasTree(JsonRequest(t))
  <2>1. t # 0
    BY WsPipelineAssumption DEF Trees
  <2> QED
    BY <2>1 DEF Save, JsonRequest, HasTree
<1>4. /\ Load.tree = 0 /\ InitRequest.tree = 0 /\ TimerRequest.tree = 0
      /\ ~HasTree(Load) /\ ~HasTree(InitRequest) /\ ~HasTree(TimerRequest)
  BY DEF Load, InitRequest, TimerRequest, HasTree
<1> QED
  BY <1>1, <1>2, <1>3, <1>4

\* A newer bound.
LEMMA NotAfterLater ==
    ASSUME NEW M, NEW buf \in Seq(M), \A m \in M : m.tree \in Nat,
           NEW t \in Nat, NEW u \in Nat, t <= u, NotAfter(buf, t)
    PROVE  NotAfter(buf, u)
<1> SUFFICES ASSUME NEW i \in 1 .. Len(buf) PROVE buf[i].tree <= u
  BY DEF NotAfter
<1>1. buf[i].tree \in Nat /\ buf[i].tree <= t
  BY DEF NotAfter
<1> QED
  BY <1>1

LEMMA TreeNumbers ==
    /\ \A m \in ServerMessage : m.tree \in Nat
    /\ \A m \in ClientMessage : m.tree \in Nat
BY ServerMessageKinds, ClientMessageKinds DEF Trees

\* The state after the boot, and after the one that a failed assertion causes.
Booted ==
    /\ latest = 0 /\ publishing = FALSE /\ saves = <<>> /\ stored = 0
    /\ active = FALSE /\ posting = FALSE /\ requests = <<>> /\ client = Receiving
    /\ page = [b \in Browser |-> "closed"]
    /\ shown = [b \in Browser |-> 0]

LEMMA Boots ==
    /\ Init => Booted
    /\ \A task, msg : AssertFails(task, msg) => Booted'
BY DEF Init, AssertFails, Booted

LEMMA BootedTypes == Booted => Types
<1> SUFFICES ASSUME Booted PROVE Types
  OBVIOUS
<1>1. 0 \in 0 .. MaxTrees /\ 0 \in 0 .. 0
  BY WsPipelineAssumption
<1>2. <<>> \in Seq(ServerMessage) /\ <<>> \in Seq(ClientMessage)
  OBVIOUS
<1>3. NotAfter(<<>>, 0)
  BY DEF NotAfter
<1> QED
  BY <1>1, <1>2, <1>3 DEF Booted, Types, Receiving

\* Every action keeps the types.
LEMMA StepTypes == Types /\ [Next]_vars => Types'
<1> SUFFICES ASSUME Types, [Next]_vars PROVE Types'
  OBVIOUS
<1> USE DEF Types
<1>1. CASE Build
  <2>1. /\ latest + 1 \in 0 .. MaxTrees /\ latest + 1 # 0 /\ latest <= latest + 1
        /\ latest \in Nat /\ latest + 1 \in Nat
        /\ 0 .. latest \subseteq 0 .. latest + 1
    BY <1>1, WsPipelineAssumption DEF Build
  <2>2. NotAfter(saves, latest + 1) /\ NotAfter(requests, latest + 1)
    BY <2>1, NotAfterLater, TreeNumbers
  <2>3. client \in [do : {"receive", "load", "tree", "elapsed"}, tree : 0 .. latest + 1]
    BY <2>1
  <2> QED
    BY <1>1, <2>1, <2>2, <2>3 DEF Build, serverVars, browserVars
<1>2. CASE Publish
  <2>1. latest \in Trees /\ latest <= latest
    BY <1>2 DEF Publish, Trees
  <2>2. saves' = Queued(saves, Save(latest))
    BY <1>2 DEF Publish, SendToServer
  <2>3. saves' \in Seq(ServerMessage)
    BY <2>1, <2>2, QueuedFacts, Messages
  <2>4. NotAfter(saves', latest)
    BY <2>1, <2>2, QueuedOrder, Messages, SMTT(30)
  <2> QED
    BY <1>2, <2>3, <2>4 DEF Publish, serverVars, browserVars
<1>3. CASE ReceiveJson
  <2>1. /\ saves' = Tail(saves) /\ saves # <<>>
        /\ UNCHANGED <<latest, publishing, requests, client, page, shown>>
    BY <1>3 DEF ReceiveJson, managerVars, browserVars
  <2>2. saves' \in Seq(ServerMessage) /\ Head(saves) \in ServerMessage
    BY <2>1, TailFacts
  <2>3. NotAfter(saves', latest) /\ Head(saves).tree <= latest
    BY <2>1, TakenOrder
  <2>4. CASE Head(saves).id = "save" /\ JsonSave(Head(saves))
    <3>1. Head(saves).tree \in Trees /\ Head(saves).tree # 0
      BY <2>2, <2>4, ServerMessageKinds
    <3>2. Head(saves).tree \in 0 .. latest
      BY <2>3, <3>1 DEF Trees
    <3> QED
      BY <2>1, <2>2, <2>3, <2>4, <3>1, <3>2 DEF JsonSave
  <2>5. CASE JsonLoad
    BY <2>1, <2>2, <2>3, <2>5 DEF JsonLoad
  <2> QED
    BY <1>3, <2>4, <2>5 DEF ReceiveJson
<1>4. CASE PostJson
  <2>1. stored \in Trees /\ stored <= latest
    <3>1. stored # 0 /\ stored \in 0 .. latest /\ latest \in 0 .. MaxTrees
      BY <1>4 DEF PostJson
    <3> QED
      BY <3>1, WsPipelineAssumption DEF Trees
  <2>2. requests' = Queued(requests, JsonRequest(stored))
    BY <1>4 DEF PostJson
  <2>3. requests' \in Seq(ClientMessage)
    BY <2>1, <2>2, QueuedFacts, Messages
  <2>4. NotAfter(requests', latest)
    BY <2>1, <2>2, QueuedOrder, Messages
  <2> QED
    BY <1>4, <2>3, <2>4 DEF PostJson, managerVars, browserVars
<1>5. CASE TimerCallback
  <2>1. requests' = Queued(requests, TimerRequest) /\ 0 <= latest
    BY <1>5 DEF TimerCallback
  <2>2. requests' \in Seq(ClientMessage) /\ NotAfter(requests', latest)
    BY <2>1, QueuedFacts, QueuedOrder, Messages
  <2> QED
    BY <1>5, <2>2 DEF TimerCallback, managerVars, serverVars, browserVars
<1>6. CASE ReceiveRequest
  <2> DEFINE msg == Head(requests)
  <2>1. /\ requests' = Tail(requests) /\ requests # <<>>
        /\ client' = CASE msg.id = "init" -> [do |-> "load", tree |-> 0]
                       [] msg.id = "json-request" -> [do |-> "tree", tree |-> msg.tree]
                       [] msg.id = "timer-request" -> [do |-> "elapsed", tree |-> 0]
        /\ UNCHANGED <<latest, publishing, saves, stored, active, posting, page, shown>>
    BY <1>6 DEF ReceiveRequest, managerVars, serverVars, browserVars
  <2>2. requests' \in Seq(ClientMessage) /\ msg \in ClientMessage
    BY <2>1, TailFacts
  <2>3. NotAfter(requests', latest) /\ msg.tree <= latest
    BY <2>1, TakenOrder
  <2> HIDE DEF msg
  <2>4. /\ client' \in [do : {"receive", "load", "tree", "elapsed"}, tree : 0 .. latest]
        /\ client'.do = "tree" => client'.tree # 0
    <3>1. CASE msg.id = "init"
      BY <2>1, <3>1
    <3>2. CASE msg.id = "timer-request"
      BY <2>1, <3>2
    <3>3. CASE msg.id = "json-request"
      <4>1. msg.tree \in 0 .. latest /\ msg.tree # 0
        BY <2>2, <2>3, <3>3, ClientMessageKinds DEF Trees
      <4>2. client' = [do |-> "tree", tree |-> msg.tree]
        BY <2>1, <3>3
      <4> QED
        BY <4>1, <4>2
    <3> QED
      BY <2>2, <3>1, <3>2, <3>3, ClientMessageKinds
  <2> QED
    BY <2>1, <2>2, <2>3, <2>4
<1>7. CASE RequestLoad
  <2>1. saves' = Queued(saves, Load) /\ client' = Receiving /\ 0 <= latest
    BY <1>7 DEF RequestLoad, SendToServer
  <2>2. saves' \in Seq(ServerMessage) /\ NotAfter(saves', latest)
    BY <2>1, QueuedFacts, QueuedOrder, Messages
  <2> QED
    BY <1>7, <2>1, <2>2
    DEF RequestLoad, Receiving, managerVars, serverVars, browserVars
<1>8. CASE SendTree
  BY <1>8
  DEF SendTree, Shown, Connected, Receiving, managerVars, serverVars
<1>9. CASE SendElapsed
  BY <1>9 DEF SendElapsed, Receiving, managerVars, serverVars, browserVars
<1>10. ASSUME NEW b \in Browser, Open(b) PROVE Types'
  BY <1>10 DEF Open, managerVars, serverVars
<1>11. ASSUME NEW b \in Browser, OnOpen(b) PROVE Types'
  <2>1. 0 <= latest
    OBVIOUS
  <2>2. requests' \in Seq(ClientMessage) /\ NotAfter(requests', latest)
    <3>1. CASE requests' = Queued(requests, InitRequest)
      BY <2>1, <3>1, QueuedFacts, QueuedOrder, Messages
    <3>2. CASE UNCHANGED requests
      BY <3>2
    <3> QED
      BY <1>11, <3>1, <3>2 DEF OnOpen
  <2>3. page' \in [Browser -> {"closed", "connected", "inited", "unheard"}]
        /\ \A c \in Browser : page'[c] = "closed" => page[c] = "closed"
    BY <1>11 DEF OnOpen
  <2> QED
    BY <1>11, <2>2, <2>3 DEF OnOpen, managerVars, serverVars
<1>12. ASSUME NEW b \in Browser, Close(b) PROVE Types'
  BY <1>12 DEF Close, managerVars, serverVars
<1>13. CASE Booted'
  <2>1. Booted' => Types'
    BY BootedTypes, PTL
  <2> QED
    BY <1>13, <2>1
<1>14. CASE UNCHANGED <<managerVars, saves, serverVars, requests, client, browserVars>>
  BY <1>14 DEF managerVars, serverVars, browserVars
<1>15. PublishBlocked \/ RequestLoadBlocked =>
         \/ Booted'
         \/ UNCHANGED <<managerVars, saves, serverVars, requests, client, browserVars>>
  BY Boots DEF PublishBlocked, RequestLoadBlocked, WaitForServer
<1>16. UNCHANGED vars =>
         UNCHANGED <<managerVars, saves, serverVars, requests, client, browserVars>>
  BY DEF vars, managerVars, serverVars, browserVars
<1> QED
  BY <1>1, <1>2, <1>3, <1>4, <1>5, <1>6, <1>7, <1>8, <1>9, <1>10, <1>11,
     <1>12, <1>13, <1>14, <1>15, <1>16 DEF Next

-----------------------------------------------------------------------------
(* The trees on their way, from the pages back to node_manager, get newer:  *)
(* shown, in client_task, in its buffer, stored, in json_server's buffer.   *)

Order ==
    /\ Ordered(saves) /\ NotBefore(saves, stored)
    /\ Ordered(requests) /\ NotAfter(requests, stored)
    /\ client.do = "tree" => /\ client.tree <= stored
                             /\ NotBefore(requests, client.tree)
    /\ \A b \in Browser : /\ shown[b] <= stored
                          /\ NotBefore(requests, shown[b])
                          /\ client.do = "tree" => shown[b] <= client.tree

LEMMA BootedOrder == Booted => Order
<1> SUFFICES ASSUME Booted PROVE Order
  OBVIOUS
<1>1. Len(<<>>) = 0
  OBVIOUS
<1>2. Ordered(<<>>) /\ NotAfter(<<>>, 0) /\ NotBefore(<<>>, 0)
  BY <1>1 DEF Ordered, NotAfter, NotBefore
<1> QED
  BY <1>2 DEF Booted, Order, Receiving

\* Every action keeps the order.
LEMMA StepOrder == Types /\ Types' /\ Order /\ [Next]_vars => Order'
<1> SUFFICES ASSUME Types, Types', Order, [Next]_vars PROVE Order'
  OBVIOUS
<1>0. /\ latest \in Nat /\ stored \in Nat /\ stored <= latest /\ client.tree \in Nat
      /\ \A b \in Browser : shown[b] \in Nat
      /\ saves \in Seq(ServerMessage) /\ requests \in Seq(ClientMessage)
  BY DEF Types
<1> DEFINE Kept == UNCHANGED <<saves, stored, requests, client, shown>>
<1>1. CASE Publish
  <2>1. latest \in Trees
    BY <1>1 DEF Types, Publish, Trees
  <2>2. saves' = Queued(saves, Save(latest))
    BY <1>1 DEF Publish, SendToServer
  <2>3. Save(latest).tree = latest /\ Save(latest) \in ServerMessage
    BY <2>1, Messages
  <2>4. NotAfter(saves, latest)
    BY DEF Types
  <2>5. Ordered(saves') /\ NotBefore(saves', stored)
    BY <1>0, <2>2, <2>3, <2>4, QueuedOrder DEF Order
  <2> QED
    BY <1>1, <2>5 DEF Order, Publish, serverVars, browserVars
<1>2. CASE ReceiveJson
  <2>1. /\ saves' = Tail(saves) /\ saves # <<>>
        /\ UNCHANGED <<requests, client, shown>>
    BY <1>2 DEF ReceiveJson, browserVars
  <2>2. /\ Ordered(saves')
        /\ HasTree(Head(saves)) => NotBefore(saves', Head(saves).tree)
        /\ NotBefore(saves', stored)
        /\ HasTree(Head(saves)) => stored <= Head(saves).tree
    BY <1>0, <2>1, TakenOrder DEF Order
  <2>3. CASE Head(saves).id = "save" /\ JsonSave(Head(saves))
    <3>1. /\ HasTree(Head(saves)) /\ Head(saves).tree \in Nat
          /\ stored' = Head(saves).tree
      BY <1>0, <2>1, <2>3, TailFacts, ServerMessageKinds
      DEF JsonSave, HasTree, Trees
    <3>2. NotBefore(saves', stored') /\ stored <= stored' /\ stored' \in Nat
      BY <2>2, <3>1
    <3>3. NotAfter(requests, stored')
      BY <1>0, <3>2, NotAfterLater, TreeNumbers DEF Order
    <3>4. \A b \in Browser : shown[b] <= stored'
      BY <1>0, <3>2 DEF Order
    <3>5. client.do = "tree" => client.tree <= stored'
      BY <1>0, <3>2 DEF Order
    <3> QED
      BY <2>1, <2>2, <3>2, <3>3, <3>4, <3>5 DEF Order
  <2>4. CASE JsonLoad
    BY <2>1, <2>2, <2>4 DEF Order, JsonLoad
  <2> QED
    BY <1>2, <2>3, <2>4 DEF ReceiveJson
<1>3. CASE PostJson
  <2>1. stored \in Trees
    <3>1. stored # 0 /\ stored \in 0 .. latest /\ latest \in 0 .. MaxTrees
      BY <1>3 DEF PostJson, Types
    <3> QED
      BY <3>1, WsPipelineAssumption DEF Trees
  <2>2. requests' = Queued(requests, JsonRequest(stored))
    BY <1>3 DEF PostJson
  <2>3. JsonRequest(stored).tree = stored /\ JsonRequest(stored) \in ClientMessage
    BY <2>1, Messages
  <2>4. Ordered(requests') /\ NotAfter(requests', stored)
    BY <1>0, <2>2, <2>3, QueuedOrder DEF Order
  <2>5. client.do = "tree" => NotBefore(requests', client.tree)
    BY <1>0, <2>2, <2>3, QueuedOrder DEF Order
  <2>6. \A b \in Browser : NotBefore(requests', shown[b])
    BY <1>0, <2>2, <2>3, QueuedOrder DEF Order
  <2> QED
    BY <1>3, <2>4, <2>5, <2>6 DEF Order, PostJson, browserVars
<1>4. ASSUME NEW msg \in {TimerRequest, InitRequest},
             requests' = Queued(requests, msg),
             UNCHANGED <<saves, stored, client, shown>>
      PROVE  Order'
  <2>1. msg \in ClientMessage /\ ~HasTree(msg) /\ msg.tree = 0
    BY Messages
  <2>2. Ordered(requests') /\ NotAfter(requests', stored)
    BY <1>0, <1>4, <2>1, QueuedOrder DEF Order
  <2>3. client.do = "tree" => NotBefore(requests', client.tree)
    BY <1>0, <1>4, <2>1, QueuedOrder DEF Order
  <2>4. \A b \in Browser : NotBefore(requests', shown[b])
    BY <1>0, <1>4, <2>1, QueuedOrder DEF Order
  <2> QED
    BY <1>4, <2>2, <2>3, <2>4 DEF Order
<1>5. CASE ReceiveRequest
  <2> DEFINE msg == Head(requests)
  <2>1. /\ requests' = Tail(requests) /\ requests # <<>>
        /\ client' = CASE msg.id = "init" -> [do |-> "load", tree |-> 0]
                       [] msg.id = "json-request" -> [do |-> "tree", tree |-> msg.tree]
                       [] msg.id = "timer-request" -> [do |-> "elapsed", tree |-> 0]
        /\ UNCHANGED <<saves, stored, shown>>
    BY <1>5 DEF ReceiveRequest, serverVars, browserVars
  <2>2. msg \in ClientMessage
    BY <1>0, <2>1, TailFacts
  <2>3. /\ Ordered(requests') /\ NotAfter(requests', stored) /\ msg.tree <= stored
        /\ HasTree(msg) => NotBefore(requests', msg.tree)
    BY <1>0, <2>1, TakenOrder DEF Order
  <2>4. \A b \in Browser : /\ NotBefore(requests', shown[b])
                           /\ HasTree(msg) => shown[b] <= msg.tree
    BY <1>0, <2>1, TakenOrder DEF Order
  <2> HIDE DEF msg
  <2>5. client'.do = "tree" => client'.tree = msg.tree /\ HasTree(msg)
    BY <2>1, <2>2, ClientMessageKinds DEF HasTree
  <2>6. saves' = saves /\ stored' = stored /\ shown' = shown
    BY <2>1
  <2>7. client'.do = "tree" =>
          /\ client'.tree <= stored /\ NotBefore(requests', client'.tree)
          /\ \A b \in Browser : shown[b] <= client'.tree
    <3> SUFFICES ASSUME client'.do = "tree"
                 PROVE  /\ client'.tree <= stored
                        /\ NotBefore(requests', client'.tree)
                        /\ \A b \in Browser : shown[b] <= client'.tree
      OBVIOUS
    <3>1. HasTree(msg) /\ client'.tree = msg.tree
      BY <2>5
    <3>2. msg.tree <= stored /\ NotBefore(requests', msg.tree)
      BY <2>3, <3>1
    <3>3. \A b \in Browser : shown[b] <= msg.tree
      BY <2>4, <3>1
    <3> QED
      BY <3>1, <3>2, <3>3
  <2>8. \A b \in Browser : shown[b] <= stored /\ NotBefore(requests', shown[b])
    BY <2>4 DEF Order
  <2>9. Ordered(saves) /\ NotBefore(saves, stored)
    BY DEF Order
  <2> QED
    BY <2>3, <2>6, <2>7, <2>8, <2>9 DEF Order
<1>6. CASE RequestLoad
  <2>1. saves' = Queued(saves, Load) /\ client' = Receiving
    BY <1>6 DEF RequestLoad, SendToServer
  <2>2. Ordered(saves') /\ NotBefore(saves', stored)
    BY <1>0, <2>1, QueuedOrder, Messages DEF Order
  <2> QED
    BY <1>6, <2>1, <2>2 DEF Order, RequestLoad, Receiving, serverVars, browserVars
<1>7. CASE SendTree
  <2>1. /\ client.do = "tree" /\ client'.do = "receive"
        /\ UNCHANGED <<saves, stored, requests>>
        /\ \A b \in Browser : shown'[b] \in {client.tree, shown[b]}
    BY <1>7 DEF SendTree, Shown, Receiving, serverVars
  <2> QED
    BY <2>1 DEF Order
<1>8. CASE SendElapsed
  BY <1>8 DEF SendElapsed, Receiving, serverVars, browserVars, Order
<1>9. ASSUME NEW b \in Browser, Close(b) PROVE Order'
  <2>1. /\ UNCHANGED <<saves, stored, requests, client>>
        /\ \A c \in Browser : shown'[c] \in {0, shown[c]}
    BY <1>9 DEF Close, serverVars, Types
  <2>2. NotBefore(requests, 0)
    BY <1>0, TreeNumbers DEF NotBefore
  <2> QED
    BY <1>0, <2>1, <2>2 DEF Order
<1>10. CASE Booted'
  <2>1. Booted' => Order'
    BY BootedOrder, PTL
  <2> QED
    BY <1>10, <2>1
<1>11. CASE Kept
  BY <1>11 DEF Order
<1>12. PublishBlocked \/ RequestLoadBlocked => Booted' \/ Kept
  BY Boots DEF PublishBlocked, RequestLoadBlocked, WaitForServer, serverVars,
               browserVars
<1>13. ASSUME NEW b \in Browser
       PROVE  /\ Open(b) => Kept
              /\ OnOpen(b) =>
                    \/ Kept
                    \/ /\ requests' = Queued(requests, InitRequest)
                       /\ UNCHANGED <<saves, stored, client, shown>>
  BY DEF Open, OnOpen, serverVars
<1>14. /\ UNCHANGED vars => Kept
       /\ Build => Kept
       /\ TimerCallback => /\ requests' = Queued(requests, TimerRequest)
                           /\ UNCHANGED <<saves, stored, client, shown>>
  BY DEF vars, Build, TimerCallback, serverVars, browserVars
<1> HIDE DEF Kept
<1> QED
  BY <1>1, <1>2, <1>3, <1>4, <1>5, <1>6, <1>7, <1>8, <1>9, <1>10, <1>11,
     <1>12, <1>13, <1>14 DEF Next

-----------------------------------------------------------------------------
(* What is under way to the pages.                                          *)

\* json_server has a client, and a page that shows this tree gets the stored
\* one: it is being sent, in the client's buffer, or in client_task's hands.
Forwarded(tree) ==
    /\ active
    /\ \/ posting
       \/ Has(requests, JsonRequest(stored))
       \/ client.do = "tree" /\ client.tree = stored
       \/ tree = stored

\* The request of a page that has been heard.
Asked ==
    \/ Has(requests, InitRequest)
    \/ client.do = "load"
    \/ Has(saves, Load)

Promise ==
    /\ publishing \/ stored = latest \/ Has(saves, Save(latest))
    /\ posting => active
    /\ \A t \in Trees : Has(requests, JsonRequest(t)) => Forwarded(t)
    /\ client.do = "tree" => Forwarded(client.tree)
    /\ \A b \in Browser : shown[b] # 0 => Forwarded(shown[b])
    /\ \A b \in Browser : page[b] = "inited" => Asked \/ Forwarded(shown[b])

LEMMA BootedPromise == Booted => Promise
<1> SUFFICES ASSUME Booted PROVE Promise
  OBVIOUS
<1>1. \A msg : ~Has(<<>>, msg)
  <2>1. Len(<<>>) = 0
    OBVIOUS
  <2> QED
    BY <2>1 DEF Has
<1> QED
  BY <1>1 DEF Booted, Promise, Receiving

\* What was forwarded stays so unless json_server stores another tree, the
\* messages with the stored tree go, or client_task drops it.
LEMMA StaysForwarded ==
    ASSUME NEW tree,
           active => active', posting => posting' \/ Has(requests', JsonRequest(stored)),
           stored' = stored,
           Has(requests, JsonRequest(stored)) =>
              \/ Has(requests', JsonRequest(stored))
              \/ client'.do = "tree" /\ client'.tree = stored,
           client.do = "tree" => client' = client,
           Forwarded(tree)
    PROVE  Forwarded(tree)'
BY DEF Forwarded

\* No two kinds of messages are alike.
LEMMA Distinct ==
    /\ \A t, u : /\ JsonRequest(t) = JsonRequest(u) => t = u
                /\ Save(t) = Save(u) => t = u
    /\ \A t : /\ JsonRequest(t) # InitRequest /\ JsonRequest(t) # TimerRequest
             /\ Save(t) # Load
             /\ JsonRequest(t).id = "json-request" /\ Save(t).id = "save"
             /\ JsonRequest(t).tree = t /\ Save(t).tree = t
    /\ InitRequest # TimerRequest
    /\ InitRequest.id = "init" /\ TimerRequest.id = "timer-request"
    /\ Load.id = "load"
BY DEF JsonRequest, Save, InitRequest, TimerRequest, Load

\* A tree in the client's buffer is not newer than the stored one, and not older
\* than the one client_task holds.
LEMMA RequestedTree ==
    ASSUME Types, Order, NEW t \in Trees, Has(requests, JsonRequest(t))
    PROVE  t <= stored /\ (client.do = "tree" => client.tree <= t)
<1>1. PICK i \in 1 .. Len(requests) : requests[i] = JsonRequest(t)
  BY DEF Has
<1>2. requests[i].tree = t /\ HasTree(requests[i])
  BY <1>1, Messages
<1> QED
  BY <1>2 DEF Order, NotAfter, NotBefore

\* json_server takes a message.
LEMMA ReceiveJsonPromise ==
    ASSUME Types, Order, Promise, ReceiveJson
    PROVE  Promise'
<1>1. /\ saves' = Tail(saves) /\ saves # <<>> /\ ~posting
      /\ latest \in Nat /\ stored \in 0 .. latest
      /\ saves \in Seq(ServerMessage) /\ Head(saves) \in ServerMessage
      /\ UNCHANGED <<latest, publishing, requests, client, shown, page>>
  BY TailFacts DEF ReceiveJson, managerVars, browserVars, Types
<1>2. \A msg : Has(saves, msg) <=> msg = Head(saves) \/ Has(saves', msg)
  BY <1>1, TakenHas
<1>3. CASE Head(saves).id = "save" /\ JsonSave(Head(saves))
  <2>1. PICK t \in Trees : Head(saves) = Save(t)
    BY <1>1, <1>3, ServerMessageKinds
  <2>2. stored' = t /\ posting' = active /\ active' = active /\ HasTree(Head(saves))
    BY <1>3, <2>1, Messages DEF JsonSave
  <2>3. stored <= t /\ t <= latest /\ t \in Nat
    BY <1>1, <2>1, <2>2, TakenOrder, Messages DEF Order, Types, Trees
  <2>4. ASSUME NEW u, Forwarded(u) PROVE Forwarded(u)'
    BY <2>2, <2>4 DEF Forwarded
  <2>5. publishing' \/ stored' = latest' \/ Has(saves', Save(latest'))
    <3>1. CASE publishing
      BY <1>1, <3>1
    <3>2. CASE stored = latest
      BY <1>1, <2>2, <2>3, <3>2
    <3>3. CASE Has(saves, Save(latest))
      BY <1>1, <1>2, <2>1, <2>2, <3>3, Distinct
    <3> QED
      BY <3>1, <3>2, <3>3 DEF Promise
  <2>6. Asked => Asked'
    BY <1>1, <1>2, <2>1, Distinct DEF Asked
  <2> QED
    BY <1>1, <2>2, <2>4, <2>5, <2>6 DEF Promise
<1>4. CASE Head(saves).id = "load" /\ JsonLoad
  <2>1. Head(saves) = Load /\ active' = TRUE /\ stored' = stored /\ posting' = (stored # 0)
    BY <1>1, <1>4, ServerMessageKinds DEF JsonLoad
  <2>2. ASSUME NEW u, Forwarded(u) PROVE Forwarded(u)'
    BY <1>1, <2>1, <2>2 DEF Forwarded
  <2>3. \A b \in Browser : Forwarded(shown[b])'
    <3>1. CASE stored # 0
      BY <2>1, <3>1 DEF Forwarded
    <3>2. CASE stored = 0
      <4>1. \A b \in Browser : shown[b] = 0
        BY <3>2 DEF Order, Types
      <4> QED
        BY <1>1, <2>1, <3>2, <4>1 DEF Forwarded
    <3> QED
      BY <3>1, <3>2
  <2>4. publishing' \/ stored' = latest' \/ Has(saves', Save(latest'))
    BY <1>1, <1>2, <2>1, Distinct DEF Promise
  <2> QED
    BY <1>1, <2>1, <2>2, <2>3, <2>4 DEF Promise
<1> QED
  BY <1>3, <1>4 DEF ReceiveJson

\* client_task takes a message.
LEMMA ReceiveRequestPromise ==
    ASSUME Types, Order, Promise, ReceiveRequest
    PROVE  Promise'
<1> DEFINE msg == Head(requests)
<1>1. /\ requests' = Tail(requests) /\ requests # <<>> /\ client.do = "receive"
      /\ requests \in Seq(ClientMessage) /\ msg \in ClientMessage
      /\ UNCHANGED <<latest, publishing, saves, stored, active, posting, shown, page>>
  BY TailFacts
  DEF ReceiveRequest, managerVars, serverVars, browserVars, Types
<1>2. \A other : Has(requests, other) <=> other = msg \/ Has(requests', other)
  BY <1>1, TakenHas
<1>3. \/ msg = InitRequest /\ client' = [do |-> "load", tree |-> 0]
      \/ msg = TimerRequest /\ client' = [do |-> "elapsed", tree |-> 0]
      \/ \E t \in Trees : /\ msg = JsonRequest(t)
                          /\ client' = [do |-> "tree", tree |-> t]
  BY <1>1, ClientMessageKinds DEF ReceiveRequest
<1> HIDE DEF msg
<1>4. ASSUME NEW u, Forwarded(u) PROVE Forwarded(u)'
  <2>1. Has(requests, JsonRequest(stored)) =>
           \/ Has(requests', JsonRequest(stored))
           \/ client'.do = "tree" /\ client'.tree = stored
    BY <1>2, <1>3, Distinct
  <2> QED
    BY <1>1, <1>4, <2>1, StaysForwarded
<1>5. (client.do = "tree" => Forwarded(client.tree))'
  <2> SUFFICES ASSUME client'.do = "tree" PROVE Forwarded(client.tree)'
    OBVIOUS
  <2>1. PICK t \in Trees : msg = JsonRequest(t) /\ client' = [do |-> "tree", tree |-> t]
    BY <1>3
  <2>2. Forwarded(t)
    BY <1>2, <2>1 DEF Promise
  <2>3. Forwarded(t)' /\ client'.tree = t
    BY <1>4, <2>1, <2>2
  <2> QED
    BY <2>3 DEF Forwarded
<1>6. Asked => Asked'
  BY <1>1, <1>2, <1>3, Distinct DEF Asked
<1> QED
  BY <1>1, <1>2, <1>4, <1>5, <1>6 DEF Promise

\* client_task sends its tree to the pages.
LEMMA SendTreePromise ==
    ASSUME Types, Order, Promise, SendTree
    PROVE  Promise'
<1>1. /\ client.do = "tree" /\ client' = Receiving /\ client'.do = "receive"
      /\ stored \in Nat /\ client.tree \in Nat
      /\ \A b \in Browser : shown'[b] = IF page[b] # "closed" THEN client.tree
                                       ELSE shown[b]
      /\ UNCHANGED <<latest, publishing, saves, stored, active, posting, requests, page>>
  BY DEF SendTree, Shown, Connected, Receiving, managerVars, serverVars, Types
<1>2. Forwarded(client.tree)
  BY <1>1 DEF Promise
<1>3. /\ active
      /\ posting \/ Has(requests, JsonRequest(stored)) \/ client.tree = stored
  BY <1>2 DEF Forwarded
<1>4. ASSUME NEW t \in Trees, Has(requests, JsonRequest(t)) PROVE Forwarded(t)'
  <2>1. client.tree = stored => t = stored
    BY <1>1, <1>4, RequestedTree DEF Trees
  <2> QED
    BY <1>1, <1>3, <2>1 DEF Forwarded
<1>5. ASSUME NEW b \in Browser, page[b] # "closed" PROVE Forwarded(shown[b])'
  BY <1>1, <1>3, <1>5 DEF Forwarded
<1>6. \A b \in Browser : page[b] = "closed" => shown'[b] = 0
  BY <1>1 DEF Types
<1> QED
  BY <1>1, <1>4, <1>5, <1>6 DEF Promise

\* Every action keeps the promise.
LEMMA StepPromise == Types /\ Order /\ Promise /\ [Next]_vars => Promise'
<1> DEFINE Rest == UNCHANGED <<stored, active, posting, latest, publishing>>
           Kept == UNCHANGED <<saves, requests, client, page, shown>> /\ Rest
<1> SUFFICES ASSUME Types, Order, Promise, [Next]_vars PROVE Promise'
  OBVIOUS
<1>0. saves \in Seq(ServerMessage) /\ requests \in Seq(ClientMessage)
      /\ latest \in 0 .. MaxTrees /\ stored \in 0 .. latest
  BY DEF Types
<1>1. CASE Build
  BY <1>1 DEF Build, serverVars, browserVars, Promise, Forwarded, Asked
<1>2. CASE Publish
  <2>1. latest \in Trees
    BY <1>0, <1>2, WsPipelineAssumption DEF Publish, Trees, Types
  <2>2. /\ saves' = Queued(saves, Save(latest))
        /\ UNCHANGED <<latest, stored, active, posting, requests, client, page, shown>>
    BY <1>2 DEF Publish, SendToServer, serverVars, browserVars
  <2>3. \A msg : Has(saves', msg) <=> Has(saves, msg) \/ msg = Save(latest)
    BY <1>0, <2>1, <2>2, QueuedHas, Messages
  <2> QED
    BY <2>2, <2>3 DEF Promise, Forwarded, Asked
<1>3. CASE PostJson
  <2>1. stored \in Trees
    BY <1>0, <1>3, WsPipelineAssumption DEF PostJson, Trees, Types
  <2>2. /\ requests' = Queued(requests, JsonRequest(stored)) /\ active
        /\ UNCHANGED <<latest, publishing, saves, stored, active, client, page, shown>>
        /\ posting' = FALSE
    BY <1>3 DEF PostJson, managerVars, browserVars, Promise
  <2>3. \A msg : Has(requests', msg) <=> Has(requests, msg) \/ msg = JsonRequest(stored)
    BY <1>0, <2>1, <2>2, QueuedHas, Messages
  <2>4. \A t : Forwarded(t)'
    BY <2>2, <2>3 DEF Forwarded
  <2>5. (client.do = "tree" => Forwarded(client.tree))'
        /\ \A b \in Browser : Forwarded(shown[b])'
    BY <2>2, <2>3 DEF Forwarded
  <2> QED
    BY <2>2, <2>4, <2>5 DEF Promise
<1>4. ASSUME NEW msg \in {TimerRequest, InitRequest},
             requests' = Queued(requests, msg),
             UNCHANGED <<saves, client, shown>>, Rest,
             \A b \in Browser : page'[b] = "inited" =>
                page[b] = "inited" \/ msg = InitRequest
      PROVE  Promise'
  <2>1. \A other : Has(requests', other) <=> Has(requests, other) \/ other = msg
    BY <1>0, <1>4, QueuedHas, Messages
  <2>2. ASSUME NEW t, Forwarded(t) PROVE Forwarded(t)'
    BY <1>4, <2>1, <2>2 DEF Forwarded
  <2>3. \A t \in Trees : Has(requests', JsonRequest(t)) => Has(requests, JsonRequest(t))
    BY <2>1, Distinct
  <2>4. (Asked => Asked') /\ (msg = InitRequest => Asked')
    BY <1>4, <2>1 DEF Asked
  <2>5. (client.do = "tree" => Forwarded(client.tree))'
        /\ \A b \in Browser : Forwarded(shown[b]) => Forwarded(shown[b])'
    BY <1>4, <2>1 DEF Forwarded, Promise
  <2> QED
    BY <1>4, <2>2, <2>3, <2>4, <2>5 DEF Promise
<1>5. CASE RequestLoad
  <2>1. /\ saves' = Queued(saves, Load) /\ client.do = "load"
        /\ client' = Receiving /\ client'.do = "receive"
        /\ UNCHANGED <<requests, page, shown>> /\ Rest
    BY <1>5 DEF RequestLoad, SendToServer, Receiving, managerVars, serverVars, browserVars
  <2>2. \A msg : Has(saves', msg) <=> Has(saves, msg) \/ msg = Load
    BY <1>0, <2>1, QueuedHas, Messages
  <2>3. \A t : Forwarded(t) => Forwarded(t)'
    BY <2>1 DEF Forwarded
  <2>4. \A b \in Browser : Forwarded(shown[b]) => Forwarded(shown[b])'
    BY <2>1 DEF Forwarded
  <2>5. Asked'
    BY <2>2 DEF Asked
  <2> QED
    BY <2>1, <2>2, <2>3, <2>4, <2>5 DEF Promise
<1>6. CASE SendElapsed
  <2>1. /\ client.do = "elapsed" /\ client'.do = "receive"
        /\ UNCHANGED <<saves, requests, page, shown>> /\ Rest
    BY <1>6 DEF SendElapsed, Receiving, managerVars, serverVars, browserVars
  <2>2. \A t : Forwarded(t) => Forwarded(t)'
    BY <2>1 DEF Forwarded
  <2>3. \A b \in Browser : Forwarded(shown[b]) => Forwarded(shown[b])'
    BY <2>1 DEF Forwarded
  <2>4. Asked => Asked'
    BY <2>1 DEF Asked
  <2> QED
    BY <2>1, <2>2, <2>3, <2>4 DEF Promise
<1>7. ASSUME NEW b \in Browser, Open(b) \/ Close(b) PROVE Promise'
  <2>1. /\ UNCHANGED <<saves, requests, client>> /\ Rest
        /\ \A c \in Browser : /\ page'[c] = "inited" => page[c] = "inited"
                                                          /\ shown'[c] = shown[c]
                              /\ shown'[c] \in {0, shown[c]}
    BY <1>7 DEF Open, Close, managerVars, serverVars, Types
  <2>2. \A t : Forwarded(t) => Forwarded(t)'
    BY <2>1 DEF Forwarded
  <2>3. \A c \in Browser : shown'[c] = shown[c] /\ Forwarded(shown[c]) => Forwarded(shown[c])'
    BY <2>1 DEF Forwarded
  <2>4. Asked => Asked'
    BY <2>1 DEF Asked
  <2>5. (client.do = "tree" => Forwarded(client.tree))'
    BY <2>1 DEF Forwarded, Promise
  <2> QED
    BY <2>1, <2>2, <2>3, <2>4, <2>5 DEF Promise
<1>8. CASE Booted'
  <2>1. Booted' => Promise'
    BY BootedPromise, PTL
  <2> QED
    BY <1>8, <2>1
<1>9. CASE Kept
  BY <1>9 DEF Promise, Forwarded, Asked
<1>10. PublishBlocked \/ RequestLoadBlocked => Booted' \/ Kept
  BY Boots DEF PublishBlocked, RequestLoadBlocked, WaitForServer, managerVars,
               serverVars, browserVars
<1>11. UNCHANGED vars => Kept
  BY DEF vars
<1>12. CASE TimerCallback
  BY <1>4, <1>12 DEF TimerCallback, managerVars, serverVars, browserVars
<1>13. ASSUME NEW b \in Browser, OnOpen(b) PROVE Promise'
  <2>1. UNCHANGED <<saves, client, shown>> /\ Rest
    BY <1>13 DEF OnOpen, managerVars, serverVars
  <2>2. CASE requests' = Queued(requests, InitRequest)
    BY <1>4, <2>1, <2>2
  <2>3. CASE /\ page' = [page EXCEPT ![b] = "unheard"]
             /\ UNCHANGED requests
    <3>1. \A c \in Browser : page'[c] = "inited" => page[c] = "inited"
      BY <2>3 DEF Types
    <3> QED
      BY <2>1, <2>3, <3>1 DEF Promise, Forwarded, Asked
  <2> QED
    BY <1>13, <2>2, <2>3 DEF OnOpen
<1> HIDE DEF Kept, Rest
<1> QED
  BY <1>1, <1>2, <1>3, <1>5, <1>6, <1>7, <1>8, <1>9, <1>10, <1>11, <1>12, <1>13,
     ReceiveJsonPromise, ReceiveRequestPromise, SendTreePromise DEF Next

-----------------------------------------------------------------------------
(* The theorems.                                                            *)

PipelineInv == Types /\ Order /\ Promise

LEMMA Pipeline == Spec => []PipelineInv
<1>1. Init => PipelineInv
  BY Boots, BootedTypes, BootedOrder, BootedPromise DEF PipelineInv
<1>2. PipelineInv /\ [Next]_vars => PipelineInv'
  BY StepTypes, StepOrder, StepPromise DEF PipelineInv
<1> QED
  BY <1>1, <1>2, PTL DEF Spec

\* When every task of the root waits for work, json_server holds the last tree
\* node_manager built, every page whose init was heard shows it, and no page
\* shows another: nothing is lost between the two buffers, whatever their
\* sizes, the orders in which the three tasks ran and the boots in between.
THEOREM QuietCorrect == Spec => []QuietLatest
<1>1. PipelineInv => QuietLatest
  <2> SUFFICES ASSUME PipelineInv, Quiet, NEW b \in Browser
               PROVE  /\ page[b] = "inited" => shown[b] = stored /\ stored = latest
                      /\ shown[b] # 0 => shown[b] = latest
    BY DEF QuietLatest
  <2>1. \A msg : ~Has(saves, msg) /\ ~Has(requests, msg)
    <3>1. Len(saves) = 0 /\ Len(requests) = 0
      BY DEF Quiet
    <3> QED
      BY <3>1 DEF Has
  <2>2. stored = latest
    BY <2>1 DEF PipelineInv, Promise, Quiet
  <2>3. Forwarded(shown[b]) => shown[b] = stored
    BY <2>1 DEF Forwarded, Quiet
  <2>4. ~Asked
    BY <2>1 DEF Asked, Quiet
  <2> QED
    BY <2>2, <2>3, <2>4 DEF PipelineInv, Promise
<1> QED
  BY <1>1, Pipeline, PTL

\* What the pages show is what TreeBoard promises, for every number of pages:
\* a tree that was built since the boot, and never an older one after a newer
\* one, although a tree is forwarded both when it is saved and when a page asks
\* for it.
THEOREM PagesCorrect == Spec => ShowsInOrder
<1>1. Init => Board!Init
  BY DEF Init, Board!Init
<1>2. PipelineInv /\ [Next]_vars => [Board!Next]_Board!vars
  <2> SUFFICES ASSUME Types, Order, [Next]_vars
               PROVE  [Board!Next]_Board!vars
    BY DEF PipelineInv
  <2> DEFINE Same == UNCHANGED <<latest, shown>>
  <2>1. CASE Build
    BY <2>1 DEF Build, browserVars, Board!Next, Board!Build
  <2>2. CASE Booted'
    BY <2>2 DEF Booted, Board!Next, Board!Reboot
  <2>3. CASE SendTree
    <3>1. PICK tree \in 1 .. latest : client.tree = tree /\ client.do = "tree"
      BY <2>3 DEF SendTree, Types
    <3>2. PICK to \in SUBSET Browser : to = Connected
      BY DEF Connected
    <3>3. \A b \in to : shown[b] <= tree
      BY <3>1, <3>2 DEF Order
    <3>4. Board!Show(to, tree)
      BY <2>3, <3>1, <3>2, <3>3 DEF SendTree, Shown, managerVars, Board!Show
    <3> QED
      BY <3>4 DEF Board!Next
  <2>4. ASSUME NEW b \in Browser, Close(b) PROVE Board!Next
    <3>1. shown' = [c \in Browser |-> IF c \in {b} THEN 0 ELSE shown[c]]
      BY <2>4 DEF Close, Types
    <3>2. Board!Leave({b})
      BY <2>4, <3>1 DEF Close, managerVars, Board!Leave
    <3> QED
      BY <3>2 DEF Board!Next
  <2>5. CASE Same
    BY <2>5 DEF Board!vars
  <2>6. PublishBlocked \/ RequestLoadBlocked => Booted' \/ Same
    BY Boots DEF PublishBlocked, RequestLoadBlocked, WaitForServer, managerVars,
                 browserVars
  <2>7. ReceiveJson \/ PostJson \/ ReceiveRequest \/ RequestLoad \/ SendElapsed
        \/ Publish \/ TimerCallback \/ UNCHANGED vars => Same
    BY DEF ReceiveJson, PostJson, ReceiveRequest, RequestLoad, SendElapsed, Publish,
           TimerCallback, vars, managerVars, browserVars
  <2>8. \A b \in Browser : Open(b) \/ OnOpen(b) => Same
    BY DEF Open, OnOpen, managerVars
  <2> HIDE DEF Same
  <2> QED
    BY <2>1, <2>2, <2>3, <2>4, <2>5, <2>6, <2>7, <2>8 DEF Next
<1> QED
  BY <1>1, <1>2, Pipeline, PTL DEF Spec, ShowsInOrder, Board!Spec
=============================================================================
