--------------------------- MODULE Clients_proofs ---------------------------
(***************************************************************************)
(* Theorems about the small programs: RemoteLogging, for any size of the   *)
(* buffer, MqttClient, for any number of messages, and Startup, for every  *)
(* program.                                                                *)
(***************************************************************************)
EXTENDS RemoteLogging, MqttClient, Startup, TLAPS

(* RemoteLogging *)

(* Every action keeps the types. *)
LEMMA TypeStep == ASSUME LogTypeOK, [LogNext]_logVars PROVE LogTypeOK'
<1> USE LogAssumption DEF LogTypeOK
<1>1. CASE UNCHANGED logVars
  BY <1>1 DEF logVars
<1>2. CASE IpEvent \/ CreateBuffer \/ UdpReady \/ UdpFails \/ TakeNotify
           \/ ReadyTimeout
  BY <1>2 DEF IpEvent, CreateBuffer, UdpReady, UdpFails, TakeNotify,
              ReadyTimeout
<1>3. CASE LogFull \/ ReceiveNull
  BY <1>3 DEF LogFull, ReceiveNull
<1>4. CASE LogLine
  <2>1. logged + 1 \in 1 .. MaxLogged
    BY <1>4 DEF LogLine
  <2>2. buffer' \in Seq(1 .. MaxLogged) /\ Len(buffer') = Len(buffer) + 1
    BY <1>4, <2>1 DEF LogLine
  <2> QED  BY <1>4, <2>1, <2>2 DEF LogLine
<1>5. CASE SendLine \/ SendFails
  <2>1. buffer # <<>> /\ buffer' = Tail(buffer)
    BY <1>5 DEF SendLine, SendFails, Received
  <2>2. Head(buffer) \in 1 .. MaxLogged
    BY <2>1
  <2>3. buffer' \in Seq(1 .. MaxLogged) /\ Len(buffer') = Len(buffer) - 1
    BY <2>1
  <2>4. sent' \in Seq(1 .. MaxLogged)
    <3>1. CASE sent' = sent
      BY <3>1
    <3>2. CASE sent' = Append(sent, Head(buffer))
      BY <2>2, <3>2
    <3> QED  BY <1>5, <3>1, <3>2 DEF SendLine, SendFails
  <2> QED  BY <1>5, <2>3, <2>4, SMTT(30) DEF SendLine, SendFails
<1> QED  BY <1>1, <1>2, <1>3, <1>4, <1>5 DEF LogNext

(* Every reachable state of the logging node is well typed: the buffer never
   holds more than fits. *)
THEOREM TypeCorrect == LogSpec => []LogTypeOK
<1>1. ASSUME LogInit PROVE LogTypeOK
  <2>1. <<>> \in Seq(1 .. MaxLogged) /\ Len(<<>>) = 0
    OBVIOUS
  <2>2. 0 \in 0 .. MaxLogged /\ 0 <= LOG_MESSAGES
    BY LogAssumption
  <2> QED  BY <1>1, <2>1, <2>2 DEF LogInit, LogTypeOK
<1> QED  BY <1>1, TypeStep, PTL DEF LogSpec

-----------------------------------------------------------------------------
\* remote_logging_init runs once, whatever number of addresses the node gets.
Once ==
    /\ starting # "none" => tcpTask
    /\ starting \in {"none", "create"} => ~handle /\ udp = "none"

\* The notification comes from udp_client only, when its setup is over.
Ready ==
    /\ notified => udp \in {"loop", "ended"}
    /\ ReaderReady

StartInv == Once /\ Ready

(* The invariant about the start holds initially and is kept by every action. *)
LEMMA StartStep == ASSUME StartInv, [LogNext]_logVars PROVE StartInv'
<1> USE DEF StartInv, Once, Ready, ReaderReady
<1>1. CASE UNCHANGED logVars
  BY <1>1 DEF logVars
<1>2. CASE IpEvent
  BY <1>2 DEF IpEvent
<1>3. CASE CreateBuffer
  BY <1>3 DEF CreateBuffer
<1>4. CASE UdpReady \/ UdpFails
  BY <1>4 DEF UdpReady, UdpFails
<1>5. CASE TakeNotify
  BY <1>5 DEF TakeNotify
<1>6. CASE ReadyTimeout
  BY <1>6 DEF ReadyTimeout
<1>7. CASE LogLine \/ LogFull \/ ReceiveNull
  BY <1>7 DEF LogLine, LogFull, ReceiveNull
<1>8. CASE SendLine \/ SendFails
  BY <1>8 DEF SendLine, SendFails
<1> QED
  BY <1>1, <1>2, <1>3, <1>4, <1>5, <1>6, <1>7, <1>8 DEF LogNext

(* remote_logging_init puts logging_vprintf in place only when udp_client has
   reached its loop, whichever of the notification and the timeout is first. *)
THEOREM StartCorrect == LogSpec => []ReaderReady
<1>1. LogInit => StartInv
  BY DEF LogInit, StartInv, Once, Ready, ReaderReady
<1>2. StartInv => ReaderReady
  BY DEF StartInv, Ready
<1> QED  BY <1>1, <1>2, StartStep, PTL DEF LogSpec

-----------------------------------------------------------------------------
\* Lines are numbered as they are logged; the buffer continues the server's log.
Consecutive ==
    /\ \A i \in DOMAIN sent : sent[i] = i
    /\ udp \in {"none", "setup"} =>
        logged = 0 /\ buffer = <<>> /\ sent = <<>>
    /\ udp = "loop" =>
        /\ Len(sent) + Len(buffer) = logged
        /\ \A i \in DOMAIN buffer : buffer[i] = Len(sent) + i

(* A line that is logged, sent or lost leaves the numbers consecutive.  The
   invariant about the start is needed for the first: no line is logged before
   udp_client is in its loop. *)
LEMMA ConsecutiveStep ==
    ASSUME LogTypeOK, StartInv, Consecutive, [LogNext]_logVars
    PROVE  Consecutive'
<1>0. /\ buffer \in Seq(Nat) /\ sent \in Seq(Nat) /\ logged \in Nat
      /\ udp \in {"none", "setup", "loop", "ended"}
  BY LogAssumption DEF LogTypeOK
<1>1. CASE UNCHANGED logVars
  BY <1>1 DEF logVars, Consecutive
<1>2. CASE IpEvent \/ TakeNotify \/ ReadyTimeout \/ LogFull \/ ReceiveNull
  BY <1>2 DEF IpEvent, TakeNotify, ReadyTimeout, LogFull, ReceiveNull,
              Consecutive
<1>3. CASE CreateBuffer
  <2>1. udp = "none"
    BY <1>3 DEF CreateBuffer, StartInv, Once
  <2> QED  BY <1>3, <2>1 DEF CreateBuffer, Consecutive
<1>4. CASE UdpReady \/ UdpFails
  BY <1>4 DEF UdpReady, UdpFails, Consecutive
<1>5. CASE LogLine
  <2>1. udp \in {"loop", "ended"}
    BY <1>5 DEF LogLine, StartInv, Ready, ReaderReady
  <2>2. Len(buffer') = Len(buffer) + 1
    BY <1>0, <1>5 DEF LogLine
  <2>3. ASSUME udp = "loop", NEW i \in DOMAIN buffer'
        PROVE  buffer'[i] = Len(sent) + i
    <3>1. Len(sent) + Len(buffer) = logged
      BY <2>3 DEF Consecutive
    <3>2. i \in 1 .. Len(buffer) + 1
      BY <1>0, <1>5, <2>2, <2>3 DEF LogLine
    <3>3. CASE i = Len(buffer) + 1
      BY <1>0, <1>5, <3>1, <3>3 DEF LogLine
    <3>4. CASE i \in 1 .. Len(buffer)
      BY <1>0, <1>5, <2>3, <3>4 DEF LogLine, Consecutive
    <3> QED  BY <1>0, <3>2, <3>3, <3>4
  <2> QED  BY <1>0, <1>5, <2>1, <2>2, <2>3 DEF LogLine, Consecutive
<1>6. CASE SendFails
  BY <1>6 DEF SendFails, Consecutive
<1>7. CASE SendLine
  <2>1. /\ udp = "loop" /\ udp' = "loop" /\ buffer # <<>> /\ logged' = logged
        /\ buffer' = Tail(buffer)
        /\ sent' = Append(sent, Head(buffer))
    BY <1>7 DEF SendLine, Received
  <2>2. Len(buffer) > 0 /\ Head(buffer) = buffer[1] /\ 1 \in DOMAIN buffer
    BY <1>0, <2>1
  <2>3. Head(buffer) = Len(sent) + 1
    BY <2>1, <2>2 DEF Consecutive
  <2>4. /\ Len(sent') = Len(sent) + 1
        /\ Len(buffer') = Len(buffer) - 1
    BY <1>0, <2>1, <2>2
  <2>5. Len(sent') + Len(buffer') = logged'
    <3>1. Len(sent) + Len(buffer) = logged
      BY <2>1 DEF Consecutive
    <3>2. Len(sent) \in Nat /\ Len(buffer) \in Nat
      BY <1>0
    <3> QED  BY <2>1, <2>4, <3>1, <3>2
  <2>6. ASSUME NEW i \in DOMAIN sent' PROVE sent'[i] = i
    <3>1. i \in 1 .. Len(sent) + 1
      BY <1>0, <2>1, <2>4
    <3>2. CASE i = Len(sent) + 1
      BY <1>0, <2>1, <2>3, <3>2
    <3>3. CASE i \in 1 .. Len(sent)
      BY <1>0, <2>1, <3>3 DEF Consecutive
    <3> QED  BY <1>0, <3>1, <3>2, <3>3
  <2>7. ASSUME NEW i \in DOMAIN buffer'
        PROVE  buffer'[i] = Len(sent') + i
    <3>1. i \in 1 .. Len(buffer) - 1
      BY <1>0, <2>1, <2>2, <2>4
    <3>2. buffer'[i] = buffer[i + 1] /\ i + 1 \in DOMAIN buffer
      BY <1>0, <2>1, <2>2, <3>1
    <3>3. buffer[i + 1] = Len(sent) + (i + 1)
      BY <2>1, <3>2 DEF Consecutive
    <3> QED  BY <1>0, <2>4, <3>1, <3>2, <3>3
  <2> QED  BY <2>1, <2>5, <2>6, <2>7 DEF Consecutive
<1> QED
  BY <1>1, <1>2, <1>3, <1>4, <1>5, <1>6, <1>7 DEF LogNext

(* udp_client hands the log to the network from its first line on, in order and
   without gaps, and while the task runs whatever was logged was handed over or is
   in the buffer. *)
THEOREM LogCorrect == LogSpec => []LogWithoutGaps
<1>1. LogInit => StartInv /\ Consecutive
  BY DEF LogInit, StartInv, Once, Ready, ReaderReady, Consecutive
<1>2. Consecutive => LogWithoutGaps
  BY DEF Consecutive, LogWithoutGaps
<1> QED
  BY <1>1, <1>2, TypeCorrect, StartStep, ConsecutiveStep, PTL DEF LogSpec

-----------------------------------------------------------------------------
(* MqttClient *)

\* A message is in the mailbox, or the task is about to print it.
Pending ==
    \/ callback # "none"
    \/ (subNotified \/ subTask = "read") /\ eventId = "DATA"
    \/ subTask = "print"

\* As long as no event came too early: what the handler and the task have of the
\* last message, and that all others are printed.
Mail ==
    /\ callback # "none" =>
          subTask = "take" /\ ~subNotified /\ eventId = "DATA"
    /\ subNotified => subTask = "take" /\ callback = "none"
    /\ callback = "data" => topic = arrived
    /\ (subNotified \/ subTask = "read") /\ eventId = "DATA" =>
          topic = arrived /\ data = arrived
    /\ subTask = "print" => topicShown = arrived /\ data = arrived
    /\ arrived = Len(shownData) + (IF Pending THEN 1 ELSE 0)
    /\ \A i \in 1 .. Len(shownData) : shownData[i] = <<i, i>>

MailInv ==
    /\ MqttTypeOK
    /\ mqttTasks \/ subTask = "none"
    /\ subTask = "none" => ~subNotified /\ callback = "none"
    /\ ~overtaken => Mail

\* Every action keeps the types.
LEMMA MqttTypeStep == MqttTypeOK /\ [MqttNext]_mqttVars => MqttTypeOK'
<1> SUFFICES ASSUME MqttTypeOK, [MqttNext]_mqttVars PROVE MqttTypeOK'
  OBVIOUS
<1> USE DEF MqttTypeOK
<1>1. CASE MqttIpEvent
  BY <1>1 DEF MqttIpEvent, linkVars, mailbox
<1>2. ASSUME NEW id \in Event, SubEvent(id), subLink' \in BOOLEAN,
             subscribed' \in BOOLEAN, subacks' \in 0 .. 2
      PROVE  MqttTypeOK'
  <2>1. subNotified' \in BOOLEAN /\ overtaken' \in BOOLEAN
    BY <1>2 DEF SubEvent, Busy
  <2> QED
    BY <1>2, <2>1 DEF SubEvent, subTaskVars, pubVars
<1>3. CASE SubConnected \/ SubDisconnected \/ SubAcknowledged \/ SubOther
  <2>1. /\ "CONNECTED" \in Event /\ "DISCONNECTED" \in Event /\ "SUBSCRIBED" \in Event
        /\ "ERROR" \in Event /\ "OTHER" \in Event
    BY DEF Event
  <2>2. subacks > 0 => subacks - 1 \in 0 .. 2
    OBVIOUS
  <2>3. subLink' \in BOOLEAN /\ subscribed' \in BOOLEAN /\ subacks' \in 0 .. 2
    <3>1. CASE SubConnected
      BY <3>1 DEF SubConnected
    <3>4. CASE SubDisconnected
      <4>1. subLink' \in BOOLEAN /\ subscribed' \in BOOLEAN
        BY <3>4, Zenon DEF SubDisconnected
      <4> QED
        BY <3>4, <4>1 DEF SubDisconnected
    <3>2. CASE SubAcknowledged
      BY <2>2, <3>2 DEF SubAcknowledged
    <3>3. CASE SubOther
      BY <3>3 DEF SubOther, linkVars
    <3> QED
      BY <1>3, <3>1, <3>2, <3>3, <3>4
  <2>4. \E id \in Event : SubEvent(id)
    BY <1>3, <2>1 DEF SubConnected, SubDisconnected, SubAcknowledged, SubOther
  <2> QED
    BY <1>2, <2>3, <2>4
<1>4. CASE DataEvent
  <2>1. "DATA" \in Event
    BY DEF Event
  <2>2. arrived + 1 \in 0 .. MaxArrived
    BY <1>4, MqttAssumption DEF DataEvent
  <2>3. overtaken' \in BOOLEAN
    BY <1>4 DEF DataEvent, Busy
  <2> QED
    BY <1>4, <2>1, <2>2, <2>3 DEF DataEvent, linkVars, subTaskVars, pubVars
<1>5. CASE CopyTopic \/ CopyData \/ Take
  BY <1>5 DEF CopyTopic, CopyData, Take, linkVars, subTaskVars, pubVars
<1>6. CASE SubscribeTopics
  BY <1>6 DEF SubscribeTopics, mailbox, pubVars
<1>10. CASE EndSub
  <2>1. subLink' \in BOOLEAN /\ subscribed' \in BOOLEAN
    BY <1>10, Zenon DEF EndSub
  <2>2. subacks' \in 0 .. 2
    BY <1>10 DEF EndSub
  <2> QED
    BY <1>10, <2>1, <2>2 DEF EndSub, mailbox, pubVars
<1>11. CASE PrintTopic
  BY <1>11 DEF PrintTopic, mailbox, linkVars, pubVars
<1>12. CASE IgnoreEvent
  BY <1>12 DEF IgnoreEvent, mailbox, linkVars, pubVars
<1>7. CASE PrintData
  <2>1. shownData' \in Seq((0 .. MaxArrived) \X (0 .. MaxArrived))
    BY <1>7 DEF PrintData
  <2> QED
    BY <1>7, <2>1 DEF PrintData, mailbox, linkVars, pubVars
<1>8. CASE PubConnected \/ PubDisconnected \/ PubStep
  BY <1>8 DEF PubConnected, PubDisconnected, PubStep, WaitBits, GetBits, Publish,
              subVars, linkVars, mailbox, subTaskVars
<1>9. CASE UNCHANGED mqttVars
  BY <1>9 DEF mqttVars, subVars, pubVars, linkVars, mailbox, subTaskVars
<1> QED
  BY <1>1, <1>3, <1>4, <1>5, <1>6, <1>7, <1>8, <1>9, <1>10,
     <1>11, <1>12 DEF MqttNext, SubStep

LEMMA MailStep == MailInv /\ [MqttNext]_mqttVars => MailInv'
<1> SUFFICES ASSUME MailInv, [MqttNext]_mqttVars PROVE MailInv'
  OBVIOUS
<1>13. MqttTypeOK'
  BY MqttTypeStep DEF MailInv
<1>0. /\ arrived \in Nat /\ Len(shownData) \in Nat
      /\ subTask \in {"none", "take", "read", "print", "ended"}
      /\ shownData \in Seq((0 .. MaxArrived) \X (0 .. MaxArrived))
      /\ data \in 0 .. MaxArrived /\ topicShown \in 0 .. MaxArrived
      /\ subNotified \in BOOLEAN
  BY DEF MailInv, MqttTypeOK
<1> DEFINE Kept == UNCHANGED <<mqttTasks, mailbox, subTaskVars, arrived, overtaken>>
<1>1. CASE MqttIpEvent
  <2>1. CASE mqttTasks
    BY <1>1, <1>13, <2>1
    DEF MqttIpEvent, MailInv, Mail, Pending, mailbox
  <2>2. CASE ~mqttTasks
    BY <1>1, <1>13, <2>2
    DEF MqttIpEvent, MailInv, Mail, Pending, mailbox
  <2> QED
    BY <2>1, <2>2
<1>2. ASSUME NEW id \in Event \ {"DATA"}, SubEvent(id) PROVE MailInv'
  <2>1. /\ subTask # "none" /\ callback = "none" /\ eventId' = id /\ id # "DATA"
        /\ overtaken' = (overtaken \/ Busy)
        /\ UNCHANGED <<mqttTasks, topic, data, callback, subTask, topicShown,
                       shownData, arrived>>
    BY <1>2 DEF SubEvent, SubClient, subTaskVars
  <2>2. ASSUME ~overtaken' PROVE Mail'
    <3>1. ~overtaken /\ subTask = "take" /\ ~subNotified
      BY <2>1, <2>2 DEF Busy
    <3>2. Mail /\ ~Pending
      BY <2>1, <3>1 DEF MailInv, Pending
    <3>3. ~Pending'
      BY <2>1, <3>1 DEF Pending
    <3> QED
      BY <2>1, <3>1, <3>2, <3>3 DEF Mail
  <2> QED
    BY <1>13, <2>1, <2>2 DEF MailInv
<1>3. SubConnected \/ SubDisconnected \/ SubAcknowledged \/ SubOther
         => \E id \in Event \ {"DATA"} : SubEvent(id)
  <2>1. {"CONNECTED", "DISCONNECTED", "SUBSCRIBED", "ERROR", "OTHER"}
           \subseteq Event \ {"DATA"}
    BY DEF Event
  <2> QED
    BY <2>1 DEF SubConnected, SubDisconnected, SubAcknowledged, SubOther
<1>4. CASE DataEvent
  <2>1. /\ subTask # "none" /\ callback = "none" /\ arrived' = arrived + 1
        /\ eventId' = "DATA" /\ callback' = "topic"
        /\ overtaken' = (overtaken \/ Busy)
        /\ UNCHANGED <<mqttTasks, topic, data, subNotified, subTask, topicShown,
                       shownData>>
    BY <1>4 DEF DataEvent, SubClient, subTaskVars
  <2>2. ASSUME ~overtaken' PROVE Mail'
    <3>1. ~overtaken /\ subTask = "take" /\ ~subNotified
      BY <2>1, <2>2 DEF Busy
    <3>2. Mail /\ ~Pending
      BY <2>1, <3>1 DEF MailInv, Pending
    <3>3. Pending'
      BY <2>1 DEF Pending
    <3>4. arrived' = Len(shownData') + 1
      BY <1>0, <2>1, <3>2 DEF Mail
    <3> QED
      BY <2>1, <3>1, <3>2, <3>3, <3>4 DEF Mail
  <2> QED
    BY <1>13, <2>1, <2>2 DEF MailInv
<1>5. CASE CopyTopic
  BY <1>5, <1>13 DEF CopyTopic, MailInv, Mail, Pending, subTaskVars
<1>6. CASE CopyData
  BY <1>6, <1>13 DEF CopyData, MailInv, Mail, Pending, subTaskVars
<1>7. CASE Take
  BY <1>7, <1>13 DEF Take, MailInv, Mail, Pending
<1>8. CASE SubscribeTopics \/ EndSub \/ IgnoreEvent
  BY <1>8, <1>13 DEF SubscribeTopics, EndSub, IgnoreEvent, MailInv, Mail, Pending, mailbox
<1>9. CASE PrintTopic
  BY <1>9, <1>13 DEF PrintTopic, MailInv, Mail, Pending, mailbox
<1>10. CASE PrintData
  <2>1. /\ subTask = "print" /\ subTask' = "take"
        /\ shownData' = Append(shownData, <<topicShown, data>>)
        /\ UNCHANGED <<mqttTasks, eventId, topic, data, callback, subNotified,
                       topicShown, arrived, overtaken>>
    BY <1>10 DEF PrintData, mailbox
  <2>2. ASSUME ~overtaken PROVE Mail'
    <3>1. Mail /\ Pending
      BY <2>1, <2>2 DEF MailInv, Pending
    <3>2. /\ topicShown = arrived /\ data = arrived /\ arrived = Len(shownData) + 1
          /\ callback = "none" /\ ~subNotified
      BY <2>1, <3>1 DEF Mail
    <3>3. ~Pending'
      BY <2>1, <3>2 DEF Pending
    <3>4. /\ Len(shownData') = arrived
          /\ \A i \in 1 .. Len(shownData) : shownData'[i] = shownData[i]
          /\ shownData'[arrived] = <<arrived, arrived>>
      BY <1>0, <2>1, <3>2
    <3>5. \A i \in 1 .. Len(shownData') : i = arrived \/ i \in 1 .. Len(shownData)
      BY <1>0, <3>2, <3>4
    <3> QED
      BY <1>0, <2>1, <3>1, <3>2, <3>3, <3>4, <3>5 DEF Mail
  <2> QED
    BY <1>13, <2>1, <2>2 DEF MailInv
<1>11. CASE Kept
  BY <1>11, <1>13 DEF MailInv, Mail, Pending, mailbox, subTaskVars
<1>12. PubConnected \/ PubDisconnected \/ PubStep \/ UNCHANGED mqttVars => Kept
  BY DEF PubConnected, PubDisconnected, PubStep, WaitBits, GetBits, Publish,
         mqttVars, subVars
<1> HIDE DEF Kept
<1> QED
  BY <1>1, <1>2, <1>3, <1>4, <1>5, <1>6, <1>7, <1>8, <1>9, <1>10, <1>11, <1>12
  DEF MqttNext, SubStep

\* PrintedWhole: as long as every event finds mqtt_sub waiting, the mailbox of
\* one place is enough, for any number of messages: each is printed once, in
\* order, its topic with its data.
THEOREM MailCorrect == MqttSpec => []PrintedWhole
<1>1. MqttInit => MailInv
  <2> SUFFICES ASSUME MqttInit PROVE MailInv
    OBVIOUS
  <2>1. <<>> \in Seq((0 .. MaxArrived) \X (0 .. MaxArrived)) /\ Len(<<>>) = 0
    OBVIOUS
  <2>2. "OTHER" \in Event /\ 0 \in 0 .. MaxArrived /\ 0 \in 0 .. 2
    BY MqttAssumption DEF Event
  <2>3. MqttTypeOK
    BY <2>1, <2>2 DEF MqttInit, MqttTypeOK
  <2>4. ~Pending
    BY DEF MqttInit, Pending
  <2>5. Mail
    BY <2>1, <2>4 DEF MqttInit, Mail
  <2> QED
    BY <2>3, <2>5 DEF MqttInit, MailInv
<1>2. MailInv => PrintedWhole
  <2> SUFFICES ASSUME MailInv, Mail PROVE PrintedWhole
    BY DEF MailInv, PrintedWhole
  <2>1. DOMAIN shownData = 1 .. Len(shownData) /\ Len(shownData) \in Nat
    BY DEF MailInv, MqttTypeOK
  <2>2. (subTask = "take" /\ ~subNotified /\ callback = "none") => ~Pending
    BY DEF Pending
  <2>3. ~Pending => Len(shownData) = arrived
    BY <2>1 DEF Mail
  <2> QED
    BY <2>1, <2>2, <2>3 DEF Mail, PrintedWhole
<1> QED
  BY <1>1, <1>2, MailStep, PTL DEF MqttSpec

-----------------------------------------------------------------------------
(* Startup *)

\* The positions in the sequences of steps.
LEMMA Positions ==
    /\ \A i \in 1 .. 3 : i \in {1, 2, 3}
    /\ \A i \in 1 .. 6 : i \in {1, 2, 3, 4, 5, 6}
    /\ \A i \in 1 .. 7 : i \in {1, 2, 3, 4, 5, 6, 7}
    /\ \A i \in 1 .. 9 : i \in {1, 2, 3, 4, 5, 6, 7, 8, 9}
OBVIOUS

\* What the order of the steps gives: a program creates its tasks at one step
\* only,
ServerOnce(m) ==
    \A i, j \in 1 .. Len(m) : m[i] = "server" /\ m[j] = "server" => i = j

\* or at none;
NoServer(m) == \A i \in 1 .. Len(m) : m[i] # "server"

\* a step comes before each one of a kind;
Precedes(first, then, m) ==
    \A i \in 1 .. Len(m) : m[i] = then => \E j \in 1 .. i : m[j] = first

LEMMA WebRootSteps ==
    \A m \in {HttpServerMain, WsServerMain} :
        /\ Len(m) \in Nat \ {0} /\ m[Len(m)] = "stay" /\ ServerOnce(m)
        /\ Precedes("buffers", "actions", m) /\ Precedes("buffers", "timer", m)
        /\ Precedes("buffers", "server", m) /\ Precedes("group", "register", m)
<1> DEFINE m == <<"buffers", "actions", "start", "group", "register", "wait",
                  "server", "timer", "stay">>
<1>1. /\ m[1] = "buffers" /\ m[2] = "actions" /\ m[3] = "start" /\ m[4] = "group"
      /\ m[5] = "register" /\ m[6] = "wait" /\ m[7] = "server" /\ m[8] = "timer"
      /\ m[9] = "stay" /\ Len(m) = 9
  OBVIOUS
<1>2. HttpServerMain = m /\ WsServerMain = m
  BY DEF HttpServerMain, WsServerMain
<1> HIDE DEF m
<1>3. \A i \in 1 .. 9 : i \in {1, 2, 3, 4, 5, 6, 7, 8, 9}
  BY Positions
<1>4. ServerOnce(m)
  BY <1>1, <1>3 DEF ServerOnce
<1>5. \A i \in 1 .. 9 : 1 \in 1 .. i
  OBVIOUS
<1>6. /\ Precedes("buffers", "actions", m) /\ Precedes("buffers", "timer", m)
      /\ Precedes("buffers", "server", m)
  BY <1>1, <1>5 DEF Precedes
<1>7. Precedes("group", "register", m)
  <2>1. \A i \in 1 .. 9 : m[i] = "register" => i = 5
    BY <1>1, <1>3
  <2>2. 4 \in 1 .. 5
    OBVIOUS
  <2> QED
    BY <1>1, <2>1, <2>2 DEF Precedes
<1> QED
  BY <1>1, <1>2, <1>4, <1>6, <1>7, SMTT(30)

LEMMA FtpSteps ==
    /\ Len(FtpMain) \in Nat \ {0} /\ NoServer(FtpMain)
    /\ Precedes("buffers", "timer", FtpMain)
<1>1. /\ FtpMain[1] = "buffers" /\ FtpMain[2] = "actions" /\ FtpMain[3] = "start"
      /\ FtpMain[4] = "register" /\ FtpMain[5] = "wait" /\ FtpMain[6] = "timer"
      /\ Len(FtpMain) = 6
  BY DEF FtpMain
<1>2. \A i \in 1 .. 6 : 1 \in 1 .. i
  OBVIOUS
<1> QED
  BY <1>1, <1>2, Positions DEF NoServer, Precedes

LEMMA SntpSteps ==
    /\ Len(SntpMain) \in Nat \ {0} /\ NoServer(SntpMain)
    /\ Precedes("group", "register", SntpMain)
<1>1. /\ SntpMain[1] = "group" /\ SntpMain[2] = "start" /\ SntpMain[3] = "register"
      /\ SntpMain[4] = "timer" /\ SntpMain[5] = "wait" /\ SntpMain[6] = "time"
      /\ SntpMain[7] = "stay" /\ Len(SntpMain) = 7
  BY DEF SntpMain
<1>2. \A i \in 1 .. 7 : 1 \in 1 .. i
  OBVIOUS
<1> QED
  BY <1>1, <1>2, Positions DEF NoServer, Precedes

LEMMA GatewaySteps ==
    \A m \in {UartMain, BleMain} : Len(m) \in Nat \ {0} /\ ServerOnce(m)
<1> DEFINE m == <<"actions", "start", "timer", "buffers", "server", "stay">>
<1>1. /\ m[1] = "actions" /\ m[2] = "start" /\ m[3] = "timer" /\ m[4] = "buffers"
      /\ m[5] = "server" /\ m[6] = "stay" /\ Len(m) = 6
  OBVIOUS
<1>2. UartMain = m /\ BleMain = m
  BY DEF UartMain, BleMain
<1> HIDE DEF m
<1> QED
  BY <1>1, <1>2, Positions DEF ServerOnce

LEMMA OtherSteps ==
    \A m \in {NoRouterMain, HttpClientMain, WsClientMain, MqttMain, LoggingMain} :
        Len(m) \in Nat \ {0} /\ NoServer(m)
<1>1. /\ NoRouterMain[1] = "actions" /\ NoRouterMain[2] = "start"
      /\ NoRouterMain[3] = "timer" /\ Len(NoRouterMain) = 3
  BY DEF NoRouterMain
<1> DEFINE m == <<"start", "register", "timer">>
<1>2. m[1] = "start" /\ m[2] = "register" /\ m[3] = "timer" /\ Len(m) = 3
  OBVIOUS
<1>3. HttpClientMain = m /\ WsClientMain = m /\ MqttMain = m /\ LoggingMain = m
  BY DEF HttpClientMain, WsClientMain, MqttMain, LoggingMain
<1> HIDE DEF m
<1> QED
  BY <1>1, <1>2, <1>3, Positions DEF NoServer

\* Main, program by program.
LEMMA Programs ==
    ASSUME NEW p \in Program
    PROVE  \/ p = "mesh_http_server" /\ Main[p] = HttpServerMain
           \/ p = "mesh_websocket_server" /\ Main[p] = WsServerMain
           \/ p = "mesh2uart" /\ Main[p] = UartMain
           \/ p = "mesh2ble" /\ Main[p] = BleMain
           \/ p = "no_router" /\ Main[p] = NoRouterMain
           \/ p = "mesh_ftp_client" /\ Main[p] = FtpMain
           \/ p = "mesh_sntp_client" /\ Main[p] = SntpMain
           \/ p = "mesh_http_client" /\ Main[p] = HttpClientMain
           \/ p = "mesh_websocket_client" /\ Main[p] = WsClientMain
           \/ p = "mesh_mqtt_client" /\ Main[p] = MqttMain
           \/ p = "mesh_remote_logging" /\ Main[p] = LoggingMain
BY DEF Program, Main

LEMMA Steps ==
    ASSUME NEW p \in Program
    PROVE  /\ Len(Main[p]) \in Nat \ {0}
           /\ p \in WebRoot =>
                /\ Main[p][Len(Main[p])] = "stay"
                /\ Precedes("buffers", "actions", Main[p])
                /\ Precedes("buffers", "timer", Main[p])
                /\ Precedes("buffers", "server", Main[p])
                /\ Precedes("group", "register", Main[p])
           /\ p = "mesh_ftp_client" => Precedes("buffers", "timer", Main[p])
           /\ p = "mesh_sntp_client" => Precedes("group", "register", Main[p])
           /\ ServerOnce(Main[p])
           /\ p \notin WebRoot \cup Gateway => NoServer(Main[p])
<1>1. \A m : NoServer(m) => ServerOnce(m)
  BY DEF NoServer, ServerOnce
<1>2. /\ p \in WebRoot <=> p \in {"mesh_http_server", "mesh_websocket_server"}
      /\ p \in Gateway <=> p \in {"mesh2uart", "mesh2ble"}
  BY DEF WebRoot, Gateway
<1>3. \/ p \in {"mesh_http_server", "mesh_websocket_server"}
           /\ Main[p] \in {HttpServerMain, WsServerMain}
      \/ p \in {"mesh2uart", "mesh2ble"} /\ Main[p] \in {UartMain, BleMain}
      \/ p = "mesh_ftp_client" /\ Main[p] = FtpMain
      \/ p = "mesh_sntp_client" /\ Main[p] = SntpMain
      \/ /\ p \in {"no_router", "mesh_http_client", "mesh_websocket_client",
                   "mesh_mqtt_client", "mesh_remote_logging"}
         /\ Main[p] \in {NoRouterMain, HttpClientMain, WsClientMain, MqttMain, LoggingMain}
  BY Programs
<1> QED
  BY <1>1, <1>2, <1>3, WebRootSteps, FtpSteps, SntpSteps, GatewaySteps, OtherSteps

\* app_main goes through its steps, and the tasks are created by the handler of
\* the first address, or by the step "server".
StartupInv ==
    /\ program \in Program
    /\ at \in 0 .. Len(Main[program])
    /\ heard \in BOOLEAN
    /\ spawned = IF program \in TaskStarter
                 THEN IF heard THEN 1 ELSE 0
                 ELSE IF Done("server") THEN 1 ELSE 0

LEMMA Booting ==
    program \in Program /\ at = 0 /\ heard = FALSE /\ spawned = 0 => StartupInv
<1> SUFFICES ASSUME program \in Program, at = 0, heard = FALSE, spawned = 0
             PROVE  StartupInv
  OBVIOUS
<1>1. 0 \in 0 .. Len(Main[program])
  BY Steps
<1>2. ~Done("server")
  BY DEF Done
<1> QED
  BY <1>1, <1>2 DEF StartupInv

\* One step more.
LEMMA Advance ==
    ASSUME StartupInv, at < Len(Main[program]), at' = at + 1, program' = program
    PROVE  /\ at' \in 0 .. Len(Main[program'])
           /\ \A step : Done(step)' <=> Done(step) \/ Turn(step)
           /\ Turn("server") => ~Done("server") /\ program \notin TaskStarter
<1>1. Len(Main[program]) \in Nat /\ at \in Nat /\ at + 1 \in 1 .. Len(Main[program])
  BY Steps DEF StartupInv
<1>2. 1 .. at + 1 = (1 .. at) \cup {at + 1}
  BY <1>1
<1>3. \A step : Done(step)' <=> Done(step) \/ Turn(step)
  BY <1>2 DEF Done, Turn
<1>4. ASSUME Turn("server") PROVE ~Done("server") /\ program \notin TaskStarter
  <2>1. Main[program][at + 1] = "server"
    BY <1>4 DEF Turn
  <2>2. \A i \in 1 .. at : i \in 1 .. Len(Main[program]) /\ i # at + 1
    BY <1>1
  <2>3. ~Done("server")
    BY <1>1, <2>1, <2>2, Steps DEF Done, ServerOnce, StartupInv
  <2>4. program \in TaskStarter => program \notin WebRoot \cup Gateway
    BY DEF TaskStarter, WebRoot, Gateway
  <2> QED
    BY <1>1, <2>1, <2>3, <2>4, Steps DEF NoServer, StartupInv
<1> QED
  BY <1>1, <1>3, <1>4

LEMMA StartupStep == StartupInv /\ [StartupNext]_startVars => StartupInv'
<1> SUFFICES ASSUME StartupInv, [StartupNext]_startVars PROVE StartupInv'
  OBVIOUS
<1>1. CASE MainStep
  <2>1. at < Len(Main[program]) /\ at' = at + 1 /\ program' = program /\ heard' = heard
        /\ spawned' = IF Turn("server") THEN spawned + 1 ELSE spawned
    BY <1>1 DEF MainStep
  <2>2. /\ at' \in 0 .. Len(Main[program'])
        /\ Done("server")' <=> Done("server") \/ Turn("server")
        /\ Turn("server") => ~Done("server") /\ program \notin TaskStarter
    BY <2>1, Advance
  <2>3. spawned' = IF program \in TaskStarter THEN IF heard THEN 1 ELSE 0
                   ELSE IF Done("server")' THEN 1 ELSE 0
    BY <2>1, <2>2 DEF StartupInv
  <2> QED
    BY <2>1, <2>2, <2>3 DEF StartupInv
<1>2. CASE Waited \/ TimeObtained
  <2>1. /\ at < Len(Main[program]) /\ at' = at + 1 /\ program' = program
        /\ heard' = heard /\ spawned' = spawned
        /\ Turn("wait") \/ Turn("time")
    BY <1>2 DEF Waited, TimeObtained, Turn
  <2>2. ~Turn("server")
    BY <2>1 DEF Turn
  <2>3. /\ at' \in 0 .. Len(Main[program'])
        /\ Done("server")' <=> Done("server")
    BY <2>1, <2>2, Advance
  <2> QED
    BY <2>1, <2>3 DEF StartupInv
<1>3. CASE StartUpIpEvent
  <2>1. /\ program' = program /\ at' = at /\ heard' = TRUE
        /\ spawned' = IF program \in TaskStarter /\ ~heard THEN spawned + 1 ELSE spawned
    BY <1>3 DEF StartUpIpEvent
  <2>2. Done("server")' <=> Done("server")
    BY <2>1 DEF Done
  <2> QED
    BY <2>1, <2>2 DEF StartupInv
<1>4. CASE Reboot
  <2>1. (program \in Program /\ at = 0 /\ heard = FALSE /\ spawned = 0)' => StartupInv'
    BY Booting, PTL
  <2> QED
    BY <1>4, <2>1 DEF Reboot, StartupInv
<1>5. CASE UNCHANGED <<program, at, heard, spawned>>
  BY <1>5 DEF StartupInv, Done
<1>6. /\ SendsToNull \/ TimeFailed => Reboot
      /\ NtpAnswer \/ TimeRetried \/ UNCHANGED startVars
            => UNCHANGED <<program, at, heard, spawned>>
  BY DEF SendsToNull, TimeFailed, NtpAnswer, TimeRetried, startVars
<1> QED
  BY <1>1, <1>2, <1>3, <1>4, <1>5, <1>6 DEF StartupNext

\* What was done before it.
LEMMA DoneBefore ==
    ASSUME StartupInv, NEW first, NEW then, Done(then),
           Precedes(first, then, Main[program])
    PROVE  Done(first)
<1>1. at \in Nat /\ \A i \in 1 .. at : i \in 1 .. Len(Main[program])
  BY Steps DEF StartupInv
<1>2. PICK i \in 1 .. at : Main[program][i] = then
  BY DEF Done
<1>3. PICK j \in 1 .. i : Main[program][j] = first
  BY <1>1, <1>2 DEF Precedes
<1>4. j \in 1 .. at
  BY <1>1
<1> QED
  BY <1>3, <1>4 DEF Done

\* StartupSafe: whatever callbacks come at whatever step of app_main, in any
\* number of boots, and however often the address is heard of, they and the tasks
\* find the objects they use, and the tasks are created once.
THEOREM StartupCorrect == StartupSpec => []StartupSafe
<1>1. StartupInit => StartupInv
  BY Booting DEF StartupInit
<1>2. StartupInv => StartupSafe
  <2> SUFFICES ASSUME StartupInv PROVE StartupSafe
    OBVIOUS
  <2>1. spawned <= 1
    BY DEF StartupInv
  <2> SUFFICES ASSUME program \notin Gateway
               PROVE  MeshUses \cup TimerUses \cup EventUses \cup TaskUses \subseteq Objects
    BY <2>1 DEF StartupSafe
  <2>2. program \in Program /\ spawned \in {0, 1}
    BY DEF StartupInv
  <2>3. Done("actions") /\ program \in WebRoot => Done("buffers")
    BY <2>2, DoneBefore, Steps
  <2>4. Done("timer") /\ program \in WebRoot \cup {"mesh_ftp_client"} => Done("buffers")
    BY <2>2, DoneBefore, Steps
  <2>5. Done("register") /\ program \in WebRoot \cup {"mesh_sntp_client"} => Done("group")
    BY <2>2, DoneBefore, Steps
  <2>6. program \in WebRoot => ~Returned
    BY <2>2, Steps DEF Returned
  <2>7. program \in WebRoot /\ spawned # 0 => Done("buffers")
    <3>1. program \in WebRoot => program \notin TaskStarter
      BY DEF WebRoot, TaskStarter
    <3> QED
      BY <2>2, <3>1, DoneBefore, Steps DEF StartupInv
  <2>8. MeshUses \subseteq Objects
    BY <2>3 DEF MeshUses, Objects
  <2>9. TimerUses \subseteq Objects
    BY <2>4 DEF TimerUses, Objects
  <2>10. EventUses \subseteq Objects
    BY <2>5 DEF EventUses, Objects
  <2>11. TaskUses \subseteq Objects
    <3>1. CASE program \in WebRoot
      BY <2>2, <2>6, <2>7, <3>1 DEF TaskUses, Objects
    <3>2. CASE program \notin WebRoot
      BY <2>2, <3>2 DEF TaskUses
    <3> QED
      BY <3>1, <3>2
  <2> QED
    BY <2>8, <2>9, <2>10, <2>11
<1> QED
  BY <1>1, <1>2, StartupStep, PTL DEF StartupSpec
=============================================================================
