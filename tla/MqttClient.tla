----------------------------- MODULE MqttClient ----------------------------
(***************************************************************************)
(* The two clients of a node of mesh_mqtt_client.  mqtt_sub gets what its  *)
(* event handler leaves in mqttBuf, a mailbox of one place with a task     *)
(* notification; mqtt_pub goes by a bit of an event group.  The library    *)
(* calls the handlers from its own tasks and connects again by itself.     *)
(***************************************************************************)
EXTENDS Naturals, Sequences

CONSTANT
    MaxArrived  \* bound: the messages that arrive

ASSUME MqttAssumption == MaxArrived \in Nat

VARIABLES
    mqttTasks,   \* tcp_task: both tasks were created
    subLink,     \* is the subscriber connected to the broker?
    subscribed,  \* has the broker its subscriptions?
    subacks,     \* acknowledgements of subscriptions on their way
    eventId,     \* mqttBuf.event_id
    topic,       \* mqttBuf.topic and
    data,        \* mqttBuf.data, by the message they are of
    callback,    \* the handler of DATA: "none", "topic" or "data" to be copied
    subNotified, \* the notification of mqtt_sub
    subTask,     \* "none", "take", "read", "print" or "ended"
    topicShown,  \* the topic that is printed
    arrived,     \* the number of messages that have arrived
    shownData,   \* what was printed, pairs of topic and data
    overtaken,   \* did an event come before the last one was dealt with?
    pubLink,     \* is the publisher connected?
    connectedBit,\* MQTT_CONNECTED_BIT
    pubTask      \* "none", "wait", "loop" or "publish"

mailbox == <<eventId, topic, data, callback, subNotified>>
subTaskVars == <<subTask, topicShown, shownData>>
linkVars == <<subLink, subscribed, subacks>>
subVars == <<linkVars, mailbox, subTaskVars, arrived, overtaken>>
pubVars == <<pubLink, connectedBit, pubTask>>
mqttVars == <<mqttTasks, subVars, pubVars>>

Event == {"CONNECTED", "DISCONNECTED", "SUBSCRIBED", "DATA", "ERROR", "OTHER"}

MqttTypeOK ==
    /\ {mqttTasks, subLink, subscribed, subNotified, overtaken, pubLink,
        connectedBit} \subseteq BOOLEAN
    /\ subacks \in 0 .. 2
    /\ eventId \in Event
    /\ callback \in {"none", "topic", "data"}
    /\ subTask \in {"none", "take", "read", "print", "ended"}
    /\ {topic, data, topicShown, arrived} \subseteq 0 .. MaxArrived
    /\ shownData \in Seq((0 .. MaxArrived) \X (0 .. MaxArrived))
    /\ pubTask \in {"none", "wait", "loop", "publish"}

MqttInit ==
    /\ mqttTasks = FALSE
    /\ subLink = FALSE /\ subscribed = FALSE /\ subacks = 0
    /\ eventId = "OTHER" /\ topic = 0 /\ data = 0 /\ callback = "none"
    /\ subNotified = FALSE /\ subTask = "none" /\ topicShown = 0
    /\ arrived = 0 /\ shownData = <<>> /\ overtaken = FALSE
    /\ pubLink = FALSE /\ connectedBit = FALSE /\ pubTask = "none"

\* ip_event_sta_got_ip_handler; the tasks start their clients at once.
MqttIpEvent ==
    /\ mqttTasks' = TRUE
    /\ IF mqttTasks
       THEN UNCHANGED <<subTask, pubTask>>
       ELSE subTask' = "take" /\ pubTask' = "wait"
    /\ UNCHANGED <<linkVars, mailbox, topicShown, shownData, arrived, overtaken,
                   pubLink, connectedBit>>

\* The library runs as long as mqtt_sub has not stopped it, one handler at a time.
SubClient == subTask \notin {"none", "ended"} /\ callback = "none"

Busy == subNotified \/ subTask # "take"

Notifies_NotConnected == {"DISCONNECTED", "ERROR"}
Notifies == {"CONNECTED", "DISCONNECTED", "ERROR"}

\* mqtt_event_handler of mqtt_sub.c for all events but DATA.
SubEvent(id) ==
    /\ SubClient
    /\ eventId' = id
    /\ subNotified' = (subNotified \/ id \in Notifies)
    /\ overtaken' = (overtaken \/ Busy)
    /\ UNCHANGED <<mqttTasks, topic, data, callback, subTaskVars, arrived,
                   pubVars>>

SubConnected ==
    /\ ~subLink
    /\ subLink' = TRUE /\ UNCHANGED <<subscribed, subacks>>
    /\ SubEvent("CONNECTED")

\* The broker forgets the subscriptions.
SubDisconnected ==
    /\ subLink
    /\ subLink' = FALSE /\ subscribed' = FALSE /\ subacks' = 0
    /\ SubEvent("DISCONNECTED")

SubAcknowledged ==
    /\ subacks > 0
    /\ subacks' = subacks - 1 /\ UNCHANGED <<subLink, subscribed>>
    /\ SubEvent("SUBSCRIBED")

SubOther ==
    /\ UNCHANGED linkVars
    /\ SubEvent("ERROR") \/ (~subLink /\ SubEvent("OTHER"))

\* The same handler for DATA: it sets the event id, copies the topic, copies the
\* data and notifies.
DataEvent ==
    /\ SubClient /\ subscribed /\ arrived < MaxArrived
    /\ arrived' = arrived + 1
    /\ eventId' = "DATA" /\ callback' = "topic"
    /\ overtaken' = (overtaken \/ Busy)
    /\ UNCHANGED <<mqttTasks, linkVars, topic, data, subNotified, subTaskVars,
                   pubVars>>

CopyTopic_NotifiesEarly ==
    /\ callback = "topic"
    /\ topic' = arrived /\ callback' = "data" /\ subNotified' = TRUE
    /\ UNCHANGED <<mqttTasks, linkVars, eventId, data, subTaskVars, arrived,
                   overtaken, pubVars>>
CopyTopic ==
    /\ callback = "topic"
    /\ topic' = arrived /\ callback' = "data"
    /\ UNCHANGED <<mqttTasks, linkVars, eventId, data, subNotified, subTaskVars,
                   arrived, overtaken, pubVars>>

CopyData ==
    /\ callback = "data"
    /\ data' = arrived /\ callback' = "none" /\ subNotified' = TRUE
    /\ UNCHANGED <<mqttTasks, linkVars, eventId, topic, subTaskVars, arrived,
                   overtaken, pubVars>>

\* ulTaskNotifyTake(pdTRUE) clears the notification, however often it was given.
Take ==
    /\ subTask = "take" /\ subNotified
    /\ subNotified' = FALSE /\ subTask' = "read"
    /\ UNCHANGED <<mqttTasks, linkVars, eventId, topic, data, callback,
                   topicShown, shownData, arrived, overtaken, pubVars>>

\* The client refuses to subscribe when it is not connected.
SubscribeTopics ==
    /\ subTask = "read" /\ eventId = "CONNECTED"
    /\ subscribed' = subLink
    /\ subacks' = IF subLink THEN 2 ELSE 0
    /\ subTask' = "take"
    /\ UNCHANGED <<mqttTasks, subLink, mailbox, topicShown, shownData, arrived,
                   overtaken, pubVars>>

\* The library's DISCONNECTED ends the loop; the client is stopped.
EndSub ==
    /\ subTask = "read" /\ eventId = "DISCONNECTED"
    /\ subTask' = "ended"
    /\ subLink' = FALSE /\ subscribed' = FALSE /\ subacks' = 0
    /\ UNCHANGED <<mqttTasks, mailbox, topicShown, shownData, arrived,
                   overtaken, pubVars>>

PrintTopic ==
    /\ subTask = "read" /\ eventId = "DATA"
    /\ topicShown' = topic /\ subTask' = "print"
    /\ UNCHANGED <<mqttTasks, linkVars, mailbox, shownData, arrived, overtaken,
                   pubVars>>

PrintData ==
    /\ subTask = "print"
    /\ shownData' = Append(shownData, <<topicShown, data>>)
    /\ subTask' = "take"
    /\ UNCHANGED <<mqttTasks, linkVars, mailbox, topicShown, arrived, overtaken,
                   pubVars>>

IgnoreEvent ==
    /\ subTask = "read" /\ eventId \in {"ERROR", "SUBSCRIBED", "OTHER"}
    /\ subTask' = "take"
    /\ UNCHANGED <<mqttTasks, linkVars, mailbox, topicShown, shownData, arrived,
                   overtaken, pubVars>>

\* mqtt_event_handler of mqtt_pub.c
PubConnected ==
    /\ pubTask # "none" /\ ~pubLink
    /\ pubLink' = TRUE /\ connectedBit' = TRUE
    /\ UNCHANGED <<mqttTasks, subVars, pubTask>>

PubDisconnected ==
    /\ pubLink
    /\ pubLink' = FALSE /\ connectedBit' = FALSE
    /\ UNCHANGED <<mqttTasks, subVars, pubTask>>

\* xEventGroupWaitBits leaves the bit set.
WaitBits_Clears ==
    /\ pubTask = "wait" /\ connectedBit
    /\ pubTask' = "loop" /\ connectedBit' = FALSE
    /\ UNCHANGED <<mqttTasks, subVars, pubLink>>
WaitBits ==
    /\ pubTask = "wait" /\ connectedBit
    /\ pubTask' = "loop"
    /\ UNCHANGED <<mqttTasks, subVars, pubLink, connectedBit>>

\* Without the bit the loop waits another 1000 ticks.
GetBits ==
    /\ pubTask = "loop" /\ connectedBit
    /\ pubTask' = "publish"
    /\ UNCHANGED <<mqttTasks, subVars, pubLink, connectedBit>>

Publish ==
    /\ pubTask = "publish"
    /\ pubTask' = "loop"
    /\ UNCHANGED <<mqttTasks, subVars, pubLink, connectedBit>>

SubStep ==
    CopyTopic \/ CopyData \/ Take \/ SubscribeTopics \/ EndSub \/ PrintTopic
    \/ PrintData \/ IgnoreEvent

PubStep == WaitBits \/ GetBits \/ Publish

MqttNext ==
    \/ MqttIpEvent
    \/ SubConnected \/ SubDisconnected \/ SubAcknowledged \/ SubOther
    \/ DataEvent
    \/ SubStep
    \/ PubConnected \/ PubDisconnected
    \/ PubStep

MqttSpec ==
    /\ MqttInit /\ [][MqttNext]_mqttVars
    /\ WF_mqttVars(SubStep) /\ WF_mqttVars(PubStep)

(* The mailbox is good as long as every event finds the task waiting: each
   message is printed once, in order, its topic with its data.  An event that
   comes earlier replaces the id or the text of the one before. *)
PrintedWhole ==
    ~overtaken =>
        /\ \A i \in DOMAIN shownData : shownData[i] = <<i, i>>
        /\ (subTask = "take" /\ ~subNotified /\ callback = "none")
              => Len(shownData) = arrived

(* "Every node acts as an mqtt client": a node that is connected subscribes, if
   no other event replaces CONNECTED before mqtt_sub has read it, and unless
   mqtt_sub has ended, as it does at the first disconnection. *)
Subscribes ==
    (subLink /\ ~overtaken) ~> (subscribed \/ overtaken \/ ~subLink)

(* However often the connection was lost before, a publisher that stays
   connected goes on to publish. *)
PublishesAgain == <>[]pubLink => []<>(pubTask = "publish")
=============================================================================
