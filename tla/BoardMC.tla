------------------------------ MODULE BoardMC ------------------------------
(***************************************************************************)
(* A board that runs one of the smaller applications, for TLC.  The other  *)
(* applications' variables keep their initial values.                      *)
(***************************************************************************)
EXTENDS UartGateway, BleGateway, FtpUploader, RemoteLogging, MqttClient,
        Startup, HelloClients, WebServer

VARIABLE app

\* "ftp" stands for no_router too, which does the same without a file.
\* "mqtt_sub" and "mqtt_pub" are the two clients of mesh_mqtt_client, which share
\* nothing but the event that starts them: one of them stands still.
\* "startup" is app_main of any of them, "hello" the clients that only send.
Application == {"mesh2uart", "mesh2ble", "ftp", "logging", "mqtt_sub",
                "mqtt_pub", "startup", "hello", "web"}

Init ==
    /\ app \in Application
    /\ UartInit /\ BleInit /\ ToRootInit /\ FtpInit /\ LogInit /\ MqttInit
    /\ StartupInit /\ HelloInit /\ WebInit
    \* one initial state of an application that does not run is enough
    /\ app # "mesh2uart" => interface = "uart"
    /\ app # "ftp" => file = <<>>
    /\ app # "startup" => program = "mesh_ftp_client"
    /\ app # "hello" => protocol = "http"

gatewayVars == <<uartVars, bleVars>>
clientVars == <<ftpVars, logVars, mqttVars>>
otherVars == <<startVars, helloVars, webVars>>

Uart ==
    /\ app = "mesh2uart" /\ UartNext
    /\ UNCHANGED <<app, bleVars, ftpVars, logVars, mqttVars, otherVars>>
Ble ==
    /\ app = "mesh2ble" /\ BleNext
    /\ UNCHANGED <<app, uartVars, ftpVars, logVars, mqttVars, otherVars>>
Ftp ==
    /\ app = "ftp" /\ FtpNext
    /\ UNCHANGED <<app, uartVars, bleVars, logVars, mqttVars, otherVars>>
Logging ==
    /\ app = "logging" /\ LogNext
    /\ UNCHANGED <<app, uartVars, bleVars, ftpVars, mqttVars, otherVars>>
Mqtt ==
    /\ \/ app = "mqtt_sub" /\ UNCHANGED <<pubLink, connectedBit>>
       \/ app = "mqtt_pub" /\ UNCHANGED <<linkVars, mailbox, overtaken>>
    /\ MqttNext
    /\ UNCHANGED <<app, uartVars, bleVars, ftpVars, logVars, otherVars>>

Start ==
    /\ app = "startup" /\ StartupNext
    /\ UNCHANGED <<app, gatewayVars, clientVars, helloVars, webVars>>
Hello ==
    /\ app = "hello" /\ HelloNext
    /\ UNCHANGED <<app, gatewayVars, clientVars, startVars, webVars>>
WebPages ==
    /\ app = "web" /\ WebNext
    /\ UNCHANGED <<app, gatewayVars, clientVars, startVars, helloVars>>

Next == Uart \/ Ble \/ Ftp \/ Logging \/ Mqtt \/ Start \/ Hello \/ WebPages

vars == <<app, gatewayVars, clientVars, otherVars>>

\* The fairness of each application, for the board that runs it.
Fairness ==
    /\ WF_uartVars(app = "mesh2uart" /\ WriteToHost)
    /\ WF_ftpVars(app = "ftp" /\ RootTimer)
    /\ WF_ftpVars(app = "ftp" /\ ReceiveLayer)
    /\ WF_ftpVars(app = "ftp" /\ (ConnectFails \/ Login))
    /\ SF_ftpVars(app = "ftp" /\ \E got \in 0 .. FLASH : Put(got))
    /\ WF_logVars(app = "logging" /\ (SendLine \/ SendFails))
    /\ WF_mqttVars(app = "mqtt_sub" /\ SubStep)
    /\ WF_mqttVars(app = "mqtt_pub" /\ PubStep)
    /\ WF_startVars(app = "startup" /\ (MainStep \/ Waited))
    /\ WF_startVars(app = "startup"
                      /\ (TimeObtained \/ TimeRetried \/ TimeFailed))
    /\ WF_helloVars(app = "hello" /\ (TcpConnect \/ TcpWrite \/ TcpWriteFails))
    /\ WF_helloVars(app = "hello" /\ (HttpPost \/ WsWait \/ WsSend))
    /\ WF_helloVars(app = "hello" /\ (LibraryConnects \/ LibraryDisconnects))
    /\ WF_webVars(app = "web" /\ (Accept \/ QueueClient))
    /\ WF_webVars(app = "web" /\ (TakeClient \/ SendFile \/ CloseUnanswered
                                     \/ UpgradeWebsocket))

Spec == Init /\ [][Next]_vars /\ Fairness
=============================================================================
