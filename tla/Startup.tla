------------------------------ MODULE Startup ------------------------------
(***************************************************************************)
(* app_main of every application: the objects it creates, what it starts   *)
(* and what it waits for, in the order of the code, while the mesh, the    *)
(* timer and the Wi-Fi driver call back.  A callback that sends to a       *)
(* message buffer or queue not yet created fails an assertion of FreeRTOS, *)
(* and the board boots again.  The roots are built with CONFIG_MESH_ROOT.  *)
(***************************************************************************)
EXTENDS Naturals, Sequences

CONSTANTS
    RETRIES,  \* retry_count of obtain_time (10)
    MaxBoots  \* bound on the boots

ASSUME StartupAssumption == RETRIES \in Nat \ {0} /\ MaxBoots \in Nat

VARIABLES
    program,  \* the application of the board
    at,       \* the steps of app_main that are done
    heard,    \* tcp_task: the handler of the address was called
    bit,      \* WIFI_CONNECTED_BIT, or wifi_connected
    spawned,   \* how often the tasks were created
    answered, \* has the NTP server answered?
    retry,    \* of obtain_time
    boots

startVars == <<program, at, heard, bit, spawned, answered, retry, boots>>

(* The steps: "buffers" and "group" create the message buffers (or the      *)
(* queue) and the event group; "actions" registers the handlers of mesh     *)
(* messages, "register" that of the address; "start" is esp_mesh_lite_start, *)
(* "timer" starts the report timer, "server" creates the tasks; "wait" waits *)
(* for an address, "time" for the time of day; "stay" is an endless loop.   *)

HttpServerMain_Stackless ==
    <<"buffers", "actions", "start", "group", "register", "wait", "server",
      "timer">>

HttpServerMain_GroupLate ==
    <<"buffers", "actions", "start", "register", "group", "wait", "server",
      "timer", "stay">>

HttpServerMain ==
    <<"buffers", "actions", "start", "group", "register", "wait", "server",
      "timer", "stay">>
WsServerMain ==
    <<"buffers", "actions", "start", "group", "register", "wait", "server",
      "timer", "stay">>
UartMain == <<"actions", "start", "timer", "buffers", "server", "stay">>
BleMain == <<"actions", "start", "timer", "buffers", "server", "stay">>
NoRouterMain == <<"actions", "start", "timer">>
FtpMain == <<"buffers", "actions", "start", "register", "wait", "timer">>

SntpMain == <<"group", "start", "register", "timer", "wait", "time", "stay">>
HttpClientMain == <<"start", "register", "timer">>
WsClientMain == <<"start", "register", "timer">>
MqttMain == <<"start", "register", "timer">>
LoggingMain == <<"start", "register", "timer">>

Main ==
    [mesh_http_server |-> HttpServerMain, mesh_websocket_server |-> WsServerMain,
     mesh2uart |-> UartMain, mesh2ble |-> BleMain, no_router |-> NoRouterMain,
     mesh_ftp_client |-> FtpMain, mesh_sntp_client |-> SntpMain,
     mesh_http_client |-> HttpClientMain, mesh_websocket_client |-> WsClientMain,
     mesh_mqtt_client |-> MqttMain, mesh_remote_logging |-> LoggingMain]

Program == DOMAIN Main
Gateway == {"mesh2uart", "mesh2ble"}
WebRoot == {"mesh_http_server", "mesh_websocket_server"}

\* The handler of the address creates the tasks itself.
TaskStarter == {"mesh_http_client", "mesh_websocket_client",
                "mesh_mqtt_client", "mesh_remote_logging"}

Done(step) == \E i \in 1 .. at : Main[program][i] = step

Turn(step) == at < Len(Main[program]) /\ Main[program][at + 1] = step

\* app_main has returned, and its local variables are gone.
Returned == at = Len(Main[program]) /\ Main[program][at] # "stay"

Objects ==
    {o \in {"buffers", "group"} : Done(o)}
        \cup (IF Returned THEN {} ELSE {"stack"})

\* What the callbacks use that may come now.
MeshUses ==
    IF Done("start") /\ Done("actions") /\ program \in Gateway \cup WebRoot
    THEN {"buffers"} ELSE {}

TimerUses ==
    IF Done("timer") /\ program \in Gateway \cup WebRoot \cup {"mesh_ftp_client"}
    THEN {"buffers"} ELSE {}

EventUses ==
    IF Done("register") /\ program \in WebRoot \cup {"mesh_sntp_client"}
    THEN {"group"} ELSE {}

\* The servers got a pointer to cparam0, a local variable of app_main.
TaskUses ==
    CASE spawned > 0 /\ program \in WebRoot -> {"buffers", "stack"}
      [] spawned > 0 /\ program \in Gateway -> {"buffers"}
      [] OTHER -> {}

StartupTypeOK ==
    /\ program \in Program
    /\ at \in 0 .. Len(Main[program])
    /\ {heard, bit, answered} \subseteq BOOLEAN
    /\ spawned \in Nat
    /\ retry \in 0 .. RETRIES
    /\ boots \in 0 .. MaxBoots

StartupInit ==
    /\ program \in Program
    /\ at = 0 /\ heard = FALSE /\ bit = FALSE /\ spawned = 0 /\ answered = FALSE
    /\ retry = 0 /\ boots = 0

Reboot ==
    /\ boots < MaxBoots
    /\ boots' = boots + 1
    /\ at' = 0 /\ heard' = FALSE /\ bit' = FALSE /\ spawned' = 0
    /\ answered' = FALSE /\ retry' = 0
    /\ UNCHANGED program

\* A step that does not wait.  A new event group has no bit set.
MainStep ==
    /\ at < Len(Main[program])
    /\ ~Turn("wait") /\ ~Turn("time")
    /\ at' = at + 1
    /\ bit' = (bit /\ ~Turn("group"))
    /\ spawned' = IF Turn("server") THEN spawned + 1 ELSE spawned
    /\ UNCHANGED <<program, heard, answered, retry, boots>>

\* xEventGroupWaitBits, or the loop over wifi_connected.
Waited ==
    /\ Turn("wait") /\ bit
    /\ at' = at + 1
    /\ UNCHANGED <<program, heard, bit, spawned, answered, retry, boots>>

\* An address, the first or another one.  Nobody hears of those that come
\* before the handler is registered.
StartUpIpEvent ==
    /\ Done("register")
    /\ heard' = TRUE
    /\ bit' = (bit \/ ~heard)
    /\ spawned' = IF program \in TaskStarter /\ ~heard THEN spawned + 1 ELSE spawned
    /\ UNCHANGED <<program, at, answered, retry, boots>>

\* A mesh message or the timer, before the buffer it is sent to is there.
SendsToNull ==
    /\ "buffers" \in (MeshUses \cup TimerUses) \ Objects
    /\ Reboot

NtpAnswer ==
    /\ Turn("time") /\ ~answered
    /\ answered' = TRUE
    /\ UNCHANGED <<program, at, heard, bit, spawned, retry, boots>>

\* obtain_time: the time is set.
TimeObtained ==
    /\ Turn("time") /\ answered
    /\ at' = at + 1
    /\ UNCHANGED <<program, heard, bit, spawned, answered, retry, boots>>

\* It is not, and the loop waits once more.
TimeRetried ==
    /\ Turn("time") /\ ~answered /\ retry + 1 < RETRIES
    /\ retry' = retry + 1
    /\ UNCHANGED <<program, at, heard, bit, spawned, answered, boots>>

\* ESP_FAIL, and ESP_ERROR_CHECK aborts the program.
TimeFailed ==
    /\ Turn("time") /\ ~answered /\ retry + 1 = RETRIES
    /\ Reboot

StartupNext ==
    \/ MainStep \/ Waited \/ StartUpIpEvent \/ SendsToNull
    \/ NtpAnswer \/ TimeObtained \/ TimeRetried \/ TimeFailed

\* The main task runs.
StartupSpec ==
    /\ StartupInit /\ [][StartupNext]_startVars
    /\ WF_startVars(MainStep \/ Waited)
    /\ WF_startVars(TimeObtained \/ TimeRetried \/ TimeFailed)

(* Whatever arrives at whatever step of app_main, callbacks and tasks find the
   objects they use, also the variables of app_main that were passed to a task,
   and no address starts the tasks twice.  The gateways start the mesh before
   they create their buffers. *)
StartupSafe ==
    /\ spawned <= 1
    /\ program \notin Gateway =>
           MeshUses \cup TimerUses \cup EventUses \cup TaskUses \subseteq Objects

\* The application does its work: its tasks are there, or it prints the time, or
\* its timer reports.
InService ==
    CASE program \in Gateway \cup WebRoot \cup TaskStarter -> spawned > 0
      [] program = "mesh_sntp_client" -> Done("time")
      [] OTHER -> Done("timer")

(* In each boot the application comes to do its work once an address was heard
   of (the gateways and no_router wait for none), in whichever order the address,
   the steps of app_main and the answer of the NTP server come, unless the board
   boots again (at = 0): a gateway that sent to a missing buffer, an NTP server
   that did not answer in time (also in the last boot of the bound). *)
ServesOnceHeard ==
    (heard \/ program \in Gateway \cup {"no_router"})
        ~> (InService \/ at = 0 \/ retry + 1 = RETRIES)
=============================================================================
