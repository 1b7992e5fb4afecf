---------------------------- MODULE FtpUploader ----------------------------
(***************************************************************************)
(* The root of mesh_ftp_client.  Its own timer and the reports of the      *)
(* children (ToRoot) append lines to a file; after each of its own the     *)
(* timer asks ftp_client, through a queue of one, to put the whole file to *)
(* the server.  The first time the timer creates ftp_client and removes an *)
(* old file; the reports come in another task between any two of its       *)
(* steps.  A line is a report, or Own.                                     *)
(***************************************************************************)
EXTENDS ToRoot, SequencesExt

CONSTANTS
    Own,     \* a line of the root's timer
    Old,     \* a line of an earlier boot
    FLASH    \* the lines that fit in the file system

ASSUME FtpAssumption ==
    /\ FLASH \in Nat \ {0}
    /\ Own # Old /\ Own \notin Report /\ Old \notin Report

VARIABLES
    appMain,        \* "start", "wait" for the address, "run" the timer
    wifiConnected,  \* wifi_connected
    timer,          \* what print_system_info_timercb does next: "first" until its
                    \* first call, then "create", "remove", "append" or "ask"
    file,           \* the file on the flash
    begun,          \* the reports accepted when the old file was removed
    unwritten,      \* was a report after that not written?
    queue,          \* is there a request in xQueueFTP?
    client,         \* "none", "receive", "connect", "put" or "ended"
    putFrom,        \* length of the file when the put began
    server          \* the file on the server, of this boot

addressVars == <<appMain, wifiConnected>>
fileVars == <<file, begun, unwritten>>
uploadVars == <<client, putFrom, server>>
ftpOnlyVars == <<addressVars, timer, fileVars, queue, uploadVars>>
ftpVars == <<ftpOnlyVars, toRootVars>>

FtpTypeOK ==
    /\ appMain \in {"start", "wait", "run"}
    /\ timer \in {"first", "create", "remove", "append", "ask"}
    /\ {wifiConnected, unwritten, queue} \subseteq BOOLEAN
    /\ file \in Seq(Report \union {Own, Old}) /\ Len(file) <= FLASH
    /\ begun \in 0 .. Len(printed)
    /\ client \in {"none", "receive", "connect", "put", "ended"}
    /\ putFrom \in 0 .. FLASH
    /\ server \in Seq(Report \union {Own})

\* The flash may hold a file of an earlier boot.
FtpInit ==
    /\ appMain = "start" /\ wifiConnected = FALSE /\ timer = "first"
    /\ file \in {<<>>, <<Old>>}
    /\ begun = 0 /\ unwritten = FALSE
    /\ queue = FALSE /\ client = "none" /\ putFrom = 0 /\ server = <<>>

\* esp_event_handler_instance_register; the mesh runs already.
RegisterIpEvent ==
    /\ appMain = "start"
    /\ appMain' = "wait"
    /\ UNCHANGED <<wifiConnected, timer, fileVars, queue, uploadVars,
                   toRootVars>>

\* An address that came before the registration is not heard of.
GotIp ==
    /\ appMain # "start"
    /\ wifiConnected' = TRUE
    /\ UNCHANGED <<appMain, timer, fileVars, queue, uploadVars,
                   toRootVars>>

StartTimer ==
    /\ appMain = "wait" /\ wifiConnected
    /\ appMain' = "run"
    /\ UNCHANGED <<wifiConnected, timer, fileVars, queue, uploadVars,
                   toRootVars>>

\* fopen "a+", fprintf; what the flash has no room for is not written.
Appended_Truncates(lines, line) == <<line>>
Appended(lines, line) ==
    IF Len(lines) < FLASH THEN Append(lines, line) ELSE lines

\* The first call of the callback sets srcFileName.
FirstCall ==
    /\ appMain = "run" /\ timer = "first"
    /\ timer' = "create"
    /\ UNCHANGED <<addressVars, fileVars, queue, uploadVars, toRootVars>>

Named == timer # "first"

CreateClient ==
    /\ timer = "create"
    /\ timer' = "remove" /\ client' = "receive"
    /\ UNCHANGED <<addressVars, fileVars, queue, putFrom, server,
                   toRootVars>>

\* ftp_client_task is set when it has been done.
ftpClientTask == timer \in {"append", "ask"}

\* stat, unlink: what was appended since srcFileName was set is removed too.
RemoveOld_Kept ==
    /\ timer = "remove"
    /\ timer' = "append"
    /\ file' = file /\ begun' = Len(printed)
    /\ UNCHANGED <<addressVars, unwritten, queue, uploadVars, toRootVars>>
RemoveOld ==
    /\ timer = "remove"
    /\ timer' = "append"
    /\ file' = <<>> /\ begun' = Len(printed)
    /\ UNCHANGED <<addressVars, unwritten, queue, uploadVars, toRootVars>>

\* Each later call begins here: srcFileName and the task are there.
AppendOwn(opened) ==
    /\ timer = "append"
    /\ timer' = "ask"
    /\ file' = IF opened THEN Appended(file, Own) ELSE file
    /\ UNCHANGED <<addressVars, begun, unwritten, queue, uploadVars,
                   toRootVars>>

\* Into a queue of one, without waiting.
Ask_Once ==
    /\ timer = "ask"
    /\ timer' = "append" /\ queue' = (queue \/ Len(file) <= 1)
    /\ UNCHANGED <<addressVars, fileVars, uploadVars, toRootVars>>
Ask ==
    /\ timer = "ask"
    /\ timer' = "append" /\ queue' = TRUE
    /\ UNCHANGED <<addressVars, fileVars, uploadVars, toRootVars>>

\* print_system_info_timercb at layer 1.
RootTimer ==
    \/ FirstCall \/ CreateClient \/ RemoveOld
    \/ \E opened \in BOOLEAN : AppendOwn(opened)
    \/ Ask

\* raw_to_root_handler: a report counts as received also when the file could not
\* be opened, as it cannot before srcFileName is set.
RawReport(c, answered, opened) ==
    /\ ReceiveRaw(c, answered)
    /\ opened => Named
    /\ IF AcceptsRaw(RawSeq(c))
       THEN /\ file' = IF opened THEN Appended(file, RawSeq(c)) ELSE file
            /\ unwritten' = (unwritten \/ (ftpClientTask /\ file' = file))
       ELSE UNCHANGED <<file, unwritten>>
    /\ UNCHANGED <<addressVars, timer, begun, queue, uploadVars>>

ReceiveLayer ==
    /\ client = "receive" /\ queue
    /\ queue' = FALSE
    /\ client' = "connect"
    /\ UNCHANGED <<addressVars, timer, fileVars, putFrom, server,
                   toRootVars>>

\* Connection or login fail: the task deletes itself.
ConnectFails ==
    /\ client = "connect"
    /\ client' = "ended"
    /\ UNCHANGED <<addressVars, timer, fileVars, queue, putFrom,
                   server, toRootVars>>

Login ==
    /\ client = "connect"
    /\ client' = "put" /\ putFrom' = Len(file)
    /\ UNCHANGED <<addressVars, timer, fileVars, queue, server,
                   toRootVars>>

\* The file is read while others append to it: the server gets the lines there
\* were, and perhaps some of the new ones.
Put(got) ==
    /\ client = "put"
    /\ got \in putFrom .. Len(file)
    /\ server' = SubSeq(file, 1, got)
    /\ client' = "receive"
    /\ UNCHANGED <<addressVars, timer, fileVars, queue, putFrom,
                   toRootVars>>

\* A broken transfer is not noticed.
PutBreaks(got) ==
    /\ client = "put"
    /\ got < putFrom
    /\ server' = SubSeq(file, 1, got)
    /\ client' = "receive"
    /\ UNCHANGED <<addressVars, timer, fileVars, queue, putFrom,
                   toRootVars>>

FtpNext ==
    \/ RegisterIpEvent \/ GotIp \/ StartTimer
    \/ RootTimer
    \/ \E c \in Child :
        \/ (SendToRoot(c) \/ LoseCopy(c)) /\ UNCHANGED ftpOnlyVars
        \/ \E answered, opened \in BOOLEAN : RawReport(c, answered, opened)
    \/ ReceiveLayer \/ ConnectFails \/ Login
    \/ \E got \in 0 .. FLASH : Put(got) \/ PutBreaks(got)

\* The timer goes on, the task runs, and not every transfer breaks.
FtpSpec ==
    /\ ToRootInit /\ FtpInit /\ [][FtpNext]_ftpVars
    /\ WF_ftpVars(RootTimer)
    /\ WF_ftpVars(ReceiveLayer)
    /\ WF_ftpVars(ConnectFails \/ Login)
    /\ SF_ftpVars(\E got \in 0 .. FLASH : Put(got))

(* The server's file is always the beginning of the file on the flash: uploads
   that read while lines are appended, or break, mix or skip nothing.  And it
   holds nothing of an earlier boot, although the task is created before the old
   file is removed. *)
ServerIsPrefix ==
    /\ IsPrefix(server, file)
    /\ \A i \in DOMAIN server : server[i] # Old

\* The places of the reports in the file.
Merged == {i \in DOMAIN file : file[i] \notin {Own, Old}}

\* The reports that were accepted after the old file was removed.
Recent == {i \in DOMAIN printed : i > begun}

(* "Messages from leaf nodes ... reach the root node where they are merged":
   every report the root accepted after the timer had removed the old file is in
   the file once, in the order of acceptance, and no earlier one is, unless one of
   them could not be written, because the file could not be opened or was full.
   A report accepted earlier is lost: when srcFileName was set already it was
   appended to the file that is removed. *)
AcceptedIsMerged ==
    ftpClientTask /\ ~unwritten =>
        \E place \in [Recent -> Merged] :
            /\ \A i \in Recent : file[place[i]] = printed[i]
            /\ \A i, j \in Recent : i < j => place[i] < place[j]
            /\ \A k \in Merged : \E i \in Recent : place[i] = k

(* "The root node stores the file on the FTP server": each line comes to the
   server, unless the task has ended.  It ends with the first connection or
   login that fails, and nothing starts it again. *)
Uploaded ==
    \A n \in 1 .. FLASH :
        (Len(file) >= n /\ ftpClientTask)
            ~> (Len(server) >= n \/ client = "ended")
=============================================================================
