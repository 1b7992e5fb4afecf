---------------------------- MODULE UartGateway ----------------------------
(***************************************************************************)
(* The root of mesh2uart between the mesh and the host computer.  Downward *)
(* the reports of the nodes go through xMessageBufferTx to the task that   *)
(* writes them; upward the characters of the host are gathered into lines, *)
(* which go through xMessageBufferRx to app_main and to all nodes.  Module *)
(* Broadcast continues from there.                                         *)
(***************************************************************************)
EXTENDS Naturals, Sequences

CONSTANTS
    BUF_SIZE,      \* the longest line, and the longest report of uart_tx
    CDC_BUFSIZE,   \* CONFIG_TINYUSB_CDC_RX_BUFSIZE, the same for tusb_tx
    RX_MESSAGES,   \* the lines that fit in xMessageBufferRx
    TX_MESSAGES,   \* the reports that fit in xMessageBufferTx
    FIFO,          \* the characters the driver holds
    LineLength,    \* the lengths of the lines the host types
    ReportSize,    \* the lengths of the reports
    MaxLines,      \* bound: the lines the host types
    MaxReports     \* bound: the reports that arrive

ASSUME UartAssumption ==
    /\ {BUF_SIZE, CDC_BUFSIZE, RX_MESSAGES, TX_MESSAGES} \subseteq Nat \ {0}
    /\ {FIFO, MaxLines, MaxReports} \subseteq Nat
    /\ LineLength \subseteq Nat \ {0}
    /\ ReportSize \subseteq 1 .. BUF_SIZE

VARIABLES
    interface,  \* "uart" or "usb", CONFIG_UART_INTERFACE
    typed,      \* the lengths of the lines the host has typed
    fifo,       \* characters in the driver
    work,       \* the rest of the chunk that was read from it
    rxBuffer,   \* rx_buffer up to rx_offset
    mRx,        \* xMessageBufferRx
    broadcast,  \* the lines app_main has sent to all nodes
    refused,    \* has a line not been sent because xMessageBufferRx was full?
    mTx,        \* xMessageBufferTx, each report by its length
    reported    \* how many reports have arrived

uartVars == <<interface, typed, fifo, work, rxBuffer, mRx, broadcast, refused,
              mTx, reported>>

\* A character is known by its line and its place there.  0x0d has place 0;
\* 0x0a, which the code skips, is left out.
Line(l, n) == [k \in 1 .. n |-> <<l, k>>]
Ends(c) == c[2] = 0
Character == (1 .. MaxLines) \X (0 .. FIFO)

Kept_LastReplaced(buffer, c) ==
    IF Len(buffer) < BUF_SIZE THEN Append(buffer, c)
    ELSE [buffer EXCEPT ![BUF_SIZE] = c]
Kept(buffer, c) == IF Len(buffer) < BUF_SIZE THEN Append(buffer, c) ELSE buffer

\* The longest report the writing task can receive.
Limit_OffByOne == IF interface = "uart" THEN BUF_SIZE - 1 ELSE CDC_BUFSIZE
Limit == IF interface = "uart" THEN BUF_SIZE ELSE CDC_BUFSIZE

UartTypeOK ==
    /\ interface \in {"uart", "usb"}
    /\ typed \in Seq(LineLength) /\ Len(typed) <= MaxLines
    /\ {fifo, work, rxBuffer} \subseteq Seq(Character)
    /\ Len(fifo) <= FIFO /\ Len(work) <= BUF_SIZE /\ Len(rxBuffer) <= BUF_SIZE
    /\ {mRx, broadcast} \subseteq Seq(Seq(Character))
    /\ Len(mRx) <= RX_MESSAGES
    /\ refused \in BOOLEAN
    /\ mTx \in Seq(ReportSize) /\ Len(mTx) <= TX_MESSAGES
    /\ reported \in 0 .. MaxReports

UartInit ==
    /\ interface \in {"uart", "usb"}
    /\ typed = <<>> /\ fifo = <<>> /\ work = <<>> /\ rxBuffer = <<>>
    /\ mRx = <<>> /\ broadcast = <<>> /\ refused = FALSE
    /\ mTx = <<>> /\ reported = 0

\* The host sends a line, fast enough for the driver.
TypeLine(n) ==
    /\ Len(typed) < MaxLines
    /\ Len(fifo) + n + 1 <= FIFO
    /\ fifo' = fifo \o Line(Len(typed) + 1, n) \o << <<Len(typed) + 1, 0>> >>
    /\ typed' = Append(typed, n)
    /\ UNCHANGED <<interface, work, rxBuffer, mRx, broadcast, refused, mTx,
                   reported>>

\* uart_rx, or the callback of the USB driver, reads what has come so far.
\* A chunk ends anywhere.
ReadBytes(received) ==
    /\ work = <<>>
    /\ received \in 1 .. Len(fifo)
    /\ received <= BUF_SIZE
    /\ work' = SubSeq(fifo, 1, received)
    /\ fifo' = SubSeq(fifo, received + 1, Len(fifo))
    /\ UNCHANGED <<interface, typed, rxBuffer, mRx, broadcast, refused, mTx,
                   reported>>

KeepCharacter ==
    /\ work # <<>> /\ ~Ends(Head(work))
    /\ rxBuffer' = Kept(rxBuffer, Head(work))
    /\ work' = Tail(work)
    /\ UNCHANGED <<interface, typed, fifo, mRx, broadcast, refused, mTx,
                   reported>>

EndLine_NoReset ==
    /\ work # <<>> /\ Ends(Head(work))
    /\ Len(mRx) < RX_MESSAGES
    /\ mRx' = Append(mRx, rxBuffer)
    /\ work' = Tail(work)
    /\ UNCHANGED <<interface, typed, fifo, rxBuffer, broadcast, refused, mTx,
                   reported>>
EndLine ==
    /\ work # <<>> /\ Ends(Head(work))
    /\ Len(mRx) < RX_MESSAGES
    /\ mRx' = Append(mRx, rxBuffer)
    /\ rxBuffer' = <<>>
    /\ work' = Tail(work)
    /\ UNCHANGED <<interface, typed, fifo, broadcast, refused, mTx, reported>>

\* 100 ticks have passed and the buffer is still full: the rest of the chunk
\* is forgotten, rx_buffer is not.
RefuseLine ==
    /\ work # <<>> /\ Ends(Head(work))
    /\ Len(mRx) = RX_MESSAGES
    /\ work' = <<>>
    /\ refused' = TRUE
    /\ UNCHANGED <<interface, typed, fifo, rxBuffer, mRx, broadcast, mTx,
                   reported>>

\* app_main
BroadcastLine ==
    /\ mRx # <<>>
    /\ broadcast' = Append(broadcast, Head(mRx))
    /\ mRx' = Tail(mRx)
    /\ UNCHANGED <<interface, typed, fifo, work, rxBuffer, refused, mTx,
                   reported>>

\* The root's timer or json_to_root_handler; a full buffer drops the report.
ReportToHost(size) ==
    /\ reported < MaxReports
    /\ reported' = reported + 1
    /\ mTx' = IF Len(mTx) < TX_MESSAGES THEN Append(mTx, size) ELSE mTx
    /\ UNCHANGED <<interface, typed, fifo, work, rxBuffer, mRx, broadcast,
                   refused>>

\* uart_tx or tusb_tx.  A report longer than the task's buffer is not taken
\* out: the receive answers 0 and the task asks again.
WriteToHost ==
    /\ mTx # <<>> /\ Head(mTx) <= Limit
    /\ mTx' = Tail(mTx)
    /\ UNCHANGED <<interface, typed, fifo, work, rxBuffer, mRx, broadcast,
                   refused, reported>>

UartNext ==
    \/ \E n \in LineLength : TypeLine(n)
    \/ \E received \in 1 .. BUF_SIZE : ReadBytes(received)
    \/ KeepCharacter
    \/ EndLine
    \/ RefuseLine
    \/ BroadcastLine
    \/ \E size \in ReportSize : ReportToHost(size)
    \/ WriteToHost

UartSpec ==
    /\ UartInit /\ [][UartNext]_uartVars
    /\ WF_uartVars(WriteToHost)

\* The characters between the driver and the mesh, in the order in which they
\* were or will be broadcast.
Sent == broadcast \o mRx
Pieces == Sent \o <<rxBuffer, work, fifo>>

Before(c, d) == c[1] < d[1] \/ (c[1] = d[1] /\ c[2] < d[2])

\* Of the characters of the lines, those of s come before those of t.
AllBefore(s, t) ==
    \A k \in DOMAIN s, l \in DOMAIN t :
        Ends(s[k]) \/ Ends(t[l]) \/ Before(s[k], t[l])
Ascending(s) ==
    \A k, l \in DOMAIN s : k < l => Ends(s[k]) \/ Ends(s[l]) \/ Before(s[k], s[l])

(* Whatever the chunks and also after a line that could not be sent: no
   character is sent twice and none overtakes another. *)
CharactersInOrder ==
    LET pieces == Pieces
    IN \A i, j \in DOMAIN pieces :
          /\ i < j => AllBefore(pieces[i], pieces[j])
          /\ i = j => Ascending(pieces[i])

(* "Input data from the keyboard is sent to all mesh nodes": as long as no line
   was refused, the messages are the lines the host typed, one for one and cut
   at BUF_SIZE, however the characters came in chunks.  After a refused line the
   next message has the text of several. *)
WholeLines ==
    ~refused => \A i \in DOMAIN Sent :
        Sent[i] =
            Line(i, IF typed[i] < BUF_SIZE THEN typed[i] ELSE BUF_SIZE)

(* Over UART every report that was taken into the buffer comes to be written.
   Over USB a report longer than CONFIG_TINYUSB_CDC_RX_BUFSIZE stays at the head
   and all that follow behind it. *)
HostGetsReports ==
    (mTx # <<>> /\ interface = "uart") ~> (mTx = <<>>)
=============================================================================
