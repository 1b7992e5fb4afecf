--------------------------- MODULE Gateway_proofs ---------------------------
(***************************************************************************)
(* Theorems about the two gateways: BleGateway, for any number of          *)
(* connections and any size of the buffers, and UartGateway, for any size of *)
(* the buffers and any lines of the host.                                  *)
(***************************************************************************)
EXTENDS BleGateway, UartGateway, FiniteSetTheorems, SequenceTheorems, TLAPS

\* The root advertises exactly while it has room for a connection.
Advertises == advertising = CanAdvertise(connected)

\* A connection that is about to be notified is one of the loop's.
InRange == spp = "notify" => conn <= MAX_CONNECTIONS

TypeInv == BleTypeOK /\ Advertises /\ InRange

(* Sets of connections are finite. *)
LEMMA HandlesFinite ==
    ASSUME NEW S, S \subseteq Handle
    PROVE  IsFiniteSet(S) /\ Cardinality(S) \in Nat
<1>1. IsFiniteSet(Handle)
  BY FS_Interval, BleAssumption DEF Handle
<1> QED  BY <1>1, FS_Subset, FS_CardinalityType

(* A connection comes only while the root advertises, so there is room. *)
LEMMA LinkKeepsType ==
    ASSUME TypeInv, NEW h \in Handle, LinkEstablished(h)
    PROVE  TypeInv'
<1>1. connected' \subseteq Handle
  BY DEF LinkEstablished, TypeInv, BleTypeOK
<1>2. /\ Cardinality(connected') = Cardinality(connected) + 1
      /\ Cardinality(connected) \in Nat
  BY HandlesFinite, FS_AddElement DEF LinkEstablished, TypeInv, BleTypeOK
<1>3. Cardinality(connected) < MAX_CONNECTIONS
  BY DEF LinkEstablished, TypeInv, Advertises, InRange, CanAdvertise
<1>4. Cardinality(connected') <= MAX_CONNECTIONS
  BY <1>2, <1>3, BleAssumption
<1>5. advertising' = CanAdvertise(connected') /\ advertising' \in BOOLEAN
  <2>1. Cardinality(connected') < MAX_CONNECTIONS => MAX_CONNECTIONS > 1
    BY <1>2, BleAssumption
  <2> QED  BY <2>1 DEF LinkEstablished, Resumes, CanAdvertise
<1> QED
  BY <1>1, <1>4, <1>5
     DEF LinkEstablished, sppVars, TypeInv, BleTypeOK, Advertises, InRange

(* A connection that ends makes room. *)
LEMMA DisconnectKeepsType ==
    ASSUME TypeInv, NEW h \in Handle, Disconnect(h)
    PROVE  TypeInv'
<1>1. connected' \subseteq Handle /\ subs' \in [Handle -> BOOLEAN]
  BY DEF Disconnect, SubsWithout, TypeInv, BleTypeOK
<1>2. /\ Cardinality(connected') = Cardinality(connected) - 1
      /\ Cardinality(connected) \in Nat
  BY HandlesFinite, FS_RemoveElement DEF Disconnect, TypeInv, BleTypeOK
<1>3. Cardinality(connected') <= MAX_CONNECTIONS
  BY <1>2, BleAssumption DEF TypeInv, BleTypeOK
<1>4. advertising' = CanAdvertise(connected') /\ advertising' \in BOOLEAN
  BY DEF Disconnect, CanAdvertise
<1>5. {asked', steady', served'} \subseteq SUBSET Handle
  BY DEF Disconnect, sppVars, TypeInv, BleTypeOK
<1> QED
  BY <1>1, <1>3, <1>4, <1>5
     DEF Disconnect, sppVars, TypeInv, BleTypeOK, Advertises, InRange

(* Every action keeps the types. *)
LEMMA TypeStep == ASSUME TypeInv, [BleNext]_bleVars PROVE TypeInv'
<1> USE BleAssumption
<1>1. CASE UNCHANGED bleVars
  BY <1>1 DEF bleVars, sppVars, TypeInv, BleTypeOK, Advertises, InRange,
              CanAdvertise
<1>2. ASSUME NEW h \in Handle, Subscribe(h) PROVE TypeInv'
  BY <1>2 DEF Subscribe, sppVars, TypeInv, BleTypeOK, Advertises, InRange,
              CanAdvertise
<1>3. ASSUME NEW h \in Handle, WriteChr(h) PROVE TypeInv'
  BY <1>3 DEF WriteChr, sppVars, TypeInv, BleTypeOK, Advertises, InRange,
              CanAdvertise
<1>4. CASE BroadcastText
  BY <1>4 DEF BroadcastText, sppVars, TypeInv, BleTypeOK, Advertises, InRange,
              CanAdvertise
<1>5. CASE ReportToPeers
  <2>1. mBle' \in 0 .. BLE_MESSAGES
    BY <1>5 DEF ReportToPeers, TypeInv, BleTypeOK
  <2> QED
    BY <1>5, <2>1 DEF ReportToPeers, TypeInv, BleTypeOK, Advertises, InRange,
                      CanAdvertise
<1>6. CASE ReceiveReport
  <2>1. {h \in Handle : subs[h]} \subseteq Handle
    OBVIOUS
  <2>2. mBle' \in 0 .. BLE_MESSAGES /\ conn' \in 0 .. MAX_CONNECTIONS + 1
    BY <1>6 DEF ReceiveReport, TypeInv, BleTypeOK
  <2> QED
    BY <1>6, <2>1, <2>2 DEF ReceiveReport, TypeInv, BleTypeOK, Advertises,
                            InRange,
                            CanAdvertise
<1>7. CASE CheckSubs
  <2>1. conn' \in 0 .. MAX_CONNECTIONS + 1
    BY <1>7 DEF CheckSubs, LastConn, TypeInv, BleTypeOK
  <2> QED
    BY <1>7, <2>1 DEF CheckSubs, LastConn, TypeInv, BleTypeOK, Advertises,
                      InRange, CanAdvertise
<1>8. CASE Notify /\ conn <= MAX_CONNECTIONS
  <2>1. conn' \in 0 .. MAX_CONNECTIONS + 1
    BY <1>8 DEF Notify, TypeInv, BleTypeOK
  <2>2. served' \subseteq Handle
    BY <1>8 DEF Notify, TypeInv, BleTypeOK
  <2> QED
    BY <1>8, <2>1, <2>2 DEF Notify, TypeInv, BleTypeOK, Advertises, InRange,
                            CanAdvertise
<1>9. CASE EndReport
  BY <1>9 DEF EndReport, TypeInv, BleTypeOK, Advertises, InRange, CanAdvertise
<1>10. Notify => conn <= MAX_CONNECTIONS
  BY DEF Notify, TypeInv, InRange
<1> QED
  BY <1>1, <1>2, <1>3, <1>4, <1>5, <1>6, <1>7, <1>8, <1>9, <1>10,
     LinkKeepsType, DisconnectKeepsType DEF BleNext

(* The initial state has the types, and the root advertises. *)
LEMMA TypeInit == ASSUME BleInit PROVE TypeInv
<1>1. Cardinality({}) = 0
  BY FS_EmptySet
<1>2. Cardinality(connected) = 0
  BY <1>1 DEF BleInit
<1>3. advertising = CanAdvertise(connected)
  <2>1. Cardinality(connected) < MAX_CONNECTIONS
    BY <1>2, BleAssumption
  <2>2. (Cardinality(connected) < MAX_CONNECTIONS) = TRUE
    BY <2>1
  <2> QED  BY <2>2 DEF BleInit, CanAdvertise
<1>4. Cardinality(connected) <= MAX_CONNECTIONS
  BY <1>2, BleAssumption
<1>5. subs \in [Handle -> BOOLEAN]
  BY DEF BleInit
<1>6. /\ mBle \in 0 .. BLE_MESSAGES /\ mMesh \in 0 .. MESH_MESSAGES
      /\ conn \in 0 .. MAX_CONNECTIONS + 1
  BY BleAssumption DEF BleInit
<1> QED
  BY <1>3, <1>4, <1>5, <1>6
     DEF BleInit, TypeInv, BleTypeOK, Advertises, InRange

(* Every reachable state of the gateway is well typed: the host never has more
   connections than it supports, whatever comes and goes. *)
THEOREM TypeCorrect == BleSpec => []BleTypeOK
<1>1. TypeInv => BleTypeOK
  BY DEF TypeInv
<1> QED  BY <1>1, TypeInit, TypeStep, PTL DEF BleSpec

(* A peer finds the root whenever the root can take one more connection. *)
THEOREM AdvertisingCorrect == BleSpec => []Reachable
<1>1. TypeInv => Reachable
  BY DEF TypeInv, Advertises, Reachable
<1> QED  BY <1>1, TypeInit, TypeStep, PTL DEF BleSpec

-----------------------------------------------------------------------------
\* Who is subscribed throughout is entered; the loop has passed whom it served.
Passed ==
    /\ \A h \in steady : subs[h]
    /\ spp # "receive" => \A h \in steady : h < conn => h \in served
    /\ SteadyServed

SubsInv == NoStaleSubscription /\ Passed

(* Connections and subscriptions that change while a report is on its way. *)
LEMMA PeersKeepSubs ==
    ASSUME TypeInv, SubsInv, NEW h \in Handle,
           LinkEstablished(h) \/ Disconnect(h) \/ Subscribe(h) \/ WriteChr(h)
    PROVE  SubsInv'
<1> USE DEF SubsInv, NoStaleSubscription, Passed, SteadyServed, sppVars
<1>0. subs \in [Handle -> BOOLEAN] /\ steady \subseteq Handle
  BY DEF TypeInv, BleTypeOK
<1>1. CASE LinkEstablished(h)
  BY <1>0, <1>1 DEF LinkEstablished
<1>2. CASE Disconnect(h)
  BY <1>0, <1>2 DEF Disconnect, SubsWithout
<1>3. CASE Subscribe(h)
  BY <1>0, <1>3 DEF Subscribe
<1>4. CASE WriteChr(h)
  BY <1>0, <1>4 DEF WriteChr
<1> QED  BY <1>1, <1>2, <1>3, <1>4

(* The steps of nimble_spp_task. *)
LEMMA TaskKeepsSubs ==
    ASSUME TypeInv, SubsInv, ReceiveReport \/ CheckSubs \/ Notify \/ EndReport
    PROVE  SubsInv'
<1>0. /\ subs \in [Handle -> BOOLEAN] /\ steady \subseteq Handle
      /\ conn \in Nat /\ Handle \subseteq Nat
      /\ \A h \in Handle : h <= MAX_CONNECTIONS
  BY BleAssumption DEF TypeInv, BleTypeOK, Handle
<1>1. NoStaleSubscription'
  BY DEF SubsInv, NoStaleSubscription, ReceiveReport, CheckSubs, Notify,
         EndReport
<1>2. CASE ReceiveReport
  <2>1. steady' = {h \in Handle : subs[h]} /\ conn' = 0 /\ spp' = "check"
        /\ subs' = subs
    BY <1>2 DEF ReceiveReport
  <2>2. \A h \in steady' : ~(h < conn')
    BY <1>0, <2>1
  <2> QED  BY <1>1, <2>1, <2>2 DEF SubsInv, Passed, SteadyServed
<1>3. CASE CheckSubs
  <2>1. /\ subs' = subs /\ steady' = steady /\ served' = served
        /\ spp = "check" /\ spp' # "receive"
    BY <1>3 DEF CheckSubs
  <2>2. ASSUME NEW h \in steady, h < conn' PROVE h \in served
    <3>1. CASE conn' = conn
      BY <2>1, <2>2, <3>1 DEF SubsInv, Passed
    <3>2. CASE conn' = conn + 1 /\ ~subs[conn]
      <4>1. h # conn
        BY <3>2 DEF SubsInv, Passed
      <4>2. h < conn
        BY <1>0, <2>2, <3>2, <4>1
      <4> QED  BY <2>1, <4>2 DEF SubsInv, Passed
    <3> QED  BY <1>3, <3>1, <3>2 DEF CheckSubs
  <2> QED  BY <1>1, <2>1, <2>2 DEF SubsInv, Passed, SteadyServed
<1>4. CASE Notify
  <2>1. /\ subs' = subs /\ steady' = steady /\ spp = "notify"
        /\ served' = served \union ({conn} \intersect connected)
        /\ conn' = conn + 1 /\ spp' = "check"
    BY <1>4 DEF Notify
  <2>2. ASSUME NEW h \in steady, h < conn' PROVE h \in served'
    <3>1. CASE h = conn
      <4>1. h \in connected
        BY <1>0 DEF SubsInv, Passed, NoStaleSubscription
      <4> QED  BY <2>1, <3>1, <4>1
    <3>2. CASE h # conn
      <4>1. h < conn
        BY <1>0, <2>1, <2>2, <3>2
      <4> QED  BY <2>1, <4>1 DEF SubsInv, Passed
    <3> QED  BY <3>1, <3>2
  <2> QED  BY <1>1, <2>1, <2>2 DEF SubsInv, Passed, SteadyServed
<1>5. CASE EndReport
  <2>1. /\ subs' = subs /\ steady' = steady /\ served' = served
        /\ spp = "check" /\ spp' = "receive" /\ conn > MAX_CONNECTIONS
    BY <1>5 DEF EndReport, LastConn
  <2>2. \A h \in steady : h < conn
    BY <1>0, <2>1, BleAssumption
  <2> QED  BY <1>1, <2>1, <2>2 DEF SubsInv, Passed, SteadyServed
<1> QED  BY <1>2, <1>3, <1>4, <1>5

(* Every action keeps SubsInv. *)
LEMMA SubsStep ==
    ASSUME TypeInv, SubsInv, [BleNext]_bleVars
    PROVE  SubsInv'
<1> USE DEF SubsInv, NoStaleSubscription, Passed, SteadyServed
<1>1. CASE UNCHANGED bleVars
  BY <1>1 DEF bleVars, sppVars
<1>2. CASE BroadcastText \/ ReportToPeers
  BY <1>2 DEF BroadcastText, ReportToPeers, sppVars
<1> QED
  BY <1>1, <1>2, PeersKeepSubs, TaskKeepsSubs DEF BleNext

(* No entry of conn_handle_subs outlives the connection of the peer that asked
   for it, so the next peer with that handle gets nothing it did not ask for. *)
THEOREM SubscriptionCorrect == BleSpec => []NoStaleSubscription
<1>1. BleInit => SubsInv
  BY DEF BleInit, SubsInv, NoStaleSubscription, Passed, SteadyServed
<1>2. SubsInv => NoStaleSubscription
  BY DEF SubsInv
<1> QED
  BY <1>1, <1>2, TypeInit, TypeStep, SubsStep, PTL DEF BleSpec

(* A peer that is subscribed while the task is busy with a report is notified
   of it: the loop skips no handle, whatever the other peers do meanwhile. *)
THEOREM NotificationCorrect == BleSpec => []SteadyServed
<1>1. BleInit => SubsInv
  BY DEF BleInit, SubsInv, NoStaleSubscription, Passed, SteadyServed
<1>2. SubsInv => SteadyServed
  BY DEF SubsInv, Passed
<1> QED
  BY <1>1, <1>2, TypeInit, TypeStep, SubsStep, PTL DEF BleSpec

-----------------------------------------------------------------------------
(* UartGateway *)

(* A typed line is its characters. *)
LEMMA LineFacts ==
    ASSUME NEW l \in Nat, NEW n \in Nat
    PROVE  /\ Line(l, n) \in Seq({l} \X (1 .. n)) /\ Len(Line(l, n)) = n
           /\ \A k \in 1 .. n : Line(l, n)[k] = <<l, k>>
  BY DEF Line

(* What the host sends with a line. *)
LEMMA TypedFacts ==
    ASSUME UartTypeOK, NEW n \in LineLength, TypeLine(n)
    PROVE  /\ n \in Nat \ {0} /\ Len(fifo') = Len(fifo) + n + 1
           /\ fifo' \in Seq(Character)
           /\ \A k \in 1 .. Len(fifo) : fifo'[k] = fifo[k]
           /\ \A k \in 1 .. n : fifo'[Len(fifo) + k] = <<Len(typed) + 1, k>>
           /\ fifo'[Len(fifo) + n + 1] = <<Len(typed) + 1, 0>>
<1> DEFINE l == Len(typed) + 1
           line == Line(l, n)
           end == << <<l, 0>> >>
<1>1. /\ typed \in Seq(LineLength) /\ fifo \in Seq(Character) /\ Len(fifo) \in Nat
      /\ n \in Nat \ {0} /\ l \in 1 .. MaxLines /\ n \in 0 .. FIFO /\ FIFO \in Nat
      /\ l \in Nat
  <2>1. /\ typed \in Seq(LineLength) /\ fifo \in Seq(Character)
        /\ Len(typed) \in Nat /\ Len(fifo) \in Nat
    BY DEF UartTypeOK
  <2>2. n \in Nat \ {0} /\ FIFO \in Nat /\ MaxLines \in Nat
    BY UartAssumption
  <2>3. Len(typed) < MaxLines /\ Len(fifo) + n + 1 <= FIFO
    BY DEF TypeLine
  <2> QED
    BY <2>1, <2>2, <2>3
<1>2. line \in Seq(Character) /\ Len(line) = n /\ \A k \in 1 .. n : line[k] = <<l, k>>
  <2>1. {l} \X (1 .. n) \subseteq Character
    BY <1>1 DEF Character
  <2>2. line \in Seq({l} \X (1 .. n)) /\ Len(line) = n
        /\ \A k \in 1 .. n : line[k] = <<l, k>>
    BY <1>1, LineFacts
  <2> QED
    BY <2>1, <2>2, SeqMonotonic
<1>3. end \in Seq(Character) /\ Len(end) = 1 /\ end[1] = <<l, 0>>
  BY <1>1 DEF Character
<1>4. fifo' = (fifo \o line) \o end
  BY DEF TypeLine
<1> HIDE DEF l, line, end
<1>5. /\ fifo \o line \in Seq(Character) /\ Len(fifo \o line) = Len(fifo) + n
      /\ \A k \in 1 .. Len(fifo) + n :
            (fifo \o line)[k] = IF k <= Len(fifo) THEN fifo[k] ELSE line[k - Len(fifo)]
  BY <1>1, <1>2, ConcatProperties
<1>6. /\ fifo' \in Seq(Character) /\ Len(fifo') = Len(fifo) + n + 1
      /\ \A k \in 1 .. Len(fifo) + n + 1 :
            fifo'[k] = IF k <= Len(fifo) + n THEN (fifo \o line)[k]
                       ELSE end[k - (Len(fifo) + n)]
  <2>1. Len(fifo \o line) \in Nat /\ Len(fifo \o line) + Len(end) = Len(fifo) + n + 1
    BY <1>1, <1>3, <1>5
  <2> DEFINE before == fifo \o line
  <2> HIDE DEF before
  <2>2. /\ before \o end \in Seq(Character)
        /\ Len(before \o end) = Len(before) + Len(end)
        /\ \A k \in 1 .. Len(before) + Len(end) :
              (before \o end)[k] = IF k <= Len(before) THEN before[k]
                                   ELSE end[k - Len(before)]
    BY <1>3, <1>5, ConcatProperties DEF before
  <2> QED
    BY <1>4, <1>5, <2>1, <2>2 DEF before
<1>7. \A k \in 1 .. Len(fifo) : fifo'[k] = fifo[k]
  BY <1>1, <1>5, <1>6
<1>8. \A k \in 1 .. n : fifo'[Len(fifo) + k] = <<l, k>>
  <2> SUFFICES ASSUME NEW k \in 1 .. n PROVE fifo'[Len(fifo) + k] = <<l, k>>
    OBVIOUS
  <2>1. Len(fifo) + k \in 1 .. Len(fifo) + n /\ ~(Len(fifo) + k <= Len(fifo))
        /\ (Len(fifo) + k) - Len(fifo) = k
    BY <1>1
  <2> QED
    BY <1>1, <1>2, <1>5, <1>6, <2>1, SMTT(30)
<1>9. fifo'[Len(fifo) + n + 1] = <<l, 0>>
  <2>1. Len(fifo) + n + 1 \in 1 .. Len(fifo) + n + 1
        /\ ~(Len(fifo) + n + 1 <= Len(fifo) + n)
        /\ (Len(fifo) + n + 1) - (Len(fifo) + n) = 1
    BY <1>1
  <2> QED
    BY <1>3, <1>6, <2>1
<1> QED
  BY <1>1, <1>6, <1>7, <1>8, <1>9 DEF l

(* What is read is the beginning of what there was, and nothing is lost. *)
LEMMA ReadFacts ==
    ASSUME UartTypeOK, NEW received \in 1 .. BUF_SIZE, ReadBytes(received)
    PROVE  /\ work' \in Seq(Character) /\ fifo' \in Seq(Character)
           /\ Len(work') = received /\ Len(fifo') = Len(fifo) - received
           /\ received <= Len(fifo)
           /\ \A k \in 1 .. Len(work') : work'[k] = fifo[k]
           /\ \A k \in 1 .. Len(fifo') : fifo'[k] = fifo[k + received]
           /\ work' \o fifo' = work \o fifo
<1>1. /\ fifo \in Seq(Character) /\ Len(fifo) \in Nat /\ received \in 1 .. Len(fifo)
      /\ work = <<>>
      /\ work' = SubSeq(fifo, 1, received)
      /\ fifo' = SubSeq(fifo, received + 1, Len(fifo))
  BY DEF UartTypeOK, ReadBytes
<1>2. \A k \in 1 .. Len(fifo) : fifo[k] \in Character
  BY <1>1
<1>3. /\ work' \in Seq(Character) /\ Len(work') = received
      /\ \A k \in 1 .. received : work'[k] = fifo[k]
  BY <1>1, <1>2
<1>4. /\ fifo' \in Seq(Character) /\ Len(fifo') = Len(fifo) - received
      /\ \A k \in 1 .. Len(fifo) - received : fifo'[k] = fifo[k + received]
  BY <1>1, <1>2
<1>5. work' \o fifo' = SubSeq(fifo, 1, Len(fifo))
  BY <1>1, ConcatAdjacentSubSeq
<1>6. SubSeq(fifo, 1, Len(fifo)) = fifo /\ work \o fifo = fifo
  BY <1>1, SubSeqFull, ConcatEmptySeq
<1>7. work' \o fifo' = work \o fifo
  BY <1>5, <1>6
<1>8. /\ \A k \in 1 .. Len(work') : work'[k] = fifo[k]
      /\ \A k \in 1 .. Len(fifo') : fifo'[k] = fifo[k + received]
      /\ received <= Len(fifo)
  BY <1>1, <1>3, <1>4, SMTT(30)
<1> QED
  BY <1>3, <1>4, <1>7, <1>8

(* Every action keeps the types. *)
LEMMA UartTypeStep == UartTypeOK /\ [UartNext]_uartVars => UartTypeOK'
<1> SUFFICES ASSUME UartTypeOK, [UartNext]_uartVars PROVE UartTypeOK'
  OBVIOUS
<1>0. /\ {BUF_SIZE, RX_MESSAGES, TX_MESSAGES} \subseteq Nat \ {0}
      /\ {FIFO, MaxLines, MaxReports} \subseteq Nat
  BY UartAssumption
<1>1. ASSUME NEW n \in LineLength, TypeLine(n) PROVE UartTypeOK'
  <2>1. fifo' \in Seq(Character) /\ Len(fifo') <= FIFO
    BY <1>1, TypedFacts DEF TypeLine, UartTypeOK
  <2>2. typed' \in Seq(LineLength) /\ Len(typed') <= MaxLines
    BY <1>0, <1>1, SMTT(30) DEF TypeLine, UartTypeOK
  <2> QED
    BY <1>1, <2>1, <2>2 DEF TypeLine, UartTypeOK
<1>2. ASSUME NEW received \in 1 .. BUF_SIZE, ReadBytes(received) PROVE UartTypeOK'
  <2>1. /\ work' \in Seq(Character) /\ fifo' \in Seq(Character)
        /\ Len(work') <= BUF_SIZE /\ Len(fifo') <= FIFO
    BY <1>0, <1>2, ReadFacts, SMTT(30) DEF UartTypeOK
  <2> QED
    BY <1>2, <2>1 DEF ReadBytes, UartTypeOK
<1>3. CASE KeepCharacter
  <2>1. /\ work \in Seq(Character) /\ work # <<>> /\ rxBuffer \in Seq(Character)
        /\ Len(rxBuffer) <= BUF_SIZE /\ BUF_SIZE \in Nat
    BY <1>0, <1>3 DEF KeepCharacter, UartTypeOK
  <2>2. Head(work) \in Character /\ Tail(work) \in Seq(Character)
        /\ Len(Tail(work)) = Len(work) - 1
    BY <2>1
  <2>3. rxBuffer' \in Seq(Character) /\ Len(rxBuffer') <= BUF_SIZE
    BY <1>3, <2>1, <2>2 DEF KeepCharacter, Kept
  <2>4. work' \in Seq(Character) /\ Len(work') <= BUF_SIZE
    BY <1>3, <2>1, <2>2 DEF KeepCharacter, UartTypeOK
  <2> QED
    BY <1>3, <2>3, <2>4 DEF KeepCharacter, UartTypeOK
<1>4. CASE EndLine
  <2>1. /\ work \in Seq(Character) /\ work # <<>> /\ rxBuffer \in Seq(Character)
        /\ mRx \in Seq(Seq(Character)) /\ Len(mRx) < RX_MESSAGES /\ RX_MESSAGES \in Nat
        /\ BUF_SIZE \in Nat /\ Len(work) <= BUF_SIZE
    BY <1>0, <1>4 DEF EndLine, UartTypeOK
  <2>2. work' \in Seq(Character) /\ Len(work') <= BUF_SIZE
    BY <1>4, <2>1 DEF EndLine
  <2>3. mRx' \in Seq(Seq(Character)) /\ Len(mRx') <= RX_MESSAGES
    BY <1>4, <2>1 DEF EndLine
  <2>4. rxBuffer' \in Seq(Character) /\ Len(rxBuffer') <= BUF_SIZE
    BY <1>4, <2>1 DEF EndLine
  <2> QED
    BY <1>4, <2>2, <2>3, <2>4 DEF EndLine, UartTypeOK
<1>5. CASE RefuseLine
  <2>1. work' \in Seq(Character) /\ Len(work') <= BUF_SIZE
    BY <1>0, <1>5 DEF RefuseLine
  <2> QED
    BY <1>5, <2>1 DEF RefuseLine, UartTypeOK
<1>6. CASE BroadcastLine
  <2>1. /\ mRx \in Seq(Seq(Character)) /\ mRx # <<>> /\ Len(mRx) <= RX_MESSAGES
        /\ broadcast \in Seq(Seq(Character)) /\ RX_MESSAGES \in Nat
    BY <1>0, <1>6 DEF BroadcastLine, UartTypeOK
  <2>2. /\ Head(mRx) \in Seq(Character) /\ Tail(mRx) \in Seq(Seq(Character))
        /\ Len(Tail(mRx)) <= RX_MESSAGES
    BY <2>1
  <2>3. broadcast' \in Seq(Seq(Character))
    BY <1>6, <2>1, <2>2 DEF BroadcastLine
  <2> QED
    BY <1>6, <2>2, <2>3 DEF BroadcastLine, UartTypeOK
<1>7. ASSUME NEW size \in ReportSize, ReportToHost(size) PROVE UartTypeOK'
  <2>1. mTx' \in Seq(ReportSize) /\ Len(mTx') <= TX_MESSAGES
    BY <1>0, <1>7 DEF ReportToHost, UartTypeOK
  <2>2. reported' \in 0 .. MaxReports
    BY <1>0, <1>7 DEF ReportToHost, UartTypeOK
  <2> QED
    BY <1>7, <2>1, <2>2 DEF ReportToHost, UartTypeOK
<1>8. CASE WriteToHost
  <2>1. mTx' \in Seq(ReportSize) /\ Len(mTx') <= TX_MESSAGES
    BY <1>0, <1>8 DEF WriteToHost, UartTypeOK
  <2> QED
    BY <1>8, <2>1 DEF WriteToHost, UartTypeOK
<1>9. CASE UNCHANGED uartVars
  BY <1>9 DEF uartVars, UartTypeOK
<1> QED
  BY <1>1, <1>2, <1>3, <1>4, <1>5, <1>6, <1>7, <1>8, <1>9 DEF UartNext

LEMMA UartTypeInit == UartInit => UartTypeOK
<1> SUFFICES ASSUME UartInit PROVE UartTypeOK
  OBVIOUS
<1>1. <<>> \in Seq(LineLength) /\ <<>> \in Seq(Character) /\ <<>> \in Seq(Seq(Character))
      /\ <<>> \in Seq(ReportSize) /\ Len(<<>>) = 0
  OBVIOUS
<1>2. 0 \in 0 .. MaxReports /\ 0 <= MaxLines /\ 0 <= FIFO /\ 0 <= BUF_SIZE
      /\ 0 <= RX_MESSAGES /\ 0 <= TX_MESSAGES
  BY UartAssumption
<1>3. refused \in BOOLEAN
  BY Zenon DEF UartInit
<1> QED
  BY <1>1, <1>2, <1>3 DEF UartInit, UartTypeOK

(* The lines that wait and those that were sent to all nodes are one sequence:
   ending a line appends to it, app_main leaves it alone. *)
LEMMA SentFacts ==
    ASSUME UartTypeOK
    PROVE  /\ Sent \in Seq(Seq(Character)) /\ Len(Sent) \in Nat
           /\ EndLine => Sent' = Append(Sent, rxBuffer)
           /\ [UartNext]_uartVars /\ ~EndLine => Sent' = Sent
<1>1. /\ broadcast \in Seq(Seq(Character)) /\ mRx \in Seq(Seq(Character))
      /\ rxBuffer \in Seq(Character)
  BY DEF UartTypeOK
<1>2. Sent \in Seq(Seq(Character)) /\ Len(Sent) \in Nat
  BY <1>1, ConcatProperties DEF Sent
<1>3. ASSUME EndLine PROVE Sent' = Append(Sent, rxBuffer)
  <2>1. mRx' = Append(mRx, rxBuffer) /\ broadcast' = broadcast
    BY <1>3 DEF EndLine
  <2>2. mRx' = mRx \o <<rxBuffer>> /\ <<rxBuffer>> \in Seq(Seq(Character))
    BY <1>1, <2>1, AppendIsConcat
  <2>3. broadcast \o (mRx \o <<rxBuffer>>) = (broadcast \o mRx) \o <<rxBuffer>>
    BY <1>1, <2>2, ConcatAssociative
  <2>4. (broadcast \o mRx) \o <<rxBuffer>> = Append(broadcast \o mRx, rxBuffer)
    BY <1>1, <1>2, AppendIsConcat DEF Sent
  <2> QED
    BY <2>1, <2>2, <2>3, <2>4 DEF Sent
<1>4. ASSUME BroadcastLine PROVE Sent' = Sent
  <2>1. /\ mRx # <<>> /\ broadcast' = Append(broadcast, Head(mRx)) /\ mRx' = Tail(mRx)
    BY <1>4 DEF BroadcastLine
  <2>2. /\ Head(mRx) \in Seq(Character) /\ <<Head(mRx)>> \in Seq(Seq(Character))
        /\ Tail(mRx) \in Seq(Seq(Character))
        /\ mRx = <<Head(mRx)>> \o Tail(mRx)
    BY <1>1, <2>1
  <2>3. broadcast' = broadcast \o <<Head(mRx)>>
    BY <1>1, <2>1, <2>2, AppendIsConcat
  <2>4. (broadcast \o <<Head(mRx)>>) \o Tail(mRx)
           = broadcast \o (<<Head(mRx)>> \o Tail(mRx))
    BY <1>1, <2>2, ConcatAssociative, SMTT(30)
  <2> QED
    BY <2>1, <2>2, <2>3, <2>4 DEF Sent
<1>5. ASSUME [UartNext]_uartVars, ~EndLine, ~BroadcastLine PROVE Sent' = Sent
  BY <1>5 DEF UartNext, uartVars, TypeLine, ReadBytes, KeepCharacter, RefuseLine,
              ReportToHost, WriteToHost, Sent
<1> QED
  BY <1>2, <1>3, <1>4, <1>5

-----------------------------------------------------------------------------
(* s is taken from t, from d characters on; its order is that of t. *)
Taken(s, t, d) == \A k \in DOMAIN s : k + d \in DOMAIN t /\ s[k] = t[k + d]

\* No character of a line that has not been typed.
Known(s) == \A k \in DOMAIN s : s[k][1] <= Len(typed)

LEMMA TakenFacts ==
    ASSUME NEW s \in Seq(Character), NEW t \in Seq(Character), NEW d \in Nat, Taken(s, t, d)
    PROVE  /\ Ascending(t) => Ascending(s)
           /\ Known(t) => Known(s)
           /\ \A u : /\ AllBefore(u, t) => AllBefore(u, s)
                     /\ AllBefore(t, u) => AllBefore(s, u)
<1>1. DOMAIN s = 1 .. Len(s) /\ Len(s) \in Nat
  OBVIOUS
<1>2. Ascending(t) => Ascending(s)
  <2> SUFFICES ASSUME Ascending(t), NEW k \in DOMAIN s, NEW l \in DOMAIN s, k < l
               PROVE  Ends(s[k]) \/ Ends(s[l]) \/ Before(s[k], s[l])
    BY DEF Ascending
  <2>1. k + d \in DOMAIN t /\ l + d \in DOMAIN t /\ k + d < l + d
        /\ s[k] = t[k + d] /\ s[l] = t[l + d]
    BY <1>1 DEF Taken
  <2> QED
    BY <2>1 DEF Ascending
<1>3. Known(t) => Known(s)
  BY DEF Taken, Known
<1>4. \A u : /\ AllBefore(u, t) => AllBefore(u, s)
             /\ AllBefore(t, u) => AllBefore(s, u)
  BY DEF Taken, AllBefore
<1> QED
  BY <1>2, <1>3, <1>4

(* s is t, perhaps with the first character of w behind it. *)
LEMMA KeptFacts ==
    ASSUME NEW t \in Seq(Character), NEW w \in Seq(Character), NEW s,
           s = t \/ s = Append(t, w[1]), w # <<>>, AllBefore(t, w)
    PROVE  /\ Ascending(t) => Ascending(s)
           /\ Known(t) /\ Known(w) => Known(s)
           /\ \A u : /\ AllBefore(u, t) /\ AllBefore(u, w) => AllBefore(u, s)
                     /\ AllBefore(t, u) /\ AllBefore(w, u) => AllBefore(s, u)
<1>1. 1 \in DOMAIN w /\ w[1] \in Character
  OBVIOUS
<1>2. CASE s = t
  BY <1>2
<1>3. CASE s = Append(t, w[1])
  <2>1. /\ Len(t) \in Nat /\ DOMAIN t = 1 .. Len(t) /\ DOMAIN s = 1 .. Len(t) + 1
        /\ \A k \in 1 .. Len(t) : s[k] = t[k]
        /\ s[Len(t) + 1] = w[1]
    BY <1>1, <1>3
  <2>2. \A k \in DOMAIN s : k \in DOMAIN t \/ k = Len(t) + 1
    BY <2>1
  <2>3. Ascending(t) => Ascending(s)
    <3> SUFFICES ASSUME Ascending(t), NEW k \in DOMAIN s, NEW l \in DOMAIN s, k < l
                 PROVE  Ends(s[k]) \/ Ends(s[l]) \/ Before(s[k], s[l])
      BY DEF Ascending
    <3>1. k \in DOMAIN t /\ s[k] = t[k]
      BY <2>1, <2>2
    <3>2. CASE l \in DOMAIN t
      BY <2>1, <3>1, <3>2 DEF Ascending
    <3>3. CASE l = Len(t) + 1
      BY <1>1, <2>1, <3>1, <3>3 DEF AllBefore
    <3> QED
      BY <2>2, <3>2, <3>3
  <2>4. Known(t) /\ Known(w) => Known(s)
    BY <1>1, <2>1, <2>2 DEF Known
  <2>5. \A u : /\ AllBefore(u, t) /\ AllBefore(u, w) => AllBefore(u, s)
               /\ AllBefore(t, u) /\ AllBefore(w, u) => AllBefore(s, u)
    BY <1>1, <2>1, <2>2 DEF AllBefore
  <2> QED
    BY <2>3, <2>4, <2>5
<1> QED
  BY <1>2, <1>3

\* The characters from the driver to the mesh are in order, and a new line comes
\* after all of them.
OrderInv ==
    /\ Ascending(rxBuffer) /\ Ascending(work) /\ Ascending(fifo)
    /\ AllBefore(rxBuffer, work) /\ AllBefore(rxBuffer, fifo) /\ AllBefore(work, fifo)
    /\ Known(rxBuffer) /\ Known(work) /\ Known(fifo)

SentOrder ==
    \A m \in 1 .. Len(Sent) :
        /\ Ascending(Sent[m]) /\ Known(Sent[m])
        /\ AllBefore(Sent[m], rxBuffer) /\ AllBefore(Sent[m], work)
        /\ AllBefore(Sent[m], fifo)
        /\ \A n \in 1 .. Len(Sent) : m < n => AllBefore(Sent[m], Sent[n])

LEMMA EmptyFacts ==
    /\ Ascending(<<>>) /\ Known(<<>>)
    /\ \A u : AllBefore(u, <<>>) /\ AllBefore(<<>>, u)
<1>1. DOMAIN <<>> = {}
  OBVIOUS
<1> QED
  BY <1>1 DEF Ascending, Known, AllBefore

LEMMA OrderStep ==
    UartTypeOK /\ OrderInv /\ SentOrder /\ [UartNext]_uartVars
        => OrderInv' /\ SentOrder'
<1> SUFFICES ASSUME UartTypeOK, OrderInv, SentOrder, [UartNext]_uartVars
             PROVE  OrderInv' /\ SentOrder'
  OBVIOUS
<1>0. /\ rxBuffer \in Seq(Character) /\ work \in Seq(Character)
      /\ fifo \in Seq(Character) /\ Sent \in Seq(Seq(Character)) /\ Len(Sent) \in Nat
      /\ typed \in Seq(LineLength) /\ Len(typed) \in Nat
      /\ \A m \in 1 .. Len(Sent) : Sent[m] \in Seq(Character)
  BY SentFacts DEF UartTypeOK
\* A step that takes characters from one piece to the next keeps the order.
<1>1. ASSUME NEW n \in LineLength, TypeLine(n) PROVE OrderInv' /\ SentOrder'
  <2>1. /\ rxBuffer' = rxBuffer /\ work' = work /\ Sent' = Sent
        /\ Len(typed') = Len(typed) + 1
    BY <1>0, <1>1, UartAssumption DEF TypeLine, Sent
  <2>2. /\ n \in Nat /\ Len(fifo) \in Nat /\ DOMAIN fifo = 1 .. Len(fifo)
        /\ DOMAIN fifo' = 1 .. Len(fifo) + n + 1
        /\ \A k \in 1 .. Len(fifo) : fifo'[k] = fifo[k]
        /\ \A k \in 1 .. n : fifo'[Len(fifo) + k] = <<Len(typed) + 1, k>>
        /\ fifo'[Len(fifo) + n + 1] = <<Len(typed) + 1, 0>>
    <3>1. fifo' \in Seq(Character) /\ Len(fifo') = Len(fifo) + n + 1
      BY <1>1, TypedFacts
    <3>2. n \in Nat /\ \A k \in 1 .. Len(fifo) : fifo'[k] = fifo[k]
      BY <1>1, TypedFacts
    <3>3. /\ \A k \in 1 .. n : fifo'[Len(fifo) + k] = <<Len(typed) + 1, k>>
          /\ fifo'[Len(fifo) + n + 1] = <<Len(typed) + 1, 0>>
      BY <1>1, TypedFacts
    <3>4. Len(fifo) \in Nat /\ DOMAIN fifo = 1 .. Len(fifo)
      BY <1>0
    <3>5. DOMAIN fifo' = 1 .. Len(fifo) + n + 1
      BY <3>1
    <3> QED
      BY <3>2, <3>3, <3>4, <3>5
  <2>3. \A k \in DOMAIN fifo' :
           \/ k \in DOMAIN fifo /\ fifo'[k] = fifo[k]
           \/ k = Len(fifo) + n + 1 /\ fifo'[k] = <<Len(typed) + 1, 0>>
           \/ /\ k > Len(fifo) /\ k - Len(fifo) \in 1 .. n
              /\ fifo'[k] = <<Len(typed) + 1, k - Len(fifo)>>
    <3> SUFFICES ASSUME NEW k \in 1 .. Len(fifo) + n + 1, ~(k \in 1 .. Len(fifo)),
                        k # Len(fifo) + n + 1
                 PROVE  /\ k > Len(fifo) /\ k - Len(fifo) \in 1 .. n
                        /\ fifo'[k] = <<Len(typed) + 1, k - Len(fifo)>>
      BY <2>2, SMTT(30)
    <3>1. Len(fifo) \in Nat /\ n \in Nat
      BY <2>2
    <3>2. k > Len(fifo) /\ k - Len(fifo) \in 1 .. n /\ k = Len(fifo) + (k - Len(fifo))
      BY <3>1
    <3>3. \A m \in 1 .. n : fifo'[Len(fifo) + m] = <<Len(typed) + 1, m>>
      BY <2>2
    <3>4. fifo'[Len(fifo) + (k - Len(fifo))] = <<Len(typed) + 1, k - Len(fifo)>>
      <4> DEFINE m == k - Len(fifo)
      <4>1. m \in 1 .. n
        BY <3>2
      <4> HIDE DEF m
      <4>2. fifo'[Len(fifo) + m] = <<Len(typed) + 1, m>>
        BY <3>3, <4>1, Zenon
      <4> QED
        BY <4>2, Zenon DEF m
    <3>5. fifo'[k] = fifo'[Len(fifo) + (k - Len(fifo))]
      BY <3>2, Zenon
    <3> QED
      BY <3>2, <3>4, <3>5, Zenon
  <2>4. \A u \in Seq(Character) : Known(u) => Known(u)'
    <3> SUFFICES ASSUME NEW u \in Seq(Character), Known(u), NEW k \in DOMAIN u
                 PROVE  u[k][1] <= Len(typed')
      BY DEF Known
    <3>1. u[k][1] \in Nat /\ Len(typed) \in Nat
      <4>1. u[k] \in Character /\ MaxLines \in Nat
        BY UartAssumption
      <4>2. u[k][1] \in 1 .. MaxLines
        BY <4>1 DEF Character
      <4> QED
        BY <1>0, <4>1, <4>2
    <3>2. u[k][1] <= Len(typed)
      BY DEF Known
    <3> QED
      BY <2>1, <3>1, <3>2
  <2>5. Known(fifo)'
    <3> SUFFICES ASSUME NEW k \in DOMAIN fifo' PROVE fifo'[k][1] <= Len(typed')
      BY DEF Known
    <3>1. CASE k \in DOMAIN fifo /\ fifo'[k] = fifo[k]
      <4>1. fifo[k] \in Character /\ fifo[k][1] <= Len(typed)
        BY <1>0, <3>1 DEF OrderInv, Known
      <4> QED
        BY <1>0, <2>1, <3>1, <4>1 DEF Character
    <3> QED
      BY <1>0, <2>1, <2>3, <3>1, SMTT(30)
  <2>6. \A u \in Seq(Character) : Known(u) /\ AllBefore(u, fifo) => AllBefore(u, fifo')
    <3> SUFFICES ASSUME NEW u \in Seq(Character), Known(u), AllBefore(u, fifo),
                        NEW k \in DOMAIN u, NEW l \in DOMAIN fifo'
                 PROVE  Ends(u[k]) \/ Ends(fifo'[l]) \/ Before(u[k], fifo'[l])
      BY DEF AllBefore
    <3>1. u[k] \in Character /\ u[k][1] <= Len(typed) /\ u[k][1] \in Nat
      BY DEF Known, Character
    <3>2. CASE l \in DOMAIN fifo /\ fifo'[l] = fifo[l]
      BY <3>2 DEF AllBefore
    <3>3. CASE fifo'[l][1] = Len(typed) + 1
      BY <1>0, <3>1, <3>3 DEF Before
    <3> QED
      BY <2>3, <3>2, <3>3
  <2>7. Ascending(fifo)'
    <3> SUFFICES ASSUME NEW k \in DOMAIN fifo', NEW l \in DOMAIN fifo', k < l
                 PROVE  Ends(fifo'[k]) \/ Ends(fifo'[l]) \/ Before(fifo'[k], fifo'[l])
      BY DEF Ascending
    <3>1. CASE k \in DOMAIN fifo /\ fifo'[k] = fifo[k]
      <4>1. fifo[k] \in Character /\ fifo[k][1] <= Len(typed) /\ fifo[k][1] \in Nat
        BY <1>0, <3>1 DEF OrderInv, Known, Character
      <4>2. CASE l \in DOMAIN fifo /\ fifo'[l] = fifo[l]
        BY <3>1, <4>2 DEF OrderInv, Ascending
      <4>3. CASE fifo'[l][1] = Len(typed) + 1
        BY <1>0, <3>1, <4>1, <4>3 DEF Before
      <4> QED
        BY <2>3, <4>2, <4>3
    <3>2. CASE /\ k > Len(fifo) /\ k - Len(fifo) \in 1 .. n
               /\ fifo'[k] = <<Len(typed) + 1, k - Len(fifo)>>
      <4>1. CASE l = Len(fifo) + n + 1 /\ fifo'[l] = <<Len(typed) + 1, 0>>
        BY <4>1 DEF Ends
      <4>2. CASE fifo'[l] = <<Len(typed) + 1, l - Len(fifo)>>
        <5>1. k - Len(fifo) < l - Len(fifo)
          BY <2>2
        <5> QED
          BY <3>2, <4>2, <5>1 DEF Before
      <4>3. l \notin DOMAIN fifo
        BY <2>2, <3>2
      <4> QED
        BY <2>3, <4>1, <4>2, <4>3
    <3>3. CASE fifo'[k] = <<Len(typed) + 1, 0>>
      BY <3>3 DEF Ends
    <3> QED
      BY <2>3, <3>1, <3>2, <3>3
  <2>8. OrderInv'
    BY <1>0, <2>1, <2>4, <2>5, <2>6, <2>7 DEF OrderInv
  <2>9. SentOrder'
    BY <1>0, <2>1, <2>4, <2>6 DEF SentOrder
  <2> QED
    BY <2>8, <2>9
<1>2. ASSUME NEW received \in 1 .. BUF_SIZE, ReadBytes(received)
      PROVE  OrderInv' /\ SentOrder'
  <2>1. /\ rxBuffer' = rxBuffer /\ Sent' = Sent /\ typed' = typed /\ received \in Nat
    BY <1>2, UartAssumption DEF ReadBytes, Sent
  <2>2. /\ work' \in Seq(Character) /\ fifo' \in Seq(Character)
        /\ Taken(work', fifo, 0) /\ Taken(fifo', fifo, received)
        /\ AllBefore(work', fifo')
    <3>1. /\ work' \in Seq(Character) /\ fifo' \in Seq(Character)
          /\ Len(work') = received /\ Len(fifo') = Len(fifo) - received
          /\ received <= Len(fifo)
          /\ \A k \in 1 .. Len(work') : work'[k] = fifo[k]
          /\ \A k \in 1 .. Len(fifo') : fifo'[k] = fifo[k + received]
      BY <1>2, ReadFacts
    <3>2. /\ DOMAIN work' = 1 .. received /\ DOMAIN fifo' = 1 .. Len(fifo) - received
          /\ DOMAIN fifo = 1 .. Len(fifo) /\ Len(fifo) \in Nat
      BY <1>0, <3>1
    <3>3. Taken(work', fifo, 0) /\ Taken(fifo', fifo, received)
      BY <2>1, <3>1, <3>2 DEF Taken
    <3>4. AllBefore(work', fifo')
      <4> SUFFICES ASSUME NEW k \in DOMAIN work', NEW l \in DOMAIN fifo'
                   PROVE  Ends(work'[k]) \/ Ends(fifo'[l]) \/ Before(work'[k], fifo'[l])
        BY DEF AllBefore
      <4>1. k \in DOMAIN fifo /\ l + received \in DOMAIN fifo /\ k < l + received
            /\ work'[k] = fifo[k] /\ fifo'[l] = fifo[l + received]
        BY <2>1, <3>1, <3>2, SMTT(30)
      <4> QED
        BY <4>1 DEF OrderInv, Ascending
    <3> QED
      BY <3>1, <3>3, <3>4
  <2>3. /\ Ascending(work') /\ Ascending(fifo') /\ Known(work') /\ Known(fifo')
        /\ \A u : AllBefore(u, fifo) => AllBefore(u, work') /\ AllBefore(u, fifo')
    BY <1>0, <2>1, <2>2, TakenFacts DEF OrderInv
  <2>4. \A u : Known(u) => Known(u)'
    BY <2>1 DEF Known
  <2>5. Known(work)' /\ Known(fifo)'
    BY <2>1, <2>3 DEF Known
  <2>6. OrderInv'
    BY <2>1, <2>2, <2>3, <2>4, <2>5 DEF OrderInv
  <2>7. SentOrder'
    BY <2>1, <2>3, <2>4 DEF SentOrder
  <2> QED
    BY <2>6, <2>7
<1>3. CASE KeepCharacter
  <2>1. /\ fifo' = fifo /\ Sent' = Sent /\ typed' = typed /\ work # <<>>
        /\ work' = Tail(work) /\ Head(work) = work[1] /\ work[1] \in Character
        /\ rxBuffer' = rxBuffer \/ rxBuffer' = Append(rxBuffer, work[1])
    BY <1>0, <1>3 DEF KeepCharacter, Kept, Sent
  <2>2. work' \in Seq(Character) /\ Taken(work', work, 1)
    BY <1>0, <2>1 DEF Taken
  <2>3. /\ Ascending(work') /\ Known(work')
        /\ \A u : AllBefore(u, work) => AllBefore(u, work')
        /\ \A u : AllBefore(work, u) => AllBefore(work', u)
    BY <1>0, <2>2, TakenFacts DEF OrderInv
  <2>4. /\ Ascending(rxBuffer') /\ Known(rxBuffer')
        /\ \A u : AllBefore(u, rxBuffer) /\ AllBefore(u, work) => AllBefore(u, rxBuffer')
        /\ \A u : AllBefore(rxBuffer, u) /\ AllBefore(work, u) => AllBefore(rxBuffer', u)
    BY <1>0, <2>1, KeptFacts DEF OrderInv
  <2>5. AllBefore(rxBuffer', work')
    <3> SUFFICES ASSUME NEW k \in DOMAIN rxBuffer', NEW l \in DOMAIN work'
                 PROVE  Ends(rxBuffer'[k]) \/ Ends(work'[l])
                           \/ Before(rxBuffer'[k], work'[l])
      BY DEF AllBefore
    <3>1. /\ l + 1 \in DOMAIN work /\ work'[l] = work[l + 1]
          /\ 1 \in DOMAIN work /\ 1 < l + 1
      BY <1>0, <2>1, <2>2 DEF Taken
    <3>2. \/ k \in DOMAIN rxBuffer /\ rxBuffer'[k] = rxBuffer[k]
          \/ rxBuffer'[k] = work[1]
      <4>1. CASE rxBuffer' = rxBuffer
        BY <4>1
      <4>2. CASE rxBuffer' = Append(rxBuffer, work[1])
        BY <1>0, <2>1, <4>2
      <4> QED
        BY <2>1, <4>1, <4>2
    <3>3. CASE k \in DOMAIN rxBuffer /\ rxBuffer'[k] = rxBuffer[k]
      BY <3>1, <3>3 DEF OrderInv, AllBefore
    <3>4. CASE rxBuffer'[k] = work[1]
      BY <3>1, <3>4 DEF OrderInv, Ascending
    <3> QED
      BY <3>2, <3>3, <3>4
  <2>6. /\ \A u : Known(u) => Known(u)'
        /\ Known(work)' /\ Known(rxBuffer)'
    BY <2>1, <2>3, <2>4 DEF Known
  <2>7. OrderInv'
    BY <2>1, <2>3, <2>4, <2>5, <2>6 DEF OrderInv
  <2>8. SentOrder'
    BY <2>1, <2>3, <2>4, <2>6 DEF SentOrder
  <2> QED
    BY <2>7, <2>8
<1>4. CASE EndLine
  <2>1. /\ fifo' = fifo /\ Sent' = Append(Sent, rxBuffer) /\ typed' = typed
        /\ work # <<>> /\ work' = Tail(work) /\ rxBuffer' = <<>>
    BY <1>4, SentFacts DEF EndLine
  <2>2. work' \in Seq(Character) /\ Taken(work', work, 1)
    BY <1>0, <2>1 DEF Taken
  <2>3. /\ Ascending(work') /\ Known(work')
        /\ \A u : AllBefore(u, work) => AllBefore(u, work')
        /\ \A u : AllBefore(work, u) => AllBefore(work', u)
    BY <1>0, <2>2, TakenFacts DEF OrderInv
  <2>4. /\ \A u : Known(u) => Known(u)'
        /\ Known(work)'
    BY <2>1, <2>3 DEF Known
  <2>5. OrderInv'
    BY <2>1, <2>3, <2>4, EmptyFacts DEF OrderInv
  <2>6. /\ Len(Sent') = Len(Sent) + 1
        /\ \A m \in 1 .. Len(Sent) : Sent'[m] = Sent[m]
        /\ Sent'[Len(Sent) + 1] = rxBuffer
        /\ \A m \in 1 .. Len(Sent) + 1 : m \in 1 .. Len(Sent) \/ m = Len(Sent) + 1
    BY <1>0, <2>1
  <2>7. SentOrder'
    <3> SUFFICES ASSUME NEW m \in 1 .. Len(Sent) + 1
                 PROVE  /\ Ascending(Sent'[m]) /\ Known(Sent[m])'
                        /\ AllBefore(Sent'[m], rxBuffer') /\ AllBefore(Sent'[m], work')
                        /\ AllBefore(Sent'[m], fifo')
                        /\ \A n \in 1 .. Len(Sent) + 1 :
                              m < n => AllBefore(Sent'[m], Sent'[n])
      BY <2>6 DEF SentOrder
    <3>1. CASE m = Len(Sent) + 1
      <4>1. \A n \in 1 .. Len(Sent) + 1 : ~(m < n)
        BY <1>0, <3>1
      <4>2. Sent'[m] = rxBuffer
        BY <2>6, <3>1
      <4>3. Known(Sent[m])'
        BY <2>4, <4>2 DEF OrderInv, Known
      <4> QED
        BY <2>1, <2>3, <4>1, <4>2, <4>3, EmptyFacts DEF OrderInv
    <3>2. CASE m \in 1 .. Len(Sent)
      <4>1. Sent'[m] = Sent[m]
        BY <2>6, <3>2
      <4>2. Known(Sent[m])'
        BY <2>1, <3>2, <4>1 DEF SentOrder, Known
      <4>3. \A n \in 1 .. Len(Sent) + 1 : m < n => AllBefore(Sent'[m], Sent'[n])
        BY <2>6, <3>2, <4>1 DEF SentOrder
      <4> QED
        BY <2>1, <2>3, <3>2, <4>1, <4>2, <4>3, EmptyFacts DEF SentOrder
    <3> QED
      BY <2>6, <3>1, <3>2
  <2> QED
    BY <2>5, <2>7
<1>5. CASE RefuseLine
  <2>1. /\ fifo' = fifo /\ Sent' = Sent /\ typed' = typed /\ work' = <<>>
        /\ rxBuffer' = rxBuffer
    BY <1>5 DEF RefuseLine, Sent
  <2>2. /\ \A u : Known(u) => Known(u)'
        /\ Known(work)'
    BY <2>1, EmptyFacts DEF Known
  <2>3. OrderInv' /\ SentOrder'
    BY <2>1, <2>2, EmptyFacts DEF OrderInv, SentOrder
  <2> QED
    BY <2>3
<1>6. ASSUME \/ BroadcastLine \/ WriteToHost \/ UNCHANGED uartVars
             \/ \E size \in ReportSize : ReportToHost(size)
      PROVE  OrderInv' /\ SentOrder'
  <2>1. UNCHANGED <<typed, fifo, work, rxBuffer>>
    BY <1>6 DEF BroadcastLine, WriteToHost, ReportToHost, uartVars
  <2>2. Sent' = Sent
    <3>1. ~EndLine
      <4> SUFFICES ASSUME EndLine PROVE FALSE
        OBVIOUS
      <4>1. work # <<>> /\ work' = Tail(work)
        BY DEF EndLine
      <4>2. Len(work') = Len(work) - 1 /\ Len(work) \in Nat
        BY <1>0, <4>1
      <4> QED
        BY <2>1, <4>2
    <3> QED
      BY <3>1, SentFacts
  <2> QED
    BY <2>1, <2>2 DEF OrderInv, SentOrder, Known
<1> QED
  BY <1>1, <1>2, <1>3, <1>4, <1>5, <1>6 DEF UartNext

LEMMA OrderInit == UartInit => OrderInv /\ SentOrder
<1> SUFFICES ASSUME UartInit PROVE OrderInv /\ SentOrder
  OBVIOUS
<1>1. rxBuffer = <<>> /\ work = <<>> /\ fifo = <<>>
  BY DEF UartInit
<1>2. Len(Sent) = 0
  BY DEF UartInit, Sent
<1> QED
  BY <1>1, <1>2, EmptyFacts DEF OrderInv, SentOrder

(* CharactersInOrder: for any sizes of the buffers and any lines and chunks, no
   character of the host is broadcast twice and none overtakes another, also
   after lines that were refused. *)
THEOREM CharactersCorrect == UartSpec => []CharactersInOrder
<1> DEFINE Inv == UartTypeOK /\ OrderInv /\ SentOrder
<1>1. Inv => CharactersInOrder
  <2> SUFFICES ASSUME Inv, NEW i \in DOMAIN Pieces, NEW j \in DOMAIN Pieces
               PROVE  /\ i < j => AllBefore(Pieces[i], Pieces[j])
                      /\ i = j => Ascending(Pieces[i])
    BY DEF CharactersInOrder
  <2> DEFINE n == Len(Sent)
             rest == <<rxBuffer, work, fifo>>
  <2>1. /\ Sent \in Seq(Seq(Character)) /\ n \in Nat
        /\ rest \in Seq(Seq(Character)) /\ Len(rest) = 3
        /\ rest[1] = rxBuffer /\ rest[2] = work /\ rest[3] = fifo
    BY SentFacts DEF UartTypeOK
  <2>2. Pieces = Sent \o rest
    BY DEF Pieces
  <2> HIDE DEF n, rest
  <2>3. /\ DOMAIN Pieces = 1 .. n + 3
        /\ \A k \in 1 .. n + 3 : Pieces[k] = IF k <= n THEN Sent[k] ELSE rest[k - n]
    <3>1. /\ Sent \o rest \in Seq(Seq(Character))
          /\ Len(Sent \o rest) = Len(Sent) + Len(rest)
          /\ \A k \in 1 .. Len(Sent) + Len(rest) :
                (Sent \o rest)[k] = IF k <= Len(Sent) THEN Sent[k]
                                    ELSE rest[k - Len(Sent)]
      BY <2>1, ConcatProperties
    <3>2. Len(Sent) = n
      BY DEF n
    <3> QED
      BY <2>1, <2>2, <3>1, <3>2, SMTT(30)
  <2>4. \A k \in 1 .. n + 3 :
           \/ k \in 1 .. n /\ Pieces[k] = Sent[k]
           \/ k = n + 1 /\ Pieces[k] = rxBuffer
           \/ k = n + 2 /\ Pieces[k] = work
           \/ k = n + 3 /\ Pieces[k] = fifo
    <3> SUFFICES ASSUME NEW k \in 1 .. n + 3, k \notin 1 .. n
                 PROVE  \/ k = n + 1 /\ Pieces[k] = rxBuffer
                        \/ k = n + 2 /\ Pieces[k] = work
                        \/ k = n + 3 /\ Pieces[k] = fifo
      BY <2>1, <2>3
    <3>1. ~(k <= n) /\ (k - n = 1 \/ k - n = 2 \/ k - n = 3)
      BY <2>1
    <3>2. Pieces[k] = rest[k - n]
      BY <2>3, <3>1
    <3> QED
      BY <2>1, <3>1, <3>2
  <2>5. CASE i \in 1 .. n /\ Pieces[i] = Sent[i]
    BY <2>1, <2>3, <2>4, <2>5 DEF SentOrder, n
  <2>6. CASE i = n + 1 /\ Pieces[i] = rxBuffer
    BY <2>1, <2>3, <2>4, <2>6, SMTT(30) DEF OrderInv
  <2>7. CASE i = n + 2 /\ Pieces[i] = work
    BY <2>1, <2>3, <2>4, <2>7 DEF OrderInv
  <2>8. CASE i = n + 3 /\ Pieces[i] = fifo
    BY <2>1, <2>3, <2>4, <2>8 DEF OrderInv
  <2> QED
    BY <2>3, <2>4, <2>5, <2>6, <2>7, <2>8
<1>2. Inv /\ [UartNext]_uartVars => Inv'
  BY UartTypeStep, OrderStep
<1>3. UartInit => Inv
  BY UartTypeInit, OrderInit
<1> QED
  BY <1>1, <1>2, <1>3, PTL DEF UartSpec

-----------------------------------------------------------------------------
(* The characters that are not yet gathered.  As long as no line was refused
   they are the lines without a gap: after a character comes the one that the
   host typed next. *)
Rest == work \o fifo

Valid(c) == c[1] \in 1 .. Len(typed) /\ c[2] \in 0 .. typed[c[1]]

After(c) ==
    IF Ends(c) THEN <<c[1] + 1, 1>>
    ELSE IF c[2] = typed[c[1]] THEN <<c[1], 0>> ELSE <<c[1], c[2] + 1>>

Flow ==
    /\ \A k \in 1 .. Len(Rest) : Valid(Rest[k])
    /\ \A k \in 1 .. Len(Rest) - 1 : Rest[k + 1] = After(Rest[k])
    /\ Rest # <<>> => Rest[Len(Rest)] = <<Len(typed), 0>>

\* The first n characters of a line, as far as there is room for them.
Cut(l, n) == Line(l, IF n < BUF_SIZE THEN n ELSE BUF_SIZE)

\* rx_buffer has what came before them of the line that is next.
Gathered ==
    IF Rest = <<>> THEN rxBuffer = <<>> /\ Len(Sent) = Len(typed)
    ELSE LET c == Rest[1]
         IN /\ c[1] = Len(Sent) + 1
            /\ rxBuffer = Cut(c[1], IF Ends(c) THEN typed[c[1]] ELSE c[2] - 1)

Whole ==
    /\ Len(Sent) <= Len(typed)
    /\ \A i \in 1 .. Len(Sent) : Sent[i] = Cut(i, typed[i])

LinesInv == UartTypeOK /\ (~refused => Flow /\ Gathered /\ Whole)

LEMMA CutFacts ==
    ASSUME UartTypeOK, NEW l \in Nat
    PROVE  /\ Cut(l, 0) = <<>>
           /\ \A k \in Nat : Kept(Cut(l, k), <<l, k + 1>>) = Cut(l, k + 1)
<1>1. BUF_SIZE \in Nat \ {0}
  BY UartAssumption
<1>2. Line(l, 0) = <<>>
  <2>1. Line(l, 0) \in Seq({l} \X (1 .. 0)) /\ Len(Line(l, 0)) = 0
    BY LineFacts
  <2> QED
    BY <2>1
<1>3. ASSUME NEW k \in Nat PROVE Kept(Cut(l, k), <<l, k + 1>>) = Cut(l, k + 1)
  <2>1. CASE k < BUF_SIZE
    <3>1. Cut(l, k) = Line(l, k) /\ Cut(l, k + 1) = Line(l, k + 1)
      BY <1>1, <2>1 DEF Cut
    <3>2. /\ Line(l, k) \in Seq({l} \X Nat) /\ Len(Line(l, k)) = k
          /\ \A i \in 1 .. k : Line(l, k)[i] = <<l, i>>
      BY DEF Line
    <3>3. /\ Line(l, k + 1) \in Seq({l} \X Nat) /\ Len(Line(l, k + 1)) = k + 1
          /\ \A i \in 1 .. k + 1 : Line(l, k + 1)[i] = <<l, i>>
      BY DEF Line
    <3>4. /\ Append(Line(l, k), <<l, k + 1>>) \in Seq({l} \X Nat)
          /\ Len(Append(Line(l, k), <<l, k + 1>>)) = k + 1
          /\ \A i \in 1 .. k + 1 : Append(Line(l, k), <<l, k + 1>>)[i] = <<l, i>>
      BY <3>2
    <3>5. Append(Line(l, k), <<l, k + 1>>) = Line(l, k + 1)
      BY <3>3, <3>4, SeqEqual
    <3> QED
      BY <2>1, <3>1, <3>2, <3>5 DEF Kept
  <2>2. CASE ~(k < BUF_SIZE)
    <3>1. Cut(l, k) = Line(l, BUF_SIZE) /\ Cut(l, k + 1) = Line(l, BUF_SIZE)
      BY <1>1, <2>2 DEF Cut
    <3>2. Len(Line(l, BUF_SIZE)) = BUF_SIZE
      BY <1>1, LineFacts
    <3> QED
      BY <1>1, <3>1, <3>2 DEF Kept
  <2> QED
    BY <2>1, <2>2
<1>4. Cut(l, 0) = <<>>
  BY <1>1, <1>2 DEF Cut
<1> QED
  BY <1>3, <1>4

LEMMA RestFacts ==
    ASSUME UartTypeOK
    PROVE  /\ Rest \in Seq(Character) /\ Len(Rest) \in Nat
           /\ work # <<>> => /\ Rest # <<>> /\ Rest[1] = Head(work)
                             /\ Tail(work) \o fifo = Tail(Rest)
<1>1. work \in Seq(Character) /\ fifo \in Seq(Character)
  BY DEF UartTypeOK
<1>2. /\ Rest \in Seq(Character) /\ Len(Rest) = Len(work) + Len(fifo)
      /\ \A k \in 1 .. Len(work) + Len(fifo) :
            Rest[k] = IF k <= Len(work) THEN work[k] ELSE fifo[k - Len(work)]
  BY <1>1, ConcatProperties DEF Rest
<1>3. ASSUME work # <<>>
      PROVE  Rest # <<>> /\ Rest[1] = Head(work) /\ Tail(work) \o fifo = Tail(Rest)
  <2>1. /\ Len(work) \in Nat \ {0} /\ Len(fifo) \in Nat /\ Head(work) = work[1]
        /\ Tail(work) \in Seq(Character) /\ Len(Tail(work)) = Len(work) - 1
        /\ \A k \in 1 .. Len(work) - 1 : Tail(work)[k] = work[k + 1]
    BY <1>1, <1>3
  <2>2. /\ Tail(work) \o fifo \in Seq(Character)
        /\ Len(Tail(work) \o fifo) = Len(work) - 1 + Len(fifo)
        /\ \A k \in 1 .. Len(work) - 1 + Len(fifo) :
              (Tail(work) \o fifo)[k] = IF k <= Len(work) - 1 THEN work[k + 1]
                                        ELSE fifo[k - (Len(work) - 1)]
    BY <1>1, <2>1, ConcatProperties
  <2>3. Rest # <<>> /\ Rest[1] = Head(work)
    BY <1>2, <2>1
  <2>4. /\ Tail(Rest) \in Seq(Character) /\ Len(Tail(Rest)) = Len(work) + Len(fifo) - 1
        /\ \A k \in 1 .. Len(work) + Len(fifo) - 1 : Tail(Rest)[k] = Rest[k + 1]
    BY <1>2, <2>1, <2>3
  <2>5. \A k \in 1 .. Len(work) - 1 + Len(fifo) : (Tail(work) \o fifo)[k] = Tail(Rest)[k]
    <3> SUFFICES ASSUME NEW k \in 1 .. Len(work) - 1 + Len(fifo)
                 PROVE  (Tail(work) \o fifo)[k] = Rest[k + 1]
      <4>1. Len(work) - 1 + Len(fifo) = Len(work) + Len(fifo) - 1
        BY <2>1
      <4> QED
        BY <2>4, <4>1
    <3>1. /\ k + 1 \in 1 .. Len(work) + Len(fifo)
          /\ k <= Len(work) - 1 <=> k + 1 <= Len(work)
          /\ k - (Len(work) - 1) = (k + 1) - Len(work)
      BY <2>1
    <3> QED
      BY <1>2, <2>2, <3>1
  <2>6. Len(Tail(work) \o fifo) = Len(Tail(Rest))
        /\ 1 .. Len(Tail(Rest)) = 1 .. Len(work) - 1 + Len(fifo)
    BY <2>1, <2>2, <2>4
  <2> QED
    BY <2>2, <2>3, <2>4, <2>5, <2>6, SeqEqual
<1> QED
  BY <1>1, <1>2, <1>3

LEMMA LinesStep == LinesInv /\ [UartNext]_uartVars => LinesInv'
<1> SUFFICES ASSUME LinesInv, [UartNext]_uartVars PROVE LinesInv'
  OBVIOUS
<1>0. UartTypeOK /\ UartTypeOK'
  BY UartTypeStep DEF LinesInv
<1> SUFFICES ASSUME ~refused' PROVE Flow' /\ Gathered' /\ Whole'
  BY <1>0 DEF LinesInv
<1>1. ~refused
  BY DEF UartNext, uartVars, TypeLine, ReadBytes, KeepCharacter, EndLine,
         RefuseLine, BroadcastLine, ReportToHost, WriteToHost
<1>2. Flow /\ Gathered /\ Whole
  BY <1>1 DEF LinesInv
<1>3. /\ rxBuffer \in Seq(Character) /\ work \in Seq(Character)
      /\ fifo \in Seq(Character) /\ Sent \in Seq(Seq(Character)) /\ Len(Sent) \in Nat
      /\ typed \in Seq(LineLength) /\ Len(typed) \in Nat
      /\ LineLength \subseteq Nat \ {0}
      /\ Rest \in Seq(Character) /\ Len(Rest) \in Nat
  <2>1. /\ rxBuffer \in Seq(Character) /\ work \in Seq(Character)
        /\ fifo \in Seq(Character) /\ typed \in Seq(LineLength)
    BY <1>0 DEF UartTypeOK
  <2>2. Sent \in Seq(Seq(Character)) /\ Len(Sent) \in Nat
    BY <1>0, SentFacts
  <2>3. Rest \in Seq(Character) /\ Len(Rest) \in Nat
    BY <1>0, RestFacts
  <2>4. LineLength \subseteq Nat \ {0}
    BY UartAssumption
  <2> QED
    BY <2>1, <2>2, <2>3, <2>4
<1>4. ASSUME NEW n \in LineLength, TypeLine(n) PROVE Flow' /\ Gathered' /\ Whole'
  <2> DEFINE l == Len(typed) + 1
  <2>1. /\ rxBuffer' = rxBuffer /\ work' = work /\ Sent' = Sent
        /\ typed' = Append(typed, n)
    BY <1>4 DEF TypeLine, Sent
  <2>2. /\ Len(typed') = l /\ typed'[l] = n /\ l \in Nat /\ n \in Nat \ {0}
        /\ \A k \in 1 .. Len(typed) : typed'[k] = typed[k]
    BY <1>3, <1>4, <2>1
  <2>3. /\ Len(Rest') = Len(Rest) + n + 1
        /\ \A k \in 1 .. Len(Rest) : Rest'[k] = Rest[k]
        /\ \A k \in 1 .. n : Rest'[Len(Rest) + k] = <<l, k>>
        /\ Rest'[Len(Rest) + n + 1] = <<l, 0>>
    <3>1. /\ fifo' \in Seq(Character) /\ Len(fifo') = Len(fifo) + n + 1
          /\ \A k \in 1 .. Len(fifo) : fifo'[k] = fifo[k]
      BY <1>0, <1>4, TypedFacts
    <3>2. /\ \A k \in 1 .. n : fifo'[Len(fifo) + k] = <<l, k>>
          /\ fifo'[Len(fifo) + n + 1] = <<l, 0>>
      BY <1>0, <1>4, TypedFacts
    <3>3. /\ Len(Rest) = Len(work) + Len(fifo)
          /\ \A k \in 1 .. Len(work) + Len(fifo) :
                Rest[k] = IF k <= Len(work) THEN work[k] ELSE fifo[k - Len(work)]
      BY <1>3, ConcatProperties DEF Rest
    <3>4. /\ Len(Rest') = Len(work) + Len(fifo')
          /\ \A k \in 1 .. Len(work) + Len(fifo') :
                Rest'[k] = IF k <= Len(work) THEN work[k] ELSE fifo'[k - Len(work)]
      BY <1>3, <2>1, <3>1, ConcatProperties, ZenonT(30) DEF Rest
    <3>5. Len(work) \in Nat /\ Len(fifo) \in Nat
      BY <1>3
    <3>6. Len(Rest') = Len(Rest) + n + 1
      BY <2>2, <3>1, <3>3, <3>4, <3>5
    <3>7. \A k \in 1 .. Len(Rest) : Rest'[k] = Rest[k]
      <4> SUFFICES ASSUME NEW k \in 1 .. Len(work) + Len(fifo) PROVE Rest'[k] = Rest[k]
        BY <3>3
      <4>1. CASE k <= Len(work)
        BY <2>2, <3>1, <3>3, <3>4, <3>5, <4>1
      <4>2. CASE ~(k <= Len(work))
        <5>1. k - Len(work) \in 1 .. Len(fifo) /\ k \in 1 .. Len(work) + Len(fifo')
          BY <2>2, <3>1, <3>5, <4>2
        <5> QED
          BY <3>1, <3>3, <3>4, <4>2, <5>1
      <4> QED
        BY <4>1, <4>2
    <3>8. \A k \in 1 .. n : Rest'[Len(Rest) + k] = <<l, k>>
      <4> SUFFICES ASSUME NEW k \in 1 .. n PROVE Rest'[Len(Rest) + k] = <<l, k>>
        OBVIOUS
      <4>1. /\ Len(Rest) + k \in 1 .. Len(work) + Len(fifo')
            /\ ~(Len(Rest) + k <= Len(work))
            /\ (Len(Rest) + k) - Len(work) = Len(fifo) + k
        BY <2>2, <3>1, <3>3, <3>5
      <4> QED
        BY <3>2, <3>4, <4>1
    <3>9. Rest'[Len(Rest) + n + 1] = <<l, 0>>
      <4>1. /\ Len(Rest) + n + 1 \in 1 .. Len(work) + Len(fifo')
            /\ ~(Len(Rest) + n + 1 <= Len(work))
            /\ (Len(Rest) + n + 1) - Len(work) = Len(fifo) + n + 1
        BY <2>2, <3>1, <3>3, <3>5
      <4> QED
        BY <3>2, <3>4, <4>1
    <3> QED
      BY <3>6, <3>7, <3>8, <3>9
  <2> HIDE DEF l
  <2>4. l = Len(typed) + 1
    BY DEF l
  <2>5. \A k \in 1 .. Len(Rest) + n + 1 :
           \/ k \in 1 .. Len(Rest) /\ Rest'[k] = Rest[k]
           \/ \E i \in 1 .. n : k = Len(Rest) + i /\ Rest'[k] = <<l, i>>
           \/ k = Len(Rest) + n + 1 /\ Rest'[k] = <<l, 0>>
    <3> SUFFICES ASSUME NEW k \in 1 .. Len(Rest) + n + 1, k \notin 1 .. Len(Rest),
                        k # Len(Rest) + n + 1
                 PROVE  \E i \in 1 .. n : k = Len(Rest) + i /\ Rest'[k] = <<l, i>>
      BY <1>3, <2>2, <2>3
    <3>2. Len(Rest) \in Nat /\ n \in Nat
      BY <1>3, <2>2
    <3>1. k - Len(Rest) \in 1 .. n /\ k = Len(Rest) + (k - Len(Rest))
      BY <3>2
    <3> QED
      BY <2>3, <3>1
  <2>7. \A k \in 1 .. Len(Rest') : Valid(Rest[k])'
    <3> SUFFICES ASSUME NEW k \in 1 .. Len(Rest) + n + 1 PROVE Valid(Rest[k])'
      BY <2>3
    <3>1. CASE k \in 1 .. Len(Rest) /\ Rest'[k] = Rest[k]
      <4>1. Valid(Rest[k])
        BY <1>2, <3>1 DEF Flow
      <4> QED
        BY <1>3, <2>2, <2>4, <3>1, <4>1, SMTT(30) DEF Valid
    <3>4. ASSUME NEW i \in 0 .. n, Rest'[k] = <<l, i>> PROVE Valid(Rest[k])'
      <4>1. Rest'[k][1] = l /\ Rest'[k][2] = i
        BY <3>4
      <4>2. l \in 1 .. Len(typed') /\ i \in 0 .. typed'[l]
        BY <1>3, <2>2, <2>4
      <4> QED
        BY <4>1, <4>2 DEF Valid
    <3>2. CASE Rest'[k] = <<l, 0>>
      BY <2>2, <3>2, <3>4
    <3>3. CASE \E i \in 1 .. n : Rest'[k] = <<l, i>>
      BY <2>2, <3>3, <3>4
    <3> QED
      BY <2>5, <3>1, <3>2, <3>3
  <2>8. \A k \in 1 .. Len(Rest') - 1 : Rest'[k + 1] = After(Rest[k])'
    <3> SUFFICES ASSUME NEW k \in 1 .. Len(Rest) + n PROVE Rest'[k + 1] = After(Rest[k])'
      BY <1>3, <2>2, <2>3
    <3>1. CASE k \in 1 .. Len(Rest) - 1
      <4>1. /\ Rest'[k] = Rest[k] /\ Rest'[k + 1] = Rest[k + 1]
            /\ Rest[k + 1] = After(Rest[k]) /\ Valid(Rest[k])
        <5>1. k \in 1 .. Len(Rest) /\ k + 1 \in 1 .. Len(Rest)
          BY <1>3, <3>1
        <5>2. Rest[k + 1] = After(Rest[k]) /\ Valid(Rest[k])
          BY <1>2, <3>1, <5>1 DEF Flow
        <5> QED
          BY <2>3, <5>1, <5>2
      <4>2. typed'[Rest[k][1]] = typed[Rest[k][1]]
        BY <2>2, <4>1 DEF Valid
      <4> QED
        BY <4>1, <4>2 DEF After
    <3>2. CASE k = Len(Rest)
      <4>1. k \in 1 .. Len(Rest) /\ Rest'[k] = Rest[k] /\ Rest # <<>>
        BY <1>3, <2>3, <3>2
      <4>2. Rest'[k] = <<Len(typed), 0>>
        BY <1>2, <3>2, <4>1 DEF Flow
      <4>3. Rest'[k + 1] = <<l, 1>>
        BY <2>2, <2>3, <3>2
      <4> QED
        BY <2>4, <4>2, <4>3 DEF After, Ends
    <3>3. CASE k \in Len(Rest) + 1 .. Len(Rest) + n
      <4> DEFINE i == k - Len(Rest)
      <4>1. i \in 1 .. n /\ k = Len(Rest) + i /\ k + 1 = Len(Rest) + (i + 1)
        BY <1>3, <2>2, <3>3
      <4>2. Rest'[k] = <<l, i>>
        BY <2>3, <4>1
      <4> HIDE DEF i
      <4>3. CASE i = n
        <5>1. Rest'[k + 1] = <<l, 0>>
          BY <1>3, <2>2, <2>3, <4>1, <4>3
        <5> QED
          <6>1. /\ Rest'[k][1] = l /\ Rest'[k][2] = i /\ i # 0
                /\ typed'[Rest'[k][1]] = Rest'[k][2]
            BY <2>2, <4>1, <4>2, <4>3
          <6> QED
            BY <5>1, <6>1 DEF After, Ends
      <4>4. CASE i # n
        <5>2. i + 1 \in 1 .. n
          BY <2>2, <4>1, <4>4
        <5>1. Rest'[k + 1] = <<l, i + 1>>
          BY <2>3, <4>1, <5>2
        <5> QED
          BY <2>2, <4>1, <4>2, <4>4, <5>1 DEF After, Ends
      <4> QED
        BY <4>3, <4>4
    <3> QED
      BY <1>3, <2>2, <3>1, <3>2, <3>3
  <2>9. Rest' # <<>> /\ Rest'[Len(Rest')] = <<Len(typed'), 0>>
    BY <1>3, <2>2, <2>3
  <2>10. Gathered'
    <3>1. CASE Rest = <<>>
      <4>1. rxBuffer' = <<>> /\ Len(Sent') + 1 = l
        BY <1>2, <2>1, <2>4, <3>1 DEF Gathered
      <4>2. Rest'[1] = <<l, 1>>
        BY <2>2, <2>3, <3>1
      <4>3. Cut(l, 0) = <<>>
        BY <1>0, <2>2, CutFacts
      <4> QED
        BY <2>9, <4>1, <4>2, <4>3 DEF Gathered, Ends
    <3>2. CASE Rest # <<>>
      <4>1. Rest'[1] = Rest[1] /\ Valid(Rest[1])
        <5>1. 1 \in 1 .. Len(Rest)
          BY <1>3, <3>2
        <5> QED
          BY <1>2, <2>3, <5>1 DEF Flow
      <4>2. typed'[Rest[1][1]] = typed[Rest[1][1]]
        BY <2>2, <4>1 DEF Valid
      <4> QED
        BY <1>2, <2>1, <2>9, <3>2, <4>1, <4>2 DEF Gathered
    <3> QED
      BY <3>1, <3>2
  <2>11. Whole'
    BY <1>2, <1>3, <2>1, <2>2, <2>4 DEF Whole
  <2> QED
    BY <2>7, <2>8, <2>9, <2>10, <2>11 DEF Flow
<1>5. ASSUME Rest' = Rest, UNCHANGED <<typed, rxBuffer>>, Sent' = Sent
      PROVE  Flow' /\ Gathered' /\ Whole'
  BY <1>2, <1>5 DEF Flow, Gathered, Whole, Valid, After
<1>6. ASSUME NEW received \in 1 .. BUF_SIZE, ReadBytes(received)
      PROVE  Flow' /\ Gathered' /\ Whole'
  <2>1. Rest' = Rest
    BY <1>0, <1>6, ReadFacts DEF Rest
  <2> QED
    BY <1>5, <1>6, <2>1 DEF ReadBytes, Sent
\* What is left when a character is taken.
<1>7. ASSUME work # <<>>, work' = Tail(work), UNCHANGED <<fifo, typed>>
      PROVE  /\ Flow'
             /\ Rest # <<>> /\ Rest[1] = Head(work) /\ Valid(Rest[1])
             /\ Rest' = <<>> => Rest[1] = <<Len(typed), 0>>
             /\ Rest' # <<>> => Rest'[1] = After(Rest[1])
  <2>1. Rest # <<>> /\ Rest[1] = Head(work) /\ Rest' = Tail(Rest)
    BY <1>0, <1>7, RestFacts DEF Rest
  <2>2. /\ Len(Rest') = Len(Rest) - 1 /\ Rest' \in Seq(Character)
        /\ \A k \in 1 .. Len(Rest) - 1 : Rest'[k] = Rest[k + 1]
        /\ Len(Rest) \in Nat \ {0}
    BY <1>3, <2>1
  <2>3. \A k \in 1 .. Len(Rest') : Valid(Rest[k])'
    <3> SUFFICES ASSUME NEW k \in 1 .. Len(Rest) - 1 PROVE Valid(Rest[k])'
      BY <2>2
    <3>1. k + 1 \in 1 .. Len(Rest) /\ Rest'[k] = Rest[k + 1]
      BY <2>2
    <3>2. Valid(Rest[k + 1])
      BY <1>2, <3>1 DEF Flow
    <3> QED
      BY <1>7, <3>1, <3>2 DEF Valid
  <2>4. \A k \in 1 .. Len(Rest') - 1 : Rest'[k + 1] = After(Rest[k])'
    <3> SUFFICES ASSUME NEW k \in 1 .. Len(Rest) - 2 PROVE Rest'[k + 1] = After(Rest[k])'
      BY <2>2
    <3>1. /\ k + 1 \in 1 .. Len(Rest) - 1 /\ k \in 1 .. Len(Rest) - 1
          /\ Rest'[k] = Rest[k + 1] /\ Rest'[k + 1] = Rest[(k + 1) + 1]
      BY <2>2
    <3>2. Rest[(k + 1) + 1] = After(Rest[k + 1])
      BY <1>2, <3>1 DEF Flow
    <3> QED
      BY <1>7, <3>1, <3>2 DEF After
  <2>5. Rest' # <<>> => Rest'[Len(Rest')] = <<Len(typed'), 0>>
    <3> SUFFICES ASSUME Rest' # <<>> PROVE Rest'[Len(Rest')] = <<Len(typed), 0>>
      BY <1>7
    <3>1. Len(Rest') \in 1 .. Len(Rest) - 1 /\ Len(Rest') + 1 = Len(Rest)
      BY <2>2
    <3>2. Rest'[Len(Rest')] = Rest[Len(Rest)]
      BY <2>2, <3>1
    <3> QED
      BY <1>2, <2>1, <3>2 DEF Flow
  <2>6. Rest' = <<>> => Rest[1] = <<Len(typed), 0>>
    <3> SUFFICES ASSUME Rest' = <<>> PROVE Rest[1] = <<Len(typed), 0>>
      OBVIOUS
    <3>1. Len(Rest) = 1
      BY <2>2
    <3> QED
      BY <1>2, <2>1, <3>1 DEF Flow
  <2>7. Rest' # <<>> => Rest'[1] = After(Rest[1])
    <3> SUFFICES ASSUME Rest' # <<>> PROVE Rest'[1] = After(Rest[1])
      OBVIOUS
    <3>1. 1 \in 1 .. Len(Rest) - 1 /\ 1 + 1 = 2
      BY <2>2
    <3> QED
      BY <1>2, <2>2, <3>1 DEF Flow
  <2>8. Valid(Rest[1])
    BY <1>2, <2>2 DEF Flow
  <2> QED
    BY <2>1, <2>3, <2>4, <2>5, <2>6, <2>7, <2>8 DEF Flow
<1>8. CASE KeepCharacter
  <2> DEFINE c == Rest[1]
             l == c[1]
  <2>1. /\ Flow' /\ Rest # <<>> /\ c = Head(work) /\ Valid(c)
        /\ Rest' = <<>> => c = <<Len(typed), 0>>
        /\ Rest' # <<>> => Rest'[1] = After(c)
    BY <1>7, <1>8 DEF KeepCharacter
  <2>2. /\ ~Ends(c) /\ rxBuffer' = Kept(rxBuffer, c) /\ typed' = typed /\ Sent' = Sent
    BY <1>8, <2>1 DEF KeepCharacter, Sent
  <2>3. /\ l = Len(Sent) + 1 /\ rxBuffer = Cut(l, c[2] - 1)
    BY <1>2, <2>1, <2>2 DEF Gathered
  <2>4. c = <<l, c[2]>> /\ l \in Nat /\ c[2] \in Nat \ {0} /\ c[2] <= typed[l]
        /\ l \in 1 .. Len(typed) /\ typed[l] \in Nat
    <3>1. c \in Character
      BY <1>3, <2>1
    <3>2. typed[l] \in Nat
      <4>1. l \in 1 .. Len(typed)
        BY <2>1 DEF Valid
      <4>2. typed[l] \in LineLength
        BY <1>3, <4>1
      <4> QED
        BY <1>3, <4>2
    <3>3. c = <<c[1], c[2]>> /\ c[1] \in Nat /\ c[2] \in Nat
      BY <3>1, UartAssumption DEF Character
    <3> QED
      BY <2>1, <2>2, <3>2, <3>3 DEF Valid, Ends
  <2> HIDE DEF c, l
  <2>5. Rest' # <<>>
    <3>1. c # <<Len(typed), 0>>
      BY <2>2 DEF Ends
    <3> QED
      BY <2>1, <3>1
  <2>6. rxBuffer' = Cut(l, c[2])
    <3>1. c[2] - 1 \in Nat /\ (c[2] - 1) + 1 = c[2]
      BY <2>4
    <3>2. Kept(Cut(l, c[2] - 1), <<l, (c[2] - 1) + 1>>) = Cut(l, (c[2] - 1) + 1)
      BY <1>0, <2>4, <3>1, CutFacts
    <3> QED
      BY <2>2, <2>3, <2>4, <3>1, <3>2
  <2>7. Gathered'
    <3>1. CASE c[2] = typed[l]
      <4>1. Rest'[1] = <<l, 0>>
        BY <2>1, <2>2, <2>5, <3>1 DEF After, l
      <4> QED
        BY <2>2, <2>3, <2>5, <2>6, <3>1, <4>1 DEF Gathered, Ends
    <3>2. CASE c[2] # typed[l]
      <4>1. Rest'[1] = <<l, c[2] + 1>>
        BY <2>1, <2>2, <2>5, <3>2 DEF After, l
      <4>2. (c[2] + 1) - 1 = c[2] /\ c[2] + 1 # 0
        BY <2>4
      <4> QED
        BY <2>2, <2>3, <2>5, <2>6, <4>1, <4>2 DEF Gathered, Ends
    <3> QED
      BY <3>1, <3>2
  <2>8. Whole'
    BY <1>2, <2>2 DEF Whole
  <2> QED
    BY <2>1, <2>7, <2>8
<1>9. CASE EndLine
  <2> DEFINE c == Rest[1]
             l == c[1]
  <2>1. /\ Flow' /\ Rest # <<>> /\ c = Head(work) /\ Valid(c)
        /\ Rest' = <<>> => c = <<Len(typed), 0>>
        /\ Rest' # <<>> => Rest'[1] = After(c)
    BY <1>7, <1>9 DEF EndLine
  <2>2. /\ Ends(c) /\ rxBuffer' = <<>> /\ typed' = typed
        /\ Sent' = Append(Sent, rxBuffer)
    BY <1>0, <1>9, <2>1, SentFacts DEF EndLine
  <2>3. l = Len(Sent) + 1 /\ rxBuffer = Cut(l, typed[l])
    BY <1>2, <2>1, <2>2 DEF Gathered
  <2>4. l \in 1 .. Len(typed)
    BY <2>1 DEF Valid
  <2> HIDE DEF c, l
  <2>5. /\ Len(Sent') = l /\ Sent'[l] = rxBuffer
        /\ \A i \in 1 .. Len(Sent) : Sent'[i] = Sent[i]
        /\ \A i \in 1 .. l : i \in 1 .. Len(Sent) \/ i = l
    BY <1>3, <2>2, <2>3
  <2>6. Whole'
    BY <1>2, <1>3, <2>2, <2>3, <2>4, <2>5 DEF Whole
  <2>7. Gathered'
    <3>1. CASE Rest' = <<>>
      <4>1. l = Len(typed)
        BY <2>1, <3>1 DEF l
      <4> QED
        BY <2>2, <2>5, <3>1, <4>1 DEF Gathered
    <3>2. CASE Rest' # <<>>
      <4>1. Rest'[1] = <<l + 1, 1>>
        BY <2>1, <2>2, <3>2 DEF After, l
      <4>2. Cut(l + 1, 0) = <<>>
        BY <1>0, <2>4, CutFacts
      <4> QED
        BY <2>2, <2>5, <3>2, <4>1, <4>2 DEF Gathered, Ends
    <3> QED
      BY <3>1, <3>2
  <2> QED
    BY <2>1, <2>6, <2>7
<1>10. ASSUME \/ BroadcastLine \/ WriteToHost \/ UNCHANGED uartVars
              \/ \E size \in ReportSize : ReportToHost(size)
       PROVE  Flow' /\ Gathered' /\ Whole'
  <2>1. UNCHANGED <<typed, rxBuffer, work, fifo>>
    BY <1>10 DEF BroadcastLine, WriteToHost, ReportToHost, uartVars
  <2>2. ~EndLine
    <3> SUFFICES ASSUME EndLine PROVE FALSE
      OBVIOUS
    <3>1. work # <<>> /\ work' = Tail(work)
      BY DEF EndLine
    <3>2. Len(work') = Len(work) - 1 /\ Len(work) \in Nat
      BY <1>3, <3>1
    <3> QED
      BY <2>1, <3>2
  <2>3. Sent' = Sent
    BY <1>0, <2>2, SentFacts
  <2>4. Rest' = Rest
    BY <2>1 DEF Rest
  <2> QED
    BY <1>5, <2>1, <2>3, <2>4
<1>11. ~RefuseLine
  BY DEF RefuseLine
<1> QED
  BY <1>4, <1>6, <1>8, <1>9, <1>10, <1>11 DEF UartNext

LEMMA LinesInit == UartInit => LinesInv
<1> SUFFICES ASSUME UartInit PROVE LinesInv
  OBVIOUS
<1>1. Rest = <<>> /\ Sent = <<>> /\ rxBuffer = <<>> /\ typed = <<>>
  BY DEF UartInit, Rest, Sent
<1>2. Flow /\ Gathered /\ Whole
  BY <1>1 DEF Flow, Gathered, Whole
<1> QED
  BY <1>2, UartTypeInit DEF LinesInv

(* WholeLines: for any sizes of the buffers and any lines and chunks, the
   messages are the typed lines one for one, cut at BUF_SIZE, as long as no line
   was refused. *)
THEOREM LinesCorrect == UartSpec => []WholeLines
<1>1. LinesInv => WholeLines
  <2> SUFFICES ASSUME LinesInv, ~refused, NEW i \in DOMAIN Sent
               PROVE  Sent[i] = Line(i, IF typed[i] < BUF_SIZE THEN typed[i] ELSE BUF_SIZE)
    BY DEF WholeLines
  <2>1. i \in 1 .. Len(Sent)
    BY SentFacts DEF LinesInv
  <2> QED
    BY <2>1 DEF LinesInv, Whole, Cut
<1> QED
  BY <1>1, LinesInit, LinesStep, PTL DEF UartSpec
=============================================================================
