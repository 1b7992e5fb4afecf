--------------------------- MODULE ToRoot_proofs ----------------------------
(***************************************************************************)
(* Theorems about ToRoot, for any number of children, reports and retries, *)
(* and about FtpUploader, for any size of the flash.                       *)
(***************************************************************************)
EXTENDS FtpUploader, FiniteSetTheorems, TLAPS

(* A child's current report is a report once it has sent one. *)
LEMMA RawSeqType ==
    ASSUME ToRootTypeOK, NEW c \in Child, number[c] > 0
    PROVE  RawSeq(c) \in Report
  BY ToRootAssumption DEF ToRootTypeOK, RawSeq, Report

\* A child repeats only what it has sent.
Sent == \A c \in Child : copies[c] > 0 => number[c] > 0

(* Every action keeps the types. *)
LEMMA TypeStep ==
    ASSUME ToRootTypeOK, Sent, [ToRootNext]_toRootVars
    PROVE  ToRootTypeOK' /\ Sent'
<1>1. CASE UNCHANGED toRootVars
  BY <1>1 DEF toRootVars, ToRootTypeOK, Sent
<1>2. ASSUME NEW c \in Child, SendToRoot(c) PROVE ToRootTypeOK' /\ Sent'
  <2>1. number' \in [Child -> 0 .. MaxSent] /\ number'[c] > 0
    BY <1>2, ToRootAssumption DEF SendToRoot, ToRootTypeOK
  <2>2. copies' \in [Child -> 0 .. MAX_RETRY]
    BY <1>2, ToRootAssumption DEF SendToRoot, ToRootTypeOK
  <2>3. Sent'
    BY <1>2, <2>1, <2>2 DEF SendToRoot, ToRootTypeOK, Sent
  <2> QED  BY <1>2, <2>1, <2>2, <2>3 DEF SendToRoot, ToRootTypeOK
<1>3. ASSUME NEW c \in Child, LoseCopy(c) PROVE ToRootTypeOK' /\ Sent'
  <2>1. copies' \in [Child -> 0 .. MAX_RETRY]
    BY <1>3, ToRootAssumption DEF LoseCopy, ToRootTypeOK
  <2>2. Sent'
    BY <1>3, ToRootAssumption DEF LoseCopy, ToRootTypeOK, Sent
  <2> QED  BY <1>3, <2>1, <2>2 DEF LoseCopy, ToRootTypeOK
<1>4. ASSUME NEW c \in Child, NEW answered \in BOOLEAN, ReceiveRaw(c, answered)
      PROVE  ToRootTypeOK' /\ Sent'
  <2>1. RawSeq(c) \in Report
    BY <1>4, RawSeqType DEF ReceiveRaw, Sent
  <2>2. copies' \in [Child -> 0 .. MAX_RETRY] /\ number' = number
    BY <1>4, ToRootAssumption, SMTT(30) DEF ReceiveRaw, ToRootTypeOK
  <2>3. Sent'
    BY <1>4, ToRootAssumption DEF ReceiveRaw, ToRootTypeOK, Sent
  <2>5. printed' \in Seq(Report)
    <3>1. CASE printed' = printed
      BY <3>1 DEF ToRootTypeOK
    <3>2. CASE printed' = Append(printed, RawSeq(c))
      BY <2>1, <3>2 DEF ToRootTypeOK
    <3> QED  BY <1>4, <3>1, <3>2 DEF ReceiveRaw
  <2>6. Cardinality({RawSeq(c)}) = 1
    BY FS_Singleton
  <2>7. lastRecvSeq' \subseteq Report /\ Cardinality(lastRecvSeq') <= 1
    <3>1. lastRecvSeq' = lastRecvSeq \/ lastRecvSeq' = {RawSeq(c)}
      BY <1>4 DEF ReceiveRaw, LastRawAfter
    <3>2. CASE lastRecvSeq' = {RawSeq(c)}
      <4>1. Cardinality(lastRecvSeq') = 1
        BY <2>6, <3>2
      <4> QED  BY <2>1, <3>2, <4>1
    <3> QED  BY <3>1, <3>2 DEF ToRootTypeOK
  <2> QED
    BY <1>4, <2>2, <2>3, <2>5, <2>7 DEF ReceiveRaw, ToRootTypeOK
<1> QED  BY <1>1, <1>2, <1>3, <1>4 DEF ToRootNext

(* The initial state has the types. *)
LEMMA TypeInit == ASSUME ToRootInit PROVE ToRootTypeOK /\ Sent
<1>1. Cardinality({}) = 0
  BY FS_EmptySet
<1>2. <<>> \in Seq(Report)
  OBVIOUS
<1>3. 0 \in 0 .. MaxSent /\ 0 \in 0 .. MAX_RETRY /\ ~(0 > 0)
  BY ToRootAssumption
<1>4. Sent
  BY <1>3 DEF ToRootInit, Sent
<1>5. /\ number \in [Child -> 0 .. MaxSent]
      /\ copies \in [Child -> 0 .. MAX_RETRY]
  BY <1>3 DEF ToRootInit
<1>6. lastRecvSeq \subseteq Report /\ Cardinality(lastRecvSeq) <= 1
  <2>1. lastRecvSeq = {}
    BY DEF ToRootInit
  <2>2. Cardinality(lastRecvSeq) = 0
    BY <1>1, <2>1
  <2> QED  BY <2>1, <2>2
<1>7. printed \in Seq(Report)
  BY <1>2 DEF ToRootInit
<1> QED
  BY <1>4, <1>5, <1>6, <1>7 DEF ToRootInit, ToRootTypeOK

(* Every reachable state of the children and the root is well typed. *)
THEOREM TypeCorrect == ToRootSpec => [](ToRootTypeOK /\ Sent)
  BY TypeInit, TypeStep, PTL DEF ToRootSpec

-----------------------------------------------------------------------------
Printed == {printed[i] : i \in DOMAIN printed}

\* What is remembered was printed.
Heard == lastRecvSeq \subseteq Printed

(* Accepting a report adds it to the printed ones. *)
LEMMA PrintedAppend ==
    ASSUME printed \in Seq(Report), NEW r \in Report,
           printed' = Append(printed, r)
    PROVE  Printed' = Printed \union {r}
<1>1. /\ DOMAIN printed' = 1 .. Len(printed) + 1
      /\ DOMAIN printed = 1 .. Len(printed)
      /\ Len(printed) \in Nat
  OBVIOUS
<1>2. /\ printed'[Len(printed) + 1] = r
      /\ \A i \in 1 .. Len(printed) : printed'[i] = printed[i]
  OBVIOUS
<1>3. 1 .. Len(printed) + 1 = (1 .. Len(printed)) \union {Len(printed) + 1}
  BY <1>1
<1> QED  BY <1>1, <1>2, <1>3 DEF Printed

(* Every action keeps Heard. *)
LEMMA HeardStep ==
    ASSUME ToRootTypeOK, Sent, Heard, [ToRootNext]_toRootVars
    PROVE  Heard'
<1>1. CASE UNCHANGED toRootVars
  BY <1>1 DEF toRootVars, Heard, Printed
<1>2. ASSUME NEW c \in Child, SendToRoot(c) \/ LoseCopy(c) PROVE Heard'
  BY <1>2 DEF SendToRoot, LoseCopy, Heard, Printed
<1>3. ASSUME NEW c \in Child, NEW answered \in BOOLEAN, ReceiveRaw(c, answered)
      PROVE  Heard'
  <2>1. RawSeq(c) \in Report /\ printed \in Seq(Report)
    BY <1>3, RawSeqType DEF ReceiveRaw, Sent, ToRootTypeOK
  <2>3. CASE AcceptsRaw(RawSeq(c))
    <3>1. Printed' = Printed \union {RawSeq(c)} /\ lastRecvSeq' = {RawSeq(c)}
      BY <1>3, <2>1, <2>3, PrintedAppend DEF ReceiveRaw, LastRawAfter
    <3> QED  BY <3>1 DEF Heard
  <2>4. CASE ~AcceptsRaw(RawSeq(c))
    <3>1. RawSeq(c) \in Printed
      BY <2>4 DEF AcceptsRaw, Heard
    <3>2. Printed' = Printed /\ lastRecvSeq' = lastRecvSeq
      BY <1>3, <2>4 DEF ReceiveRaw, Printed
    <3> QED  BY <3>2 DEF Heard
  <2> QED  BY <2>3, <2>4
<1> QED  BY <1>1, <1>2, <1>3 DEF ToRootNext

\* A response is sent only for what was printed now or is remembered.
LEMMA AnswerStep ==
    ASSUME ToRootTypeOK, Sent, Heard, ToRootNext,
           NEW c \in Child, copies[c] > 1, copies'[c] = 0
    PROVE  RawSeq(c) \in Printed'
<1>1. copies \in [Child -> Nat]
  BY ToRootAssumption DEF ToRootTypeOK
<1>2. PICK answered \in BOOLEAN : ReceiveRaw(c, answered)
  <2>1. ASSUME NEW d \in Child, SendToRoot(d) PROVE FALSE
    BY <1>1, <2>1, ToRootAssumption DEF SendToRoot
  <2>2. ASSUME NEW d \in Child, LoseCopy(d) PROVE FALSE
    BY <1>1, <2>2 DEF LoseCopy
  <2>3. ASSUME NEW d \in Child, NEW answered \in BOOLEAN, ReceiveRaw(d, answered)
        PROVE  d = c
    BY <1>1, <2>3 DEF ReceiveRaw
  <2> QED
    BY <2>1, <2>2, <2>3 DEF ToRootNext
<1>3. RawSeq(c) \in Report /\ printed \in Seq(Report)
  BY <1>2, RawSeqType DEF ReceiveRaw, Sent, ToRootTypeOK
<1>4. CASE AcceptsRaw(RawSeq(c))
  <2>1. Printed' = Printed \union {RawSeq(c)}
    BY <1>2, <1>3, <1>4, PrintedAppend DEF ReceiveRaw
  <2> QED
    BY <2>1
<1>5. CASE ~AcceptsRaw(RawSeq(c))
  <2>1. Printed' = Printed
    BY <1>2, <1>5 DEF ReceiveRaw, Printed
  <2> QED
    BY <1>5, <2>1 DEF AcceptsRaw, Heard
<1> QED
  BY <1>4, <1>5

(* A child that stops repeating before it has sent all its copies has been heard by
   the root, whoever reported before or after. *)
THEOREM AnsweredCorrect == ToRootSpec => AnsweredIsPrinted
<1>1. ToRootInit => Heard
  BY DEF ToRootInit, Heard
<1>2. ToRootTypeOK /\ Sent /\ Heard /\ [ToRootNext]_toRootVars =>
        [\A c \in Child : copies[c] > 1 /\ copies'[c] = 0 =>
            \E i \in DOMAIN printed' : printed'[i] = RawSeq(c)]_toRootVars
  BY AnswerStep DEF Printed
<1> QED
  BY <1>1, <1>2, TypeInit, TypeStep, HeardStep, PTL DEF ToRootSpec, AnsweredIsPrinted

-----------------------------------------------------------------------------
\* As long as no two children repeat at the same time: what was printed is old,
\* except the report that is repeated now, which the root remembers.
Remembered ==
    ~overlap =>
        /\ \A c, d \in Child : copies[c] > 0 /\ copies[d] > 0 => c = d
        /\ \A r \in Printed : r[2] <= number[r[1]]
        /\ \A c \in Child :
            copies[c] > 0 /\ RawSeq(c) \in Printed => RawSeq(c) \in lastRecvSeq

OnceInv == Remembered /\ PrintedOnce

(* A new report is not among the printed ones. *)
LEMMA SendKeepsOnce ==
    ASSUME ToRootTypeOK, OnceInv, NEW c \in Child, SendToRoot(c)
    PROVE  OnceInv'
<1>1. PrintedOnce'
  BY DEF SendToRoot, OnceInv, PrintedOnce
<1>2. ASSUME ~overlap' PROVE Remembered'
  <2>1. ~overlap /\ \A d \in Child : ~(copies[d] > 0)
    BY <1>2 DEF SendToRoot
  <2>2. /\ number' = [number EXCEPT ![c] = @ + 1]
        /\ \A d \in Child : number[d] \in Nat
    BY DEF SendToRoot, ToRootTypeOK
  <2>3. number'[c] = number[c] + 1
        /\ \A d \in Child : d # c => number'[d] = number[d]
    BY <2>2 DEF ToRootTypeOK
  <2>4. Printed' = Printed
    BY DEF SendToRoot, Printed
  <2>5. \A r \in Printed : r \in Child \X Nat
    BY ToRootAssumption DEF Printed, ToRootTypeOK, Report
  <2>6. \A r \in Printed : r[2] <= number[r[1]]
    BY <2>1 DEF OnceInv, Remembered
  <2>7. \A r \in Printed : r[2] <= number'[r[1]]
    BY <2>2, <2>3, <2>5, <2>6
  <2>8. RawSeq(c)' \notin Printed
    <3>1. RawSeq(c)' = <<c, number[c] + 1>>
      BY <2>3 DEF RawSeq
    <3>2. ~(number[c] + 1 <= number[c])
      BY <2>2
    <3> QED  BY <2>6, <3>1, <3>2
  <2>9. \A d \in Child : copies'[d] > 0 => d = c
    BY <2>1 DEF SendToRoot, ToRootTypeOK
  <2> QED  BY <2>4, <2>7, <2>8, <2>9 DEF Remembered
<1> QED  BY <1>1, <1>2 DEF OnceInv, Remembered

(* A copy that the root receives is dropped when its report was printed. *)
LEMMA ReceiveKeepsOnce ==
    ASSUME ToRootTypeOK, Sent, OnceInv, NEW c \in Child,
           NEW answered \in BOOLEAN, ReceiveRaw(c, answered)
    PROVE  OnceInv'
<1>1. RawSeq(c) \in Report /\ printed \in Seq(Report) /\ copies[c] > 0
  BY RawSeqType DEF ReceiveRaw, Sent, ToRootTypeOK
<1>2. number' = number /\ overlap' = overlap
  BY DEF ReceiveRaw
<1>3. \A d \in Child : copies'[d] > 0 => copies[d] > 0
  BY ToRootAssumption DEF ReceiveRaw, ToRootTypeOK
<1>4. \A d \in Child : RawSeq(d)' = RawSeq(d)
  BY <1>2 DEF RawSeq
<1>5. CASE overlap
  BY <1>2, <1>5 DEF OnceInv, Remembered, PrintedOnce
<1>6. CASE ~overlap /\ ~AcceptsRaw(RawSeq(c))
  <2>1. printed' = printed /\ lastRecvSeq' = lastRecvSeq
    BY <1>6 DEF ReceiveRaw
  <2>2. Printed' = Printed
    BY <2>1 DEF Printed
  <2> QED
    BY <1>2, <1>3, <1>4, <1>6, <2>1, <2>2
       DEF OnceInv, Remembered, PrintedOnce
<1>7. CASE ~overlap /\ AcceptsRaw(RawSeq(c))
  <2>1. printed' = Append(printed, RawSeq(c)) /\ lastRecvSeq' = {RawSeq(c)}
    BY <1>7 DEF ReceiveRaw, LastRawAfter
  <2>2. Printed' = Printed \union {RawSeq(c)}
    BY <1>1, <2>1, PrintedAppend
  <2>3. RawSeq(c) \notin Printed
    BY <1>1, <1>7 DEF AcceptsRaw, OnceInv, Remembered
  <2>4. PrintedOnce'
    <3>1. Len(printed) \in Nat /\ DOMAIN printed = 1 .. Len(printed)
          /\ DOMAIN printed' = 1 .. Len(printed) + 1
      BY <1>1, <2>1
    <3>2. /\ printed'[Len(printed) + 1] = RawSeq(c)
          /\ \A i \in 1 .. Len(printed) : printed'[i] = printed[i]
      BY <1>1, <2>1
    <3>3. \A i \in 1 .. Len(printed) : printed[i] # RawSeq(c)
      BY <2>3, <3>1 DEF Printed
    <3>4. \A i, j \in 1 .. Len(printed) : printed[i] = printed[j] => i = j
      BY <1>7, <3>1 DEF OnceInv, PrintedOnce
    <3>5. \A i \in DOMAIN printed' :
            i \in 1 .. Len(printed) \/ i = Len(printed) + 1
      BY <3>1
    <3> QED  BY <3>2, <3>3, <3>4, <3>5 DEF PrintedOnce
  <2>5. \A r \in Printed' : r[2] <= number'[r[1]]
    <3>1. RawSeq(c)[2] <= number[RawSeq(c)[1]]
      BY DEF RawSeq, ToRootTypeOK
    <3> QED  BY <1>2, <1>7, <2>2, <3>1 DEF OnceInv, Remembered
  <2>6. \A d \in Child : copies'[d] > 0 => d = c
    BY <1>1, <1>3, <1>7 DEF OnceInv, Remembered
  <2> QED  BY <1>4, <2>1, <2>4, <2>5, <2>6 DEF OnceInv, Remembered
<1> QED  BY <1>5, <1>6, <1>7

(* Every action keeps OnceInv. *)
LEMMA OnceStep ==
    ASSUME ToRootTypeOK, Sent, OnceInv, [ToRootNext]_toRootVars
    PROVE  OnceInv'
<1>1. CASE UNCHANGED toRootVars
  BY <1>1 DEF toRootVars, OnceInv, Remembered, PrintedOnce, Printed, RawSeq
<1>2. ASSUME NEW c \in Child, LoseCopy(c) PROVE OnceInv'
  <2>1. \A d \in Child : copies'[d] > 0 => copies[d] > 0
    BY <1>2, ToRootAssumption DEF LoseCopy, ToRootTypeOK
  <2> QED
    BY <1>2, <2>1
       DEF LoseCopy, OnceInv, Remembered, PrintedOnce, Printed, RawSeq
<1> QED
  BY <1>1, <1>2, SendKeepsOnce, ReceiveKeepsOnce DEF ToRootNext

(* As long as no two children repeat their reports at the same time, the root
   prints no report twice, however many copies and responses are lost. *)
THEOREM OnceCorrect == ToRootSpec => []PrintedOnce
<1>1. ToRootInit => OnceInv
  BY DEF ToRootInit, OnceInv, Remembered, PrintedOnce, Printed
<1>2. OnceInv => PrintedOnce
  BY DEF OnceInv
<1> QED
  BY <1>1, <1>2, TypeInit, TypeStep, OnceStep, PTL DEF ToRootSpec

-----------------------------------------------------------------------------
(* The file that the reports are appended to, and its copy on the server.   *)

Lines == Report \cup {Own, Old}

FileTypes ==
    /\ file \in Seq(Lines) /\ server \in Seq(Lines)
    /\ putFrom \in Nat
    /\ begun \in Nat /\ begun <= Len(printed)

\* The task is created before the old file is removed, but has nothing to do until
\* a line has been appended after that.
Created ==
    /\ ~ftpClientTask => client \in {"none", "receive"} /\ ~queue /\ server = <<>>
    /\ ftpClientTask => \A i \in 1 .. Len(file) : file[i] # Old
    /\ client = "put" => putFrom <= Len(file)

Uploads ==
    /\ Len(server) <= Len(file)
    /\ \A i \in 1 .. Len(server) : server[i] = file[i]

FileInv == ToRootTypeOK /\ Sent /\ FileTypes /\ Created /\ Uploads /\ AcceptedIsMerged

\* A line more in the file, if there is room.
LEMMA AppendedFacts ==
    ASSUME NEW lines \in Seq(Lines), NEW line \in Lines
    PROVE  /\ Appended(lines, line) \in Seq(Lines)
           /\ Len(lines) \in Nat
           /\ \A i \in 1 .. Len(lines) : Appended(lines, line)[i] = lines[i]
           /\ \/ Appended(lines, line) = lines
              \/ /\ Len(Appended(lines, line)) = Len(lines) + 1
                 /\ Appended(lines, line)[Len(lines) + 1] = line
                 /\ Appended(lines, line) # lines
BY DEF Appended

\* The parts of FtpUploader that are ToRoot.
LEMMA FtpIsToRoot == [FtpNext]_ftpVars => [ToRootNext]_toRootVars
<1> SUFFICES ASSUME [FtpNext]_ftpVars PROVE [ToRootNext]_toRootVars
  OBVIOUS
<1>1. ASSUME NEW c \in Child,
             \/ SendToRoot(c) \/ LoseCopy(c)
             \/ \E answered, opened \in BOOLEAN : RawReport(c, answered, opened)
      PROVE  ToRootNext
  BY <1>1 DEF RawReport, ToRootNext
<1>2. \/ RegisterIpEvent \/ GotIp \/ StartTimer
      \/ RootTimer
      \/ ReceiveLayer \/ ConnectFails \/ Login
      \/ \E got \in 0 .. FLASH : Put(got) \/ PutBreaks(got)
      \/ UNCHANGED ftpVars
      => UNCHANGED toRootVars
  BY DEF RegisterIpEvent, GotIp, StartTimer, RootTimer, FirstCall, CreateClient,
         RemoveOld, AppendOwn, Ask, ReceiveLayer, ConnectFails, Login, Put, PutBreaks, ftpVars
<1> QED
  BY <1>1, <1>2 DEF FtpNext

\* The reports stay where they are when the root appends a line of its own.
LEMMA SameMerged ==
    ASSUME AcceptedIsMerged, printed' = printed, unwritten' = unwritten,
           begun' = begun, file' = file, ftpClientTask' = ftpClientTask
    PROVE  AcceptedIsMerged'
<1>1. Recent' = Recent /\ Merged' = Merged
  BY DEF Recent, Merged
<1> QED
  BY <1>1 DEF AcceptedIsMerged

LEMMA OwnLineKeepsMerged ==
    ASSUME FileTypes, printed' = printed, unwritten' = unwritten, begun' = begun,
           ftpClientTask' = ftpClientTask,
           file' = file \/ file' = Append(file, Own),
           AcceptedIsMerged
    PROVE  AcceptedIsMerged'
<1>0. Recent' = Recent
  BY DEF Recent
<1>1. CASE file' = file
  BY <1>1, SameMerged
<1>2. CASE file' = Append(file, Own)
  <2>1. /\ Len(file) \in Nat /\ DOMAIN file = 1 .. Len(file)
        /\ DOMAIN file' = 1 .. Len(file) + 1
        /\ \A i \in 1 .. Len(file) : file'[i] = file[i]
        /\ file'[Len(file) + 1] = Own
    BY <1>2 DEF FileTypes
  <2>2. Merged' = Merged
    <3>1. 1 .. Len(file) + 1 = (1 .. Len(file)) \cup {Len(file) + 1}
      BY <2>1
    <3> QED
      BY <2>1, <3>1 DEF Merged
  <2>3. \A i \in Merged : file'[i] = file[i]
    BY <2>1 DEF Merged
  <2> SUFFICES ASSUME ftpClientTask, ~unwritten
               PROVE  \E place \in [Recent -> Merged] :
                         /\ \A i \in Recent : file'[place[i]] = printed[i]
                         /\ \A i, j \in Recent : i < j => place[i] < place[j]
                         /\ \A k \in Merged : \E i \in Recent : place[i] = k
    BY <1>0, <2>2 DEF AcceptedIsMerged
  <2>4. PICK place \in [Recent -> Merged] :
           /\ \A i \in Recent : file[place[i]] = printed[i]
           /\ \A i, j \in Recent : i < j => place[i] < place[j]
           /\ \A k \in Merged : \E i \in Recent : place[i] = k
    BY DEF AcceptedIsMerged
  <2>5. \A i \in Recent : file'[place[i]] = printed[i]
    BY <2>3, <2>4
  <2> QED
    BY <2>4, <2>5
<1> QED
  BY <1>1, <1>2

\* A report that is accepted and written takes the last place.
LEMMA ReportKeepsMerged ==
    ASSUME FileTypes, printed \in Seq(Report), NEW r \in Report, ftpClientTask, ~unwritten,
           begun' = begun,
           printed' = Append(printed, r), file' = Append(file, r),
           AcceptedIsMerged
    PROVE  AcceptedIsMerged'
<1> DEFINE n == Len(printed)
           m == Len(file)
<1>1. /\ n \in Nat /\ m \in Nat
      /\ DOMAIN printed = 1 .. n /\ DOMAIN printed' = 1 .. n + 1
      /\ DOMAIN file = 1 .. m /\ DOMAIN file' = 1 .. m + 1
      /\ \A i \in 1 .. n : printed'[i] = printed[i]
      /\ printed'[n + 1] = r
      /\ \A i \in 1 .. m : file'[i] = file[i]
      /\ file'[m + 1] = r
  BY DEF FileTypes
<1> HIDE DEF n, m
<1>2. 1 .. m + 1 = (1 .. m) \cup {m + 1} /\ m + 1 \notin 1 .. m
      /\ 1 .. n + 1 = (1 .. n) \cup {n + 1} /\ n + 1 \notin 1 .. n
  BY <1>1
<1>3. r \notin {Own, Old}
  BY FtpAssumption
<1>13. Recent \subseteq 1 .. n /\ Recent' = Recent \cup {n + 1} /\ n + 1 \notin Recent
  <2>1. begun \in Nat /\ begun <= n
    BY DEF FileTypes, n
  <2>2. Recent = {i \in 1 .. n : i > begun}
    BY <1>1 DEF Recent
  <2>3. Recent' = {i \in 1 .. n + 1 : i > begun}
    BY <1>1 DEF Recent
  <2> QED
    BY <1>1, <1>2, <2>1, <2>2, <2>3
<1>4. Merged \subseteq 1 .. m /\ Merged' = Merged \cup {m + 1}
  BY <1>1, <1>2, <1>3 DEF Merged
<1>5. PICK place \in [Recent -> Merged] :
           /\ \A i \in Recent : file[place[i]] = printed[i]
           /\ \A i, j \in Recent : i < j => place[i] < place[j]
           /\ \A k \in Merged : \E i \in Recent : place[i] = k
  BY DEF AcceptedIsMerged
<1> DEFINE new == [i \in Recent' |-> IF i = n + 1 THEN m + 1 ELSE place[i]]
<1>6. /\ \A i \in Recent : new[i] = place[i] /\ new[i] \in Merged /\ i \in Recent'
      /\ new[n + 1] = m + 1 /\ n + 1 \in Recent'
      /\ \A i \in Recent' : i \in Recent \/ i = n + 1
  BY <1>5, <1>13
<1>7. new \in [Recent' -> Merged']
  BY <1>4, <1>6
<1> HIDE DEF new
<1>8. \A i \in Recent' : file'[new[i]] = printed'[i]
  <2>1. \A i \in Recent : new[i] \in 1 .. m /\ i \in 1 .. n
    BY <1>4, <1>6, <1>13
  <2> QED
    BY <1>1, <1>5, <1>6, <2>1
<1>9. ASSUME NEW i \in Recent', NEW j \in Recent', i < j
      PROVE  new[i] < new[j]
  <2>1. i \in Recent
    BY <1>1, <1>6, <1>9, <1>13
  <2>2. new[i] \in 1 .. m /\ new[i] = place[i]
    BY <1>4, <1>6, <2>1
  <2>3. CASE j = n + 1
    BY <1>1, <1>6, <2>2, <2>3
  <2>4. CASE j \in Recent
    BY <1>5, <1>6, <1>9, <2>1, <2>4
  <2> QED
    BY <1>6, <2>3, <2>4
<1>10. \A k \in Merged' : \E i \in Recent' : new[i] = k
  BY <1>4, <1>5, <1>6
<1> QED
  BY <1>7, <1>8, <1>9, <1>10 DEF AcceptedIsMerged

LEMMA FileStep == FileInv /\ [FtpNext]_ftpVars => FileInv'
<1> SUFFICES ASSUME FileInv, [FtpNext]_ftpVars PROVE FileInv'
  OBVIOUS
<1>8. ToRootTypeOK' /\ Sent'
  BY FtpIsToRoot, TypeStep DEF FileInv
<1> DEFINE Rest == FileTypes' /\ Created' /\ Uploads' /\ AcceptedIsMerged'
<1>0. /\ file \in Seq(Lines) /\ server \in Seq(Lines) /\ Len(file) \in Nat
      /\ Len(server) \in Nat /\ putFrom \in Nat
      /\ ftpClientTask \in BOOLEAN /\ ftpClientTask' \in BOOLEAN
      /\ Own \in Lines /\ Own # Old
  BY FtpAssumption DEF FileInv, FileTypes, Lines, ftpClientTask
<1> DEFINE FileKept == /\ UNCHANGED <<file, server, printed, unwritten, begun>>
                       /\ ftpClientTask' = ftpClientTask
<1>9. ASSUME FileKept, putFrom' \in Nat,
             client' = "put" => \/ client = "put" /\ putFrom' = putFrom
                                \/ putFrom' = Len(file),
             ~ftpClientTask => client' \in {"none", "receive"} /\ ~queue'
      PROVE  Rest
  <2>1. FileTypes'
    BY <1>0, <1>9 DEF FileInv, FileTypes
  <2>2. Created'
    BY <1>0, <1>9 DEF FileInv, Created
  <2>3. Uploads' /\ AcceptedIsMerged'
    BY <1>9, SameMerged DEF FileInv, Uploads
  <2> QED
    BY <2>1, <2>2, <2>3
<1>1. ASSUME FirstCall \/ CreateClient \/ Ask PROVE Rest
  <2>1. /\ UNCHANGED <<file, server, printed, unwritten, begun, putFrom>>
        /\ ftpClientTask' = ftpClientTask
        /\ client' = client \/ client' = "receive"
        /\ ~ftpClientTask => queue' = queue
    BY <1>1 DEF FirstCall, CreateClient, Ask, ftpClientTask, addressVars, fileVars,
                uploadVars, toRootVars
  <2>2. ~ftpClientTask => client \in {"none", "receive"} /\ ~queue
    BY DEF FileInv, Created
  <2> QED
    BY <1>0, <1>9, <2>1, <2>2
<1>10. ASSUME RemoveOld PROVE Rest
  <2>1. /\ ~ftpClientTask /\ ftpClientTask' /\ file' = <<>> /\ begun' = Len(printed)
        /\ UNCHANGED <<server, printed, unwritten, putFrom, client>>
    BY <1>10 DEF RemoveOld, ftpClientTask, addressVars, uploadVars, toRootVars
  <2>2. client # "put" /\ server = <<>>
    BY <2>1 DEF FileInv, Created
  <2>3. Len(printed) \in Nat /\ DOMAIN printed = 1 .. Len(printed)
    BY DEF FileInv, ToRootTypeOK
  <2>4. FileTypes'
    BY <1>0, <2>1, <2>3 DEF FileTypes
  <2>5. Created'
    BY <2>1, <2>2 DEF Created
  <2>6. Uploads'
    BY <2>1, <2>2 DEF Uploads
  <2>7. AcceptedIsMerged'
    <3>1. Merged' = {}
      BY <2>1 DEF Merged
    <3>2. Recent' = {}
      BY <2>1, <2>3 DEF Recent
    <3>3. <<>> \in [{} -> {}]
      OBVIOUS
    <3> QED
      BY <3>1, <3>2, <3>3 DEF AcceptedIsMerged
  <2> QED
    BY <2>4, <2>5, <2>6, <2>7
<1>11. ASSUME NEW opened \in BOOLEAN, AppendOwn(opened) PROVE Rest
  <2>1. /\ ftpClientTask /\ ftpClientTask'
        /\ file' = IF opened THEN Appended(file, Own) ELSE file
        /\ UNCHANGED <<unwritten, begun, putFrom, server, client, queue, printed>>
    BY <1>11 DEF AppendOwn, ftpClientTask, uploadVars, toRootVars
  <2>2. file' = file \/ file' = Append(file, Own)
    BY <2>1 DEF Appended
  <2>3. /\ file' \in Seq(Lines) /\ Len(file) <= Len(file')
        /\ \A i \in 1 .. Len(file) : file'[i] = file[i]
        /\ \A i \in 1 .. Len(file') : i \in 1 .. Len(file) \/ file'[i] = Own
    BY <1>0, <2>2, SMTT(30)
  <2>4. FileTypes'
    BY <1>0, <2>1, <2>3 DEF FileInv, FileTypes
  <2>5. Created'
    BY <1>0, <2>1, <2>3 DEF FileInv, Created
  <2>6. Uploads'
    BY <1>0, <2>1, <2>3, SMTT(30) DEF FileInv, Uploads
  <2>7. AcceptedIsMerged'
    BY <2>1, <2>2, OwnLineKeepsMerged DEF FileInv
  <2> QED
    BY <2>4, <2>5, <2>6, <2>7
<1>2. ASSUME NEW c \in Child, SendToRoot(c) \/ LoseCopy(c), UNCHANGED ftpOnlyVars
      PROVE  Rest
  <2>1. FileKept /\ UNCHANGED <<client, putFrom, queue>>
    BY <1>2 DEF SendToRoot, LoseCopy, ftpOnlyVars, fileVars, uploadVars, ftpClientTask
  <2>2. ~ftpClientTask => client \in {"none", "receive"} /\ ~queue
    BY DEF FileInv, Created
  <2> QED
    BY <1>0, <1>9, <2>1, <2>2
<1>3. ASSUME NEW c \in Child, NEW answered \in BOOLEAN, NEW opened \in BOOLEAN,
             RawReport(c, answered, opened)
      PROVE  Rest
  <2>1. /\ UNCHANGED <<client, queue, putFrom, server, begun>>
        /\ ftpClientTask' = ftpClientTask
    BY <1>3 DEF RawReport, uploadVars, ftpClientTask
  <2>4. ~ftpClientTask => client \in {"none", "receive"} /\ ~queue
    BY DEF FileInv, Created
  <2>2. CASE ~AcceptsRaw(RawSeq(c))
    <3>1. UNCHANGED <<file, unwritten, printed>>
      BY <1>3, <2>2 DEF RawReport, ReceiveRaw
    <3> QED
      BY <1>0, <1>9, <2>1, <2>4, <3>1
  <2>3. CASE AcceptsRaw(RawSeq(c))
    <3> DEFINE r == RawSeq(c)
    <3>1. /\ printed' = Append(printed, r)
          /\ file' = IF opened THEN Appended(file, r) ELSE file
          /\ unwritten' = (unwritten \/ (ftpClientTask /\ file' = file))
      BY <1>3, <2>3 DEF RawReport, ReceiveRaw
    <3>2. r \in Report /\ printed \in Seq(Report)
      <4>1. copies[c] > 0
        BY <1>3 DEF RawReport, ReceiveRaw
      <4> QED
        BY <4>1, RawSeqType DEF FileInv, Sent, ToRootTypeOK
    <3> HIDE DEF r
    <3>3. r \in Lines /\ r # Old
      BY <3>2, FtpAssumption DEF Lines
    <3>4. file' = file \/ (opened /\ file' = Append(file, r))
      BY <3>1 DEF Appended
    <3>5. /\ file' \in Seq(Lines) /\ Len(file) <= Len(file')
          /\ \A i \in 1 .. Len(file) : file'[i] = file[i]
          /\ \A i \in 1 .. Len(file') : i \in 1 .. Len(file) \/ file'[i] = r
      BY <1>0, <3>3, <3>4, SMTT(30)
    <3>6. FileTypes'
      <4>1. Len(printed) \in Nat /\ Len(printed') = Len(printed) + 1
        BY <3>1, <3>2
      <4> QED
        BY <1>0, <2>1, <3>5, <4>1 DEF FileInv, FileTypes
    <3>7. Created'
      <4>1. ftpClientTask => \A i \in 1 .. Len(file') : file'[i] # Old
        BY <3>3, <3>5 DEF FileInv, Created
      <4>2. client = "put" => putFrom <= Len(file')
        <5>1. Len(file') \in Nat
          BY <3>5
        <5> QED
          BY <1>0, <3>5, <5>1 DEF FileInv, Created
      <4> QED
        BY <2>1, <2>4, <4>1, <4>2 DEF FileInv, Created
    <3>8. Uploads'
      BY <1>0, <2>1, <3>5 DEF FileInv, Uploads
    <3>9. AcceptedIsMerged'
      <4>1. CASE unwritten' \/ ~ftpClientTask
        BY <2>1, <4>1 DEF AcceptedIsMerged
      <4>2. CASE ~unwritten' /\ ftpClientTask
        <5>1. ~unwritten /\ file' = Append(file, r)
          BY <3>1, <3>4, <4>2
        <5> QED
          BY <2>1, <3>1, <3>2, <4>2, <5>1, ReportKeepsMerged DEF FileInv
      <4> QED
        BY <4>1, <4>2
    <3> QED
      BY <3>6, <3>7, <3>8, <3>9
  <2> QED
    BY <2>2, <2>3
<1>4. ASSUME NEW got \in 0 .. FLASH, Put(got) \/ PutBreaks(got) PROVE Rest
  <2>1. /\ client = "put" /\ client' = "receive" /\ server' = SubSeq(file, 1, got)
        /\ got \in putFrom .. Len(file) \/ got < putFrom
        /\ UNCHANGED <<file, printed, unwritten, begun, putFrom, queue>>
        /\ ftpClientTask' = ftpClientTask
    BY <1>4 DEF Put, PutBreaks, toRootVars, fileVars, ftpClientTask
  <2>2. putFrom <= Len(file) /\ ftpClientTask /\ got \in Nat
    BY <2>1, FtpAssumption DEF FileInv, Created
  <2>3. got \in 0 .. Len(file)
    BY <1>0, <2>1, <2>2
  <2>4. /\ server' \in Seq(Lines) /\ Len(server') = got
        /\ \A i \in 1 .. got : server'[i] = file[i]
    BY <1>0, <2>1, <2>3
  <2>5. FileTypes'
    BY <1>0, <2>1, <2>4 DEF FileInv, FileTypes
  <2>6. Created'
    BY <2>1, <2>2 DEF FileInv, Created
  <2>7. Uploads'
    BY <2>1, <2>3, <2>4 DEF Uploads
  <2>8. AcceptedIsMerged'
    BY <2>1, SameMerged DEF FileInv
  <2> QED
    BY <2>5, <2>6, <2>7, <2>8
<1> HIDE DEF FileKept, Rest
<1>5. ASSUME RegisterIpEvent \/ GotIp \/ StartTimer \/ UNCHANGED ftpVars PROVE Rest
  <2>1. FileKept /\ UNCHANGED <<client, putFrom, queue>>
    BY <1>5 DEF FileKept, RegisterIpEvent, GotIp, StartTimer, ftpVars, ftpOnlyVars,
                fileVars, uploadVars, toRootVars, ftpClientTask
  <2>2. ~ftpClientTask => client \in {"none", "receive"} /\ ~queue
    BY DEF FileInv, Created
  <2> QED
    BY <1>0, <1>9, <2>1, <2>2
<1>6. ASSUME ReceiveLayer \/ ConnectFails \/ Login PROVE Rest
  <2>1. /\ FileKept
        /\ (client = "receive" /\ queue) \/ client = "connect"
        /\ \/ UNCHANGED putFrom /\ client' \in {"connect", "ended"}
           \/ client' = "put" /\ putFrom' = Len(file)
    BY <1>6 DEF FileKept, ReceiveLayer, ConnectFails, Login, fileVars, toRootVars,
                ftpClientTask
  <2>2. ftpClientTask
    BY <2>1 DEF FileInv, Created
  <2> QED
    BY <1>0, <1>9, <2>1, <2>2
<1>7. Rest
  <2>1. CASE \E c \in Child : (SendToRoot(c) \/ LoseCopy(c)) /\ UNCHANGED ftpOnlyVars
    BY <1>2, <2>1
  <2>2. CASE \E c \in Child, answered, opened \in BOOLEAN : RawReport(c, answered, opened)
    BY <1>3, <2>2
  <2>3. CASE RootTimer
    BY <1>1, <1>10, <1>11, <2>3 DEF RootTimer
  <2>4. CASE \E got \in 0 .. FLASH : Put(got) \/ PutBreaks(got)
    BY <1>4, <2>4
  <2> QED
    BY <1>5, <1>6, <2>1, <2>2, <2>3, <2>4 DEF FtpNext
<1> QED
  BY <1>8, <1>7 DEF Rest, FileInv

LEMMA FileInit == ToRootInit /\ FtpInit => FileInv
<1> SUFFICES ASSUME ToRootInit, FtpInit PROVE FileInv
  OBVIOUS
<1>1. ToRootTypeOK /\ Sent
  BY TypeInit
<1>2. /\ <<>> \in Seq(Lines) /\ <<Old>> \in Seq(Lines) /\ Len(<<>>) = 0
      /\ Len(<<Old>>) = 1 /\ DOMAIN <<>> = {} /\ DOMAIN <<Old>> = {1}
      /\ <<Old>>[1] = Old
  BY DEF Lines
<1>3. FileTypes /\ Created /\ Uploads
  <2>1. file \in Seq(Lines) /\ Len(file) \in Nat /\ server = <<>>
    BY <1>2 DEF FtpInit
  <2>2. FileTypes
    BY <1>2, <2>1 DEF FtpInit, ToRootInit, FileTypes
  <2>4. Uploads
    BY <1>2, <2>1 DEF Uploads
  <2>3. Created
    BY DEF FtpInit, ToRootInit, Created, ftpClientTask
  <2> QED
    BY <2>2, <2>3, <2>4
<1>6. AcceptedIsMerged
  BY DEF FtpInit, AcceptedIsMerged, ftpClientTask
<1> QED
  BY <1>1, <1>3, <1>6 DEF FileInv

LEMMA FileCorrect == FtpSpec => []FileInv
  BY FileInit, FileStep, PTL DEF FtpSpec

(* AcceptedIsMerged: for any number of children and reports and any size of the
   flash, the reports the root accepted since it removed the old file stand in the
   file once each and in the order of acceptance, among the root's own lines, as
   long as every one of them could be written; wherever in print_system_info_timercb
   the reports come. *)
THEOREM MergeCorrect == FtpSpec => []AcceptedIsMerged
  BY FileCorrect, PTL DEF FileInv

(* ServerIsPrefix: the file on the server is the beginning of the file on the
   flash, whatever is appended while it is read and wherever transfers break, and
   no line of an earlier boot is in it. *)
THEOREM UploadCorrect == FtpSpec => []ServerIsPrefix
<1>1. FileInv => ServerIsPrefix
  <2> SUFFICES ASSUME FileInv PROVE ServerIsPrefix
    OBVIOUS
  <2>1. /\ file \in Seq(Lines) /\ server \in Seq(Lines)
        /\ Len(server) \in Nat /\ Len(file) \in Nat /\ Len(server) <= Len(file)
        /\ \A i \in 1 .. Len(server) : server[i] = file[i]
    BY DEF FileInv, FileTypes, Uploads
  <2>2. SubSeq(server, 1, Len(server)) = SubSeq(file, 1, Len(server))
    BY <2>1
  <2>3. \A i \in DOMAIN server : server[i] # Old
    <3>1. CASE ftpClientTask
      BY <2>1, <3>1 DEF FileInv, Created
    <3>2. CASE ~ftpClientTask
      BY <3>2 DEF FileInv, Created
    <3> QED
      BY <3>1, <3>2
  <2> QED
    BY <2>1, <2>2, <2>3 DEF ServerIsPrefix, IsPrefix
<1> QED
  BY <1>1, FileCorrect, PTL
=============================================================================
