--------------------------- MODULE Mupgrade_proofs ---------------------------
(***************************************************************************)
(* What holds of a whole mesh upgrade for every set of devices, every      *)
(* number of rounds and every behaviour of the mesh: the types; that the   *)
(* lists of mupgrade_result_t agree with each other, and with what the     *)
(* devices have; that every step is one MupgradeRollout allows; and that   *)
(* with rounds enough every device is upgraded.                            *)
(***************************************************************************)
EXTENDS Mupgrade, MupgradeNode_proofs

USE ConstantsAssumption, MupgradeAssumption DEF Calls

(* The lists.  ListsAgree is not inductive: a device that answers twice in  *)
(* one round must not be counted as succeeded while it is listed as         *)
(* requested, so the devices asked and those requested are apart.           *)
ListInv ==
  /\ ListsAgree
  /\ asking \intersect requested = {}
  /\ rpc \notin {"ask", "collect"} => asking = {}
  /\ rpc = "drain" => requested = {}

LEMMA SenderLists == ListInv /\ Sender => ListInv'
<1> SUFFICES ASSUME ListInv, Sender PROVE ListInv'
  OBVIOUS
<1> USE DEF ListInv, ListsAgree, locals
<1>1. CASE RoundBegin
  BY <1>1 DEF RoundBegin
<1>2. CASE DrainReport
  BY <1>2 DEF DrainReport
<1>3. CASE DrainTimeout
  BY <1>3 DEF DrainTimeout
<1>4. CASE Ask
  BY <1>4 DEF Ask
<1>5. CASE CollectReport
  BY <1>5 DEF CollectReport, AskingAfter
<1>6. CASE CollectEnd
  BY <1>6 DEF CollectEnd
<1>7. CASE AskEnd
  BY <1>7 DEF AskEnd
<1>8. CASE SendEnd \/ SendSkip \/ SendPoll \/ SendPacket \/ SendReadFails
  BY <1>8 DEF SendEnd, SendSkip, SendPoll, SendPacket, SendReadFails
<1>9. CASE PollReport
  BY <1>9 DEF PollReport
<1>10. CASE Exit \/ Flush \/ Signal
  BY <1>10 DEF Exit, Flush, Signal
<1> QED
  BY <1>1, <1>2, <1>3, <1>4, <1>5, <1>6, <1>7, <1>8, <1>9, <1>10 DEF Sender

LEMMA ListInvStep == ListInv /\ [Next]_vars => ListInv'
<1> SUFFICES ASSUME ListInv, [Next]_vars PROVE ListInv'
  OBVIOUS
<1>1. CASE UNCHANGED <<unfinished, successed, requested, asking, rpc>>
  BY <1>1 DEF ListInv, ListsAgree
<1>2. CASE Sender
  BY <1>2, SenderLists
<1>3. CASE \E m \in Modes : \E dests \in Destinations(m) : SendStart(m, dests)
  BY <1>3 DEF SendStart, ListInv, ListsAgree
<1>4. CASE Receiver \/ Stopper
  BY <1>1, <1>4 DEF Receiver, RootAccept, RootEnqueue, RootGiveUp, Stopper,
                    StopCreate, StopClear, StopTake, locals
<1>5. CASE \E f \in Firmware : FirmwareInit(f)
  BY <1>1, <1>5 DEF FirmwareInit, locals
<1>6. CASE FirmwareDownload \/ StopCheck
  BY <1>1, <1>6 DEF FirmwareDownload, StopCheck, locals
<1>7. CASE \E n \in Node : DeviceRestarts(n) \/ DeviceStops(n) \/ LoseReport(n)
                          \/ Device(n)
  BY <1>1, <1>7 DEF DeviceRestarts, DeviceStops, LoseReport, Device, Receive,
                    DeviceContinues, rootVars
<1>8. CASE UNCHANGED vars
  BY <1>1, <1>8 DEF vars, rootVars
<1> QED
  BY <1>2, <1>3, <1>4, <1>5, <1>6, <1>7, <1>8 DEF Next, Environment

LEMMA ListInvInit == Init => ListInv
BY DEF Init, ListInv, ListsAgree

\* In every upgrade, of any number of devices, whatever is lost, repeated, late,
\* reset or stopped, a device counted as succeeded is neither waited for nor sent
\* packets, and only devices waited for are asked.
THEOREM ListsAlwaysAgree == Spec => []ListsAgree
<1>1. Init => ListInv
  BY ListInvInit
<1>2. ListInv => ListsAgree
  BY DEF ListInv
<1> QED
  BY <1>1, <1>2, ListInvStep, PTL DEF Spec

-----------------------------------------------------------------------------
(* Types.  The bounds of the loop counters hold because each loop's place   *)
(* is entered below its bound, and a send has a complete image.             *)
RootTypeOK ==
  /\ image \in [name : Name, state : {"none", "open", "failed", "finish"}]
  /\ queueState \in {"none", "live", "deleted"}
  /\ running \in BOOLEAN
  /\ sem \in {"null", "empty", "given"}
  /\ rpc \in {"idle", "round", "drain", "ask", "collect", "send", "poll",
              "exit", "flush", "signal"}
  /\ mode \in {"list", "any", "broadcast"}
  /\ spc \in {"none", "create", "clear", "wait"}

ListTypeOK ==
  /\ unfinished \in SUBSET Node /\ successed \in SUBSET Node
  /\ requested \in SUBSET Node /\ asking \in SUBSET Node
  /\ progress \in SUBSET Packet
  /\ round \in 0 .. Retry /\ attempt \in 0 .. Attempts /\ seq \in 0 .. MaxPacket

MeshTypeOK ==
  /\ queue \in Seq(Report) /\ Len(queue) =< QueueLen
  /\ inhand \in Report \union {NoReport}
  /\ down \in [Node -> Seq(Message)]
  /\ left \in [DOMAIN Budget -> Nat]

Places ==
  /\ image.state # "none" => image.name \in Firmware
  /\ rpc # "idle" => image.state = "finish"
  /\ rpc \in {"drain", "ask", "collect", "send", "poll"} => round < Retry
  /\ rpc = "collect" => attempt < Attempts
  /\ rpc = "poll" => seq < PacketNum[image.name]

MeshInv == NodeInv /\ RootTypeOK /\ ListTypeOK /\ MeshTypeOK /\ Places

LEMMA HeadIsReport ==
  ASSUME MeshTypeOK, queue # <<>>
  PROVE  /\ Head(queue) \in Report
         /\ Tail(queue) \in Seq(Report) /\ Len(Tail(queue)) =< QueueLen
BY DEF MeshTypeOK

LEMMA PacketBound == \A f \in Firmware : PacketNum[f] \in 1 .. MaxPacket
OBVIOUS

LEMMA SpendType ==
  ASSUME MeshTypeOK, NEW what \in DOMAIN Budget, left[what] > 0, Spend(what, 1)
  PROVE  left' \in [DOMAIN Budget -> Nat]
<1>1. left \in [DOMAIN Budget -> Nat] /\ left' = [left EXCEPT ![what] = @ - 1]
  BY DEF MeshTypeOK, Spend
<1>2. left[what] - 1 \in Nat
  BY <1>1
<1> QED
  BY <1>1, <1>2

LEMMA MulticastType ==
  ASSUME MeshTypeOK, NEW dests \in SUBSET Node, NEW m \in Message,
         Multicast(dests, m)
  PROVE  down' \in [Node -> Seq(Message)] /\ left' \in [DOMAIN Budget -> Nat]
<1> DEFINE cost(lost, twice) ==
             [what \in DOMAIN Budget |->
                IF what = "lose" THEN Cardinality(lost)
                ELSE IF what = "repeat" THEN Cardinality(twice) ELSE 0]
           copies(lost, twice, n) ==
             IF n \in twice THEN <<m, m>>
             ELSE IF n \in dests \ lost THEN <<m>> ELSE <<>>
<1>0. PICK lost \in SUBSET dests : \E twice \in SUBSET (dests \ lost) :
        /\ \A what \in DOMAIN Budget : cost(lost, twice)[what] =< left[what]
        /\ left' = [what \in DOMAIN Budget |-> left[what] - cost(lost, twice)[what]]
        /\ down' = [n \in Node |-> down[n] \o copies(lost, twice, n)]
  BY DEF Multicast
<1>1. PICK twice \in SUBSET (dests \ lost) :
        /\ \A what \in DOMAIN Budget : cost(lost, twice)[what] =< left[what]
        /\ left' = [what \in DOMAIN Budget |-> left[what] - cost(lost, twice)[what]]
        /\ down' = [n \in Node |-> down[n] \o copies(lost, twice, n)]
  BY <1>0
<1>2. Cardinality(lost) \in Nat /\ Cardinality(twice) \in Nat
  BY FS_Subset, FS_CardinalityType
<1>3. \A what \in DOMAIN Budget : cost(lost, twice)[what] \in Nat
  BY <1>2
<1>4. left' \in [DOMAIN Budget -> Nat]
  <2> HIDE DEF cost
  <2>1. \A what \in DOMAIN Budget : left[what] \in Nat
    BY DEF MeshTypeOK
  <2>2. \A what \in DOMAIN Budget : left[what] - cost(lost, twice)[what] \in Nat
    BY <2>1, <1>1, <1>3
  <2> QED
    BY <1>1, <2>2
<1>5. \A n \in Node : copies(lost, twice, n) \in Seq(Message)
  OBVIOUS
<1>6. down' \in [Node -> Seq(Message)]
  <2> HIDE DEF copies
  <2> QED
    BY <1>1, <1>5 DEF MeshTypeOK
<1> QED
  BY <1>4, <1>6

\* What the sending task does to each group of variables.
LEMMA SenderRootTypes ==
  ASSUME RootTypeOK, Sender
  PROVE  RootTypeOK'
<1>1. CASE RoundBegin
  BY <1>1 DEF RoundBegin, RootTypeOK
<1>2. CASE DrainReport
  BY <1>2 DEF DrainReport, RootTypeOK
<1>3. CASE DrainTimeout
  BY <1>3 DEF DrainTimeout, RootTypeOK
<1>4. CASE Ask
  BY <1>4 DEF Ask, RootTypeOK
<1>5. CASE CollectReport
  BY <1>5 DEF CollectReport, RootTypeOK
<1>6. CASE CollectEnd
  BY <1>6 DEF CollectEnd, RootTypeOK
<1>7. CASE AskEnd
  BY <1>7 DEF AskEnd, RootTypeOK
<1>8. CASE SendEnd
  BY <1>8 DEF SendEnd, RootTypeOK
<1>9. CASE SendSkip
  BY <1>9 DEF SendSkip, RootTypeOK
<1>10. CASE SendPoll
  BY <1>10 DEF SendPoll, RootTypeOK
<1>11. CASE PollReport
  BY <1>11 DEF PollReport, RootTypeOK
<1>12. CASE SendPacket
  BY <1>12 DEF SendPacket, RootTypeOK
<1>13. CASE SendReadFails
  BY <1>13 DEF SendReadFails, RootTypeOK
<1>14. CASE Exit
  BY <1>14 DEF Exit, RootTypeOK
<1>15. CASE Flush
  BY <1>15 DEF Flush, RootTypeOK
<1>16. CASE Signal
  BY <1>16 DEF Signal, RootTypeOK
<1> QED
  BY <1>1, <1>2, <1>3, <1>4, <1>5, <1>6, <1>7, <1>8, <1>9, <1>10, <1>11,
     <1>12, <1>13, <1>14, <1>15, <1>16 DEF Sender

LEMMA SenderMeshTypes ==
  ASSUME RootTypeOK, ListTypeOK, MeshTypeOK, Places, Sender
  PROVE  MeshTypeOK'
<1>1. CASE RoundBegin
  BY <1>1 DEF RoundBegin, MeshTypeOK
<1>2. CASE DrainReport
  BY <1>2, HeadIsReport DEF DrainReport, MeshTypeOK
<1>3. CASE DrainTimeout
  BY <1>3 DEF DrainTimeout, MeshTypeOK
<1>4. CASE Ask
  <2>1. StatusOf(image.name) \in Message
    BY <1>4 DEF Ask, StatusOf, Message, Packet, Places, RootTypeOK
  <2>2. down' \in [Node -> Seq(Message)] /\ left' \in [DOMAIN Budget -> Nat]
    BY <1>4, <2>1, MulticastType DEF Ask, ListTypeOK
  <2> QED
    BY <1>4, <2>2 DEF Ask, MeshTypeOK, locals
<1>5. CASE CollectReport
  BY <1>5, HeadIsReport DEF CollectReport, MeshTypeOK
<1>6. CASE CollectEnd
  BY <1>6 DEF CollectEnd, MeshTypeOK
<1>7. CASE AskEnd
  BY <1>7 DEF AskEnd, MeshTypeOK
<1>8. CASE SendEnd
  BY <1>8 DEF SendEnd, MeshTypeOK
<1>9. CASE SendSkip
  BY <1>9 DEF SendSkip, MeshTypeOK
<1>10. CASE SendPoll
  BY <1>10 DEF SendPoll, MeshTypeOK
<1>11. CASE PollReport
  BY <1>11, HeadIsReport DEF PollReport, MeshTypeOK
<1>12. CASE SendPacket
  <2>1. image.name \in Firmware /\ seq \in Packet
    BY <1>12, PacketBound DEF SendPacket, Packet, ListTypeOK, Places, RootTypeOK
  <2>2. PacketOf(image.name, seq) \in Message
    BY <2>1 DEF PacketOf, Message
  <2>3. Targets \in SUBSET Node
    BY DEF Targets, ListTypeOK
  <2>4. down' \in [Node -> Seq(Message)] /\ left' \in [DOMAIN Budget -> Nat]
    BY <1>12, <2>2, <2>3, MulticastType DEF SendPacket
  <2> QED
    BY <1>12, <2>4 DEF SendPacket, MeshTypeOK
<1>13. CASE SendReadFails
  BY <1>13 DEF SendReadFails, MeshTypeOK
<1>14. CASE Exit
  BY <1>14 DEF Exit, MeshTypeOK
<1>15. CASE Flush
  <2>1. <<>> \in Seq(Report) /\ Len(<<>>) =< QueueLen
    OBVIOUS
  <2> QED
    BY <1>15, <2>1 DEF Flush, MeshTypeOK
<1>16. CASE Signal
  BY <1>16 DEF Signal, MeshTypeOK
<1> QED
  BY <1>1, <1>2, <1>3, <1>4, <1>5, <1>6, <1>7, <1>8, <1>9, <1>10, <1>11,
     <1>12, <1>13, <1>14, <1>15, <1>16 DEF Sender

LEMMA SenderListTypes ==
  ASSUME MeshInv, Sender
  PROVE  ListTypeOK'
<1>0. 0 \in 0 .. Retry /\ 0 \in 0 .. Attempts /\ 0 \in 0 .. MaxPacket
      /\ {} \in SUBSET Node /\ {} \in SUBSET Packet
  OBVIOUS
<1>1. CASE RoundBegin
  BY <1>1, <1>0 DEF RoundBegin, locals, MeshInv, ListTypeOK
<1>2. CASE DrainReport
  <2>1. Head(queue).from \in Node
    BY <1>2, HeadIsReport DEF DrainReport, Report, MeshInv
  <2> QED
    BY <1>2, <2>1 DEF DrainReport, ListTypeOK, MeshInv
<1>3. CASE DrainTimeout
  BY <1>3, <1>0 DEF DrainTimeout, locals, MeshInv, ListTypeOK
<1>4. CASE Ask
  BY <1>4, <1>0 DEF Ask, locals, MeshInv, ListTypeOK
<1>5. CASE CollectReport
  <2>1. Head(queue).from \in Node
    BY <1>5, HeadIsReport DEF CollectReport, Report, MeshInv
  <2> QED
    BY <1>5, <2>1 DEF CollectReport, AskingAfter, ProgressAfter, ListTypeOK, MeshInv
<1>6. CASE CollectEnd
  <2>1. attempt + 1 \in 0 .. Attempts
    BY <1>6 DEF CollectEnd, ListTypeOK, Places, MeshInv
  <2> QED
    BY <1>6, <2>1 DEF CollectEnd, ListTypeOK, MeshInv
<1>7. CASE AskEnd
  BY <1>7, <1>0 DEF AskEnd, locals, MeshInv, ListTypeOK
<1>8. CASE SendEnd
  <2>1. round + 1 \in 0 .. Retry
    BY <1>8 DEF SendEnd, ListTypeOK, Places, MeshInv
  <2> QED
    BY <1>8, <1>0, <2>1 DEF SendEnd, ListTypeOK, MeshInv
<1>9. CASE SendSkip
  <2>1. image.name \in Firmware /\ seq < PacketNum[image.name]
    BY <1>9 DEF SendSkip, Sending, MeshInv, Places, RootTypeOK
  <2>2. seq + 1 \in 0 .. MaxPacket
    BY <2>1, PacketBound DEF ListTypeOK, MeshInv
  <2> QED
    BY <1>9, <2>2 DEF SendSkip, ListTypeOK, MeshInv
<1>10. CASE SendPoll
  BY <1>10, <1>0 DEF SendPoll, locals, MeshInv, ListTypeOK
<1>11. CASE PollReport
  <2>1. Head(queue).from \in Node
    BY <1>11, HeadIsReport DEF PollReport, Report, MeshInv
  <2> QED
    BY <1>11, <2>1 DEF PollReport, ListTypeOK, MeshInv
<1>12. CASE SendPacket
  <2>1. image.name \in Firmware /\ seq < PacketNum[image.name]
    BY <1>12 DEF SendPacket, MeshInv, Places, RootTypeOK
  <2>2. seq + 1 \in 0 .. MaxPacket
    BY <2>1, PacketBound DEF ListTypeOK, MeshInv
  <2> QED
    BY <1>12, <2>2 DEF SendPacket, ListTypeOK, MeshInv
<1>13. CASE SendReadFails
  BY <1>13, <1>0 DEF SendReadFails, locals, MeshInv, ListTypeOK
<1>14. CASE Exit
  BY <1>14, <1>0 DEF Exit, locals, MeshInv, ListTypeOK
<1>15. CASE Flush
  BY <1>15, <1>0 DEF Flush, locals, MeshInv, ListTypeOK
<1>16. CASE Signal
  BY <1>16, <1>0 DEF Signal, locals, MeshInv, ListTypeOK
<1> QED
  BY <1>1, <1>2, <1>3, <1>4, <1>5, <1>6, <1>7, <1>8, <1>9, <1>10, <1>11,
     <1>12, <1>13, <1>14, <1>15, <1>16 DEF Sender

LEMMA SenderPlaces ==
  ASSUME MeshInv, Sender
  PROVE  Places'
<1>1. CASE RoundBegin
  BY <1>1 DEF RoundBegin, locals, MeshInv, Places
<1>2. CASE DrainReport
  BY <1>2 DEF DrainReport, locals, MeshInv, Places
<1>3. CASE DrainTimeout
  BY <1>3 DEF DrainTimeout, locals, MeshInv, Places
<1>4. CASE Ask
  BY <1>4 DEF Ask, locals, MeshInv, Places
<1>5. CASE CollectReport
  BY <1>5 DEF CollectReport, locals, MeshInv, Places
<1>6. CASE CollectEnd
  BY <1>6 DEF CollectEnd, locals, MeshInv, Places
<1>7. CASE AskEnd
  BY <1>7 DEF AskEnd, locals, MeshInv, ListTypeOK, Places
<1>8. CASE SendEnd
  BY <1>8 DEF SendEnd, locals, MeshInv, Places
<1>9. CASE SendSkip
  BY <1>9 DEF SendSkip, locals, MeshInv, Places
<1>10. CASE SendPoll
  BY <1>10 DEF SendPoll, Sending, locals, Places, MeshInv
<1>11. CASE PollReport
  BY <1>11 DEF PollReport, locals, MeshInv, Places
<1>12. CASE SendPacket
  BY <1>12 DEF SendPacket, locals, MeshInv, Places
<1>13. CASE SendReadFails
  BY <1>13 DEF SendReadFails, locals, MeshInv, Places
<1>14. CASE Exit
  BY <1>14 DEF Exit, locals, MeshInv, Places
<1>15. CASE Flush
  BY <1>15 DEF Flush, locals, MeshInv, Places
<1>16. CASE Signal
  BY <1>16 DEF Signal, locals, MeshInv, Places
<1> QED
  BY <1>1, <1>2, <1>3, <1>4, <1>5, <1>6, <1>7, <1>8, <1>9, <1>10, <1>11,
     <1>12, <1>13, <1>14, <1>15, <1>16 DEF Sender

LEMMA SenderTypes ==
  ASSUME MeshInv, Sender
  PROVE  (RootTypeOK /\ ListTypeOK /\ MeshTypeOK /\ Places)'
BY SenderRootTypes, SenderListTypes, SenderMeshTypes, SenderPlaces DEF MeshInv

\* The sending task leaves the devices alone.
LEMMA SenderLeavesDevices == Sender => UNCHANGED nodeVars
<1>1. RoundBegin \/ DrainReport \/ DrainTimeout => UNCHANGED nodeVars
  BY DEF RoundBegin, DrainReport, DrainTimeout
<1>2. Ask \/ CollectReport \/ CollectEnd \/ AskEnd => UNCHANGED nodeVars
  BY DEF Ask, CollectReport, CollectEnd, AskEnd
<1>3. SendEnd \/ SendSkip \/ SendPoll \/ PollReport \/ SendPacket \/ SendReadFails
        => UNCHANGED nodeVars
  BY DEF SendEnd, SendSkip, SendPoll, PollReport, SendPacket, SendReadFails
<1>4. Exit \/ Flush \/ Signal => UNCHANGED nodeVars
  BY DEF Exit, Flush, Signal
<1> QED
  BY <1>1, <1>2, <1>3, <1>4 DEF Sender

LEMMA NodeInvStutters == NodeInv /\ UNCHANGED nodeVars => NodeInv'
BY DEF NodeInv, NodeTypeOK, BusyKnowsName, At, nodeVars

\* mupgrade_root_handle and mupgrade_firmware_stop.
LEMMA ReceiverTypes ==
  ASSUME MeshInv, Receiver \/ Stopper
  PROVE  MeshInv'
<1> USE DEF MeshInv, Places, locals
<1>1. ASSUME NEW n \in Node, RootAccept(n) PROVE MeshInv'
  <2>1. Head(up[n]) \in Report /\ Tail(up[n]) \in Seq(Report)
    BY <1>1 DEF RootAccept, NodeInv, NodeTypeOK
  <2>2. NodeInv'
    BY <1>1, <2>1 DEF RootAccept, NodeInv, NodeTypeOK, BusyKnowsName, At
  <2>3. inhand' \in Report \union {NoReport}
    BY <1>1, <2>1 DEF RootAccept
  <2>4. UNCHANGED <<image, queueState, queue, running, sem, rpc, mode, unfinished,
                    successed, requested, asking, progress, round, attempt, seq,
                    spc, down, left>>
    BY <1>1 DEF RootAccept
  <2> QED
    BY <2>2, <2>3, <2>4 DEF RootTypeOK, ListTypeOK, MeshTypeOK
<1>2. CASE RootEnqueue
  <2>1. Append(queue, inhand) \in Seq(Report) /\ Len(Append(queue, inhand)) =< QueueLen
    BY <1>2 DEF RootEnqueue, QueueHasRoom, MeshTypeOK
  <2> QED
    BY <1>2, <2>1, NodeInvStutters
    DEF RootEnqueue, RootTypeOK, ListTypeOK, MeshTypeOK
<1>3. CASE RootGiveUp
  BY <1>3, NodeInvStutters DEF RootGiveUp, RootTypeOK, ListTypeOK, MeshTypeOK
<1>4. CASE Stopper
  <2>1. <<>> \in Seq(Report) /\ Len(<<>>) = 0
    OBVIOUS
  <2>2. CASE StopCreate
    <3>1. sem' \in {"null", "empty", "given"}
      BY <2>2 DEF StopCreate, RootTypeOK
    <3>2. NodeInv'
      BY <2>2, NodeInvStutters DEF StopCreate
    <3> QED
      BY <2>2, <3>1, <3>2 DEF StopCreate, RootTypeOK, ListTypeOK, MeshTypeOK
  <2>3. CASE StopClear
    <3>1. RootTypeOK'
      BY <2>3 DEF StopClear, RootTypeOK
    <3>4. Places'
      BY <2>3 DEF StopClear
    <3>2. ListTypeOK' /\ MeshTypeOK'
      BY <2>3 DEF StopClear, ListTypeOK, MeshTypeOK
    <3>3. NodeInv'
      BY <2>3, NodeInvStutters DEF StopClear
    <3> QED
      BY <3>1, <3>2, <3>3, <3>4
  <2>4. CASE StopTake
    <3>1. RootTypeOK' /\ Places'
      BY <2>4 DEF StopTake, RootTypeOK
    <3>2. ListTypeOK'
      BY <2>4 DEF StopTake, ListTypeOK
    <3>3. queue' = <<>> /\ UNCHANGED <<inhand, down, left>>
      BY <2>4 DEF StopTake
    <3>4. MeshTypeOK'
      BY <2>1, <3>3 DEF MeshTypeOK
    <3>5. NodeInv'
      BY <2>4, NodeInvStutters DEF StopTake
    <3> QED
      BY <3>1, <3>2, <3>4, <3>5
  <2> QED
    BY <1>4, <2>2, <2>3, <2>4 DEF Stopper
<1> QED
  BY <1>1, <1>2, <1>3, <1>4 DEF Receiver

\* The calls of the application at the root.
LEMMA RootCallTypes ==
  ASSUME MeshInv,
         \/ \E f \in Firmware : FirmwareInit(f)
         \/ FirmwareDownload
         \/ \E m \in Modes : \E dests \in Destinations(m) : SendStart(m, dests)
         \/ StopCheck
  PROVE  MeshInv'
<1> USE DEF MeshInv, Places, locals
<1>1. \A content \in [Packet -> Cell] : RootHolds(content) =>
        flash' \in [Node -> [Packet -> Cell]]
  BY DEF RootHolds, NodeInv, NodeTypeOK
<1>2. ASSUME NEW f \in Firmware, FirmwareInit(f) PROVE MeshInv'
  <2>1. flash' \in [Node -> [Packet -> Cell]]
    BY <1>1, <1>2, ErasedType DEF FirmwareInit, NodeInv, NodeTypeOK
  <2>2. NodeInv'
    BY <1>2, <2>1 DEF FirmwareInit, NodeInv, NodeTypeOK, BusyKnowsName, At
  <2>3. image' \in [name : {f}, state : {"open", "failed"}]
    BY <1>2 DEF FirmwareInit
  <2> QED
    BY <1>2, <2>2, <2>3 DEF FirmwareInit, RootTypeOK, ListTypeOK, MeshTypeOK, Name
<1>3. CASE FirmwareDownload
  <2>1. image.name \in Name
    BY DEF RootTypeOK
  <2>2. flash' \in [Node -> [Packet -> Cell]]
    BY <1>1, <1>3, <2>1, ImageType DEF FirmwareDownload, NodeInv, NodeTypeOK
  <2>3. NodeInv'
    BY <1>3, <2>2 DEF FirmwareDownload, NodeInv, NodeTypeOK, BusyKnowsName, At
  <2>4. image' \in [name : Name, state : {"none", "open", "failed", "finish"}]
        /\ image'.name = image.name /\ image'.state # "none" /\ rpc' = rpc
        /\ (rpc = "idle" \/ image.state = "finish")
    BY <1>3 DEF FirmwareDownload, RootTypeOK
  <2>5. image.state = "open" /\ image.name \in Firmware /\ rpc = "idle"
    BY <1>3 DEF FirmwareDownload
  <2>6. RootTypeOK'
    BY <1>3, <2>4 DEF FirmwareDownload, RootTypeOK
  <2>7. ListTypeOK' /\ MeshTypeOK'
    BY <1>3 DEF FirmwareDownload, ListTypeOK, MeshTypeOK
  <2>8. Places'
    BY <2>4, <2>5
  <2> QED
    BY <2>3, <2>6, <2>7, <2>8
<1>4. ASSUME NEW m \in Modes, NEW dests \in Destinations(m), SendStart(m, dests)
      PROVE  MeshInv'
  <2>1. dests \in SUBSET Node
    BY <1>4 DEF Destinations
  <2>2. left' \in [DOMAIN Budget -> Nat]
    BY <1>4, SpendType DEF SendStart
  <2>3. m \in {"list", "any", "broadcast"} /\ 0 \in 0 .. Retry
    OBVIOUS
  <2>4. RootTypeOK' /\ Places'
    BY <1>4, <2>3 DEF SendStart, RootTypeOK
  <2>5. ListTypeOK'
    BY <1>4, <2>1, <2>3 DEF SendStart, ListTypeOK
  <2>6. MeshTypeOK'
    BY <1>4, <2>2 DEF SendStart, MeshTypeOK
  <2>7. NodeInv'
    BY <1>4, NodeInvStutters DEF SendStart
  <2> QED
    BY <2>4, <2>5, <2>6, <2>7
<1>5. CASE StopCheck
  <2>1. left' \in [DOMAIN Budget -> Nat]
    BY <1>5, SpendType DEF StopCheck
  <2>2. RootTypeOK' /\ Places'
    BY <1>5 DEF StopCheck, RootTypeOK
  <2>3. ListTypeOK'
    BY <1>5 DEF StopCheck, ListTypeOK
  <2>4. MeshTypeOK'
    BY <1>5, <2>1 DEF StopCheck, MeshTypeOK
  <2>5. NodeInv'
    BY <1>5, NodeInvStutters DEF StopCheck
  <2> QED
    BY <2>2, <2>3, <2>4, <2>5
<1> QED
  BY <1>2, <1>3, <1>4, <1>5

\* A device takes what the mesh has brought it.
LEMMA MessageTaken ==
  ASSUME MeshTypeOK, NEW n \in Node, Receive(n)
  PROVE  /\ Head(down[n]) \in Message
         /\ down' \in [Node -> Seq(Message)]
<1>1. down \in [Node -> Seq(Message)]
  BY DEF MeshTypeOK
<1>2. down[n] \in Seq(Message)
  BY <1>1
<1>3. down[n] # <<>> /\ down' = [down EXCEPT ![n] = Tail(@)]
  BY DEF Receive
<1>4. Head(down[n]) \in Message /\ Tail(down[n]) \in Seq(Message)
  BY <1>2, <1>3
<1> QED
  BY <1>1, <1>3, <1>4

\* The devices, by what MupgradeNode_proofs shows of each handler.
LEMMA DeviceTypes ==
  ASSUME MeshInv, NEW n \in Node,
         Device(n) \/ DeviceRestarts(n) \/ DeviceStops(n) \/ LoseReport(n)
  PROVE  MeshInv'
<1> USE DEF MeshInv
<1>1. UNCHANGED rootVars => (RootTypeOK /\ ListTypeOK /\ Places)'
  BY DEF RootTypeOK, ListTypeOK, Places, rootVars
<1>2. UNCHANGED rootVars => UNCHANGED <<queue, inhand>>
  BY DEF rootVars
<1>3. CASE Receive(n)
  <2>1. Head(down[n]) \in Message /\ down' \in [Node -> Seq(Message)]
    BY <1>3, MessageTaken
  <2>2. NodeInv'
    BY <1>3, <2>1, StatusKeeps, DataKeeps DEF Receive, Message
  <2> QED
    BY <1>1, <1>2, <1>3, <2>1, <2>2 DEF Receive, MeshTypeOK
<1>4. CASE DeviceContinues(n)
  BY <1>1, <1>2, <1>4, ContinueKeeps DEF DeviceContinues, MeshTypeOK
<1>5. CASE DeviceRestarts(n)
  <2>1. left' \in [DOMAIN Budget -> Nat]
    BY <1>5, SpendType DEF DeviceRestarts
  <2>2. down' \in [Node -> Seq(Message)]
    BY <1>5 DEF DeviceRestarts, MeshTypeOK
  <2> QED
    BY <1>1, <1>2, <1>5, <2>1, <2>2, RestartKeeps DEF DeviceRestarts, MeshTypeOK
<1>6. CASE DeviceStops(n)
  <2>1. left' \in [DOMAIN Budget -> Nat]
    BY <1>6, SpendType DEF DeviceStops
  <2> QED
    BY <1>1, <1>2, <1>6, <2>1, NodeStopKeeps DEF DeviceStops, MeshTypeOK
<1>7. CASE LoseReport(n)
  <2>1. left' \in [DOMAIN Budget -> Nat]
    BY <1>7, SpendType DEF LoseReport
  <2>2. NodeInv'
    BY <1>7 DEF LoseReport, NodeInv, NodeTypeOK, BusyKnowsName, At
  <2> QED
    BY <1>1, <1>2, <1>7, <2>1, <2>2 DEF LoseReport, MeshTypeOK
<1> QED
  BY <1>3, <1>4, <1>5, <1>6, <1>7 DEF Device

LEMMA MeshInvStep == MeshInv /\ [Next]_vars => MeshInv'
<1> SUFFICES ASSUME MeshInv, [Next]_vars PROVE MeshInv'
  OBVIOUS
<1>1. CASE UNCHANGED vars
  BY <1>1, NodeInvStutters
  DEF vars, rootVars, MeshInv, RootTypeOK, ListTypeOK, MeshTypeOK, Places
<1>2. CASE Sender
  BY <1>2, SenderTypes, SenderLeavesDevices, NodeInvStutters DEF MeshInv
<1> QED
  BY <1>1, <1>2, ReceiverTypes, RootCallTypes, DeviceTypes DEF Next, Environment

LEMMA MeshInvInit == Init => MeshInv
<1> SUFFICES ASSUME Init PROVE MeshInv
  OBVIOUS
<1>1. NodeInv
  BY NodeInitHolds DEF Init
<1>2. Budget \in [DOMAIN Budget -> Nat] /\ <<>> \in Seq(Report) /\ Len(<<>>) = 0
  OBVIOUS
<1>3. 0 \in 0 .. Retry /\ 0 \in 0 .. Attempts /\ 0 \in 0 .. MaxPacket
  OBVIOUS
<1>4. RootTypeOK /\ Places
  BY DEF Init, RootTypeOK, Places, Name
<1>5. ListTypeOK
  BY <1>3 DEF Init, ListTypeOK
<1>6. MeshTypeOK
  BY <1>2 DEF Init, MeshTypeOK
<1> QED
  BY <1>1, <1>4, <1>5, <1>6 DEF MeshInv

\* The state of a whole upgrade has its type: the report queue never overflows,
\* the loop counters keep their bounds, and no packet outside the firmware is
\* sent, for every number of devices, rounds, losses and resets.
THEOREM MupgradeTypeCorrect == Spec => []MupgradeTypeOK
<1>1. Init => MeshInv
  BY MeshInvInit
<1>2. MeshInv => MupgradeTypeOK
  BY DEF MeshInv, MupgradeTypeOK, NodeInv, RootTypeOK, ListTypeOK, MeshTypeOK
<1> QED
  BY <1>1, <1>2, MeshInvStep, PTL DEF Spec

-----------------------------------------------------------------------------
(* Who leaves the list of unfinished devices.                               *)
Leaves ==
  rpc # "idle" =>
    \A n \in unfinished \ unfinished' :
      n \in successed' \/ (Head(queue).from = n /\ Head(queue).stop)

\* No report has written nothing and everything: the test of the poll between two
\* packets never takes a device for finished.
LEMMA PollFindsNobody ==
  ASSUME NEW r \in Report PROVE ~ DoneInPoll(r)
<1>1. PacketNum[r.name] \in 1 .. MaxPacket
  BY PacketBound DEF Report
<1> QED
  BY <1>1 DEF DoneInPoll, Finished

LEMMA LeavesStep == MeshInv /\ ListInv /\ [Next]_vars => Leaves
<1> SUFFICES ASSUME MeshInv, ListInv, [Next]_vars, rpc # "idle",
                    NEW n \in unfinished \ unfinished'
             PROVE  n \in successed' \/ (Head(queue).from = n /\ Head(queue).stop)
  BY DEF Leaves
<1> USE DEF ListInv, ListsAgree, locals
<1>1. CASE DrainReport
  BY <1>1 DEF DrainReport
<1>2. CASE CollectReport
  BY <1>2 DEF CollectReport
<1>3. CASE PollReport
  <2>1. ~ DoneInPoll(Head(queue))
    BY <1>3, PollFindsNobody, HeadIsReport DEF PollReport, MeshInv
  <2> QED
    BY <1>3, <2>1 DEF PollReport
<1>4. CASE UNCHANGED unfinished
  BY <1>4
<1>5. Sender => DrainReport \/ CollectReport \/ PollReport \/ UNCHANGED unfinished
  BY DEF Sender, RoundBegin, DrainTimeout, Ask, CollectEnd, AskEnd, SendEnd,
         SendSkip, SendPoll, SendPacket, SendReadFails, Exit, Flush, Signal
<1>6. Receiver \/ Stopper => UNCHANGED unfinished
  BY DEF Receiver, RootAccept, RootEnqueue, RootGiveUp, Stopper, StopCreate,
         StopClear, StopTake
<1>7. Environment => UNCHANGED unfinished
  BY DEF Environment, FirmwareInit, FirmwareDownload, SendStart, StopCheck,
         DeviceRestarts, DeviceStops, LoseReport, rootVars
<1>8. (\E m \in Node : Device(m)) \/ UNCHANGED vars => UNCHANGED unfinished
  BY DEF Device, Receive, DeviceContinues, rootVars, vars
<1> QED
  BY <1>1, <1>2, <1>3, <1>4, <1>5, <1>6, <1>7, <1>8 DEF Next

\* While a send lasts, a device leaves the list of unfinished ones only because it
\* succeeded or refused: none is dropped by a lost, late or repeated message.
THEOREM DevicesLeaveByReport == Spec => LeavesByReport
<1>1. Init => MeshInv /\ ListInv
  BY MeshInvInit, ListInvInit
<1>2. MeshInv /\ ListInv /\ [Next]_vars => [Leaves]_vars
  BY LeavesStep
<1>3. LeavesByReport <=> [][Leaves]_vars
  BY DEF LeavesByReport, Leaves
<1> QED
  BY <1>1, <1>2, <1>3, MeshInvStep, ListInvStep, PTL DEF Spec

-----------------------------------------------------------------------------
(* Whom the root counts, and what it leaves out.  A report is as old as the *)
(* mesh and the queue make it, so these proofs follow every report from the *)
(* handler that writes it: what it says must be true then, and stay true.   *)

\* No record is ever stored with the last packet: the percentage 100 is not one at which
\* it is due.
NeverSavedFull == \A k \in Nat : k * Interval # 100

\* A device that is reset comes back with a record that is behind its report; one that is
\* stopped takes its report back.  Not both may happen, and a reset must not find a
\* complete record of an image that is not selected.
Terms ==
  /\ OneFirmware
  /\ Budget.restart = 0 \/ NeverSavedFull
  /\ Budget.restart = 0 \/ Budget.halt = 0

\* The image runs or is selected, unless the application has taken it back.
Installed(n) ==
  \/ version[n] # NoName
  \/ boot[n] # NoName /\ (n \notin RootNode => Whole(n, boot[n]))

Granted(n) == Installed(n) \/ (Budget.halt > 0 /\ cfg[n].stop)

Full(c) == c.name # NoName /\ c.written = PacketNum[c.name]

Trusty(n) ==
  /\ n \notin RootNode => Selected(n)
  /\ Full(cfg[n]) /\ task[n].step \notin {"complete", "switch"} => Granted(n)
  /\ task[n].step = "begun" => cfg[n].written = 0
  /\ Budget.restart = 0 => version[n] = NoName
  /\ Budget.restart = 0 /\ cfg[n].name = NoName =>
       cfg[n] = Empty /\ nvs[n].name = NoName
  /\ NeverSavedFull => ~ Full(nvs[n]) /\ \E k \in Nat : next[n] = k * Interval

\* What a report says of its device.
Held(n, b) == cfg[n].stop \/ b \subseteq cfg[n].bits

Honest(r) ==
  /\ Finished(r) => Granted(r.from)
  /\ Budget.restart = 0 => (r.stop => cfg[r.from].stop) /\ Held(r.from, r.bits)

Reports(n) == \A i \in 1 .. Len(up[n]) : Honest(up[n][i])

\* A step after which what a report said of n is still true.
Carried(n) ==
  /\ Granted(n) => Granted(n)'
  /\ Budget.restart = 0 =>
       /\ cfg[n].stop => cfg'[n].stop
       /\ cfg'[n].stop \/ cfg[n].bits \subseteq cfg'[n].bits

\* A step that sends nothing, or the state of the device.
Answers(n) ==
  \/ up'[n] = up[n]
  \/ up[n] # <<>> /\ up'[n] = Tail(up[n])
  \/ \E c \in Config :
       /\ c = cfg'[n] /\ c.name # NoName
       /\ up'[n] = Append(up[n], ReportOf(n, c))
       /\ Full(c) => Granted(n)'

LEMMA HonestStays ==
  ASSUME NEW r \in Report, Carried(r.from), Honest(r)
  PROVE  Honest(r)'
<1>1. Finished(r) => Granted(r.from)'
  BY DEF Honest, Carried
<1>2. ASSUME Budget.restart = 0
      PROVE  (r.stop => cfg'[r.from].stop) /\ (cfg'[r.from].stop \/ r.bits \subseteq cfg'[r.from].bits)
  BY <1>2 DEF Honest, Carried, Held
<1> QED
  BY <1>1, <1>2 DEF Honest, Held, Finished

LEMMA NewReport ==
  ASSUME NEW n \in Node, NEW c \in Config, c = cfg'[n], c.name # NoName,
         Full(c) => Granted(n)'
  PROVE  Honest(ReportOf(n, c))'
<1> DEFINE r == ReportOf(n, c)
<1>1. r.from = n /\ r.name = c.name /\ r.stop = c.stop /\ r.written = c.written
      /\ r.bits \subseteq c.bits
  BY DEF ReportOf
<1> HIDE DEF r
<1>2. Finished(r) => Granted(n)'
  BY <1>1 DEF Finished, Full
<1> QED
  BY <1>1, <1>2 DEF Honest, Held, r, Finished

LEMMA ReportsStay ==
  ASSUME NodeTypeOK, NEW n \in Node, \A m \in Node : Carried(m), Reports(n), Answers(n)
  PROVE  Reports(n)'
<1>1. up[n] \in Seq(Report)
  BY DEF NodeTypeOK
<1>2. ASSUME NEW r \in Report, Honest(r) PROVE Honest(r)'
  <2>1. r.from \in Node
    BY DEF Report
  <2> QED
    BY <1>2, <2>1, HonestStays
<1> SUFFICES ASSUME NEW i \in 1 .. Len(up'[n]), NEW r, r = up'[n][i]
             PROVE  Honest(r)'
  BY DEF Reports
<1>3. CASE up'[n] = up[n]
  <2>1. r \in Report /\ Honest(r)
    BY <1>1, <1>3 DEF Reports
  <2> QED
    BY <2>1, <1>2
<1>4. CASE up[n] # <<>> /\ up'[n] = Tail(up[n])
  <2>1. i + 1 \in 1 .. Len(up[n]) /\ r = up[n][i + 1]
    BY <1>1, <1>4
  <2>2. r \in Report /\ Honest(r)
    BY <1>1, <2>1 DEF Reports
  <2> QED
    BY <2>2, <1>2
<1>5. ASSUME NEW c \in Config, c = cfg'[n], c.name # NoName, Full(c) => Granted(n)',
             up'[n] = Append(up[n], ReportOf(n, c))
      PROVE  Honest(r)'
  <2>1. CASE i = Len(up[n]) + 1
    <3>1. r = ReportOf(n, c)
      BY <1>1, <1>5, <2>1
    <3> QED
      BY <1>5, <3>1, NewReport
  <2>2. CASE i # Len(up[n]) + 1
    <3>1. i \in 1 .. Len(up[n]) /\ r = up[n][i]
      BY <1>1, <1>5, <2>2
    <3>2. r \in Report /\ Honest(r)
      BY <1>1, <3>1 DEF Reports
    <3> QED
      BY <3>2, <1>2
  <2> QED
    BY <2>1, <2>2
<1> QED
  BY <1>3, <1>4, <1>5 DEF Answers

\* What is installed stays so, unless the application takes it back.
LEMMA GrantedStays ==
  ASSUME Terms, NEW n \in Node, n \notin RootNode => Selected(n)',
         version'[n] = version[n], boot[n] # NoName => boot'[n] # NoName,
         Budget.restart = 0 =>
           /\ cfg[n].stop => cfg'[n].stop
           /\ cfg'[n].stop \/ cfg[n].bits \subseteq cfg'[n].bits
  PROVE  Carried(n)
<1>1. Installed(n) => Installed(n)'
  BY DEF Installed, Selected
<1>2. Budget.halt > 0 => Budget.restart = 0
  BY DEF Terms
<1> QED
  BY <1>1, <1>2 DEF Carried, Granted

LEMMA TrustyStays ==
  ASSUME Terms, NEW n \in Node, Trusty(n), Carried(n), n \notin RootNode => Selected(n)',
         version'[n] = version[n], cfg'[n].name # NoName,
         Full(cfg'[n]) /\ task'[n].step \notin {"complete", "switch"} =>
           Granted(n) \/ Granted(n)',
         task'[n].step = "begun" => cfg'[n].written = 0,
         NeverSavedFull => ~ Full(nvs'[n]) /\ \E k \in Nat : next'[n] = k * Interval
  PROVE  Trusty(n)'
<1>1. Full(cfg'[n]) /\ task'[n].step \notin {"complete", "switch"} => Granted(n)'
  BY DEF Carried
<1>2. Budget.restart = 0 => version'[n] = NoName
  BY DEF Trusty
<1> QED
  BY <1>1, <1>2 DEF Trusty, Full

\* What a handler starts from.
LEMMA LoadedTrusty ==
  ASSUME Terms, NodeTypeOK, NEW n \in Node, Trusty(n), Loaded(n).name # NoName
  PROVE  /\ At(n, "idle") /\ Full(Loaded(n)) => Granted(n)
         /\ Budget.restart = 0 => Loaded(n) = cfg[n]
         /\ Loaded(n) \in Config
<1>1. CASE cfg[n].name = NoName
  <2>1. Loaded(n) = nvs[n] /\ Budget.restart # 0
    BY <1>1 DEF Loaded, Trusty
  <2>2. ~ Full(nvs[n])
    BY <2>1 DEF Terms, Trusty
  <2> QED
    BY <2>1, <2>2, LoadedType
<1>2. CASE cfg[n].name # NoName
  <2>1. Loaded(n) = cfg[n]
    BY <1>2 DEF Loaded
  <2> QED
    BY <2>1, LoadedType DEF Trusty, At
<1> QED
  BY <1>1, <1>2

LEMMA FreshIsPartial ==
  /\ \A f \in Firmware : Fresh(f) \in Config /\ Fresh(f).name = f /\ ~ Fresh(f).stop
                         /\ Fresh(f).written = 0 /\ ~ Full(Fresh(f))
  /\ \A c \in Config : c.written = 0 => ~ Full(c)
<1>1. \A f \in Firmware : Fresh(f) \in Config /\ Fresh(f).name = f
  BY ConfigTypes
<1>2. ASSUME NEW c \in Config, c.written = 0 PROVE ~ Full(c)
  <2>1. c.name \in Firmware \union {NoName}
    BY DEF Config, Name
  <2> QED
    BY <1>2, <2>1, PacketBound DEF Full
<1>3. \A f \in Firmware : ~ Fresh(f).stop /\ Fresh(f).written = 0
  BY DEF Fresh
<1> QED
  BY <1>1, <1>2, <1>3

LEMMA RespondAnswers ==
  ASSUME NodeTypeOK, NEW n \in Node, NEW c \in Config, c = cfg'[n], c.name # NoName,
         Respond(n, c), Full(c) => Granted(n) \/ Granted(n)', Carried(n)
  PROVE  Answers(n)
<1>1. up'[n] = Append(up[n], ReportOf(n, c))
  BY DEF Respond, NodeTypeOK
<1>2. Full(c) => Granted(n)'
  BY DEF Carried
<1> QED
  BY <1>1, <1>2 DEF Answers

\* Every handler: mupgrade_status ...
LEMMA StatusIsHonest ==
  ASSUME Terms, NodeInv, NEW n \in Node, Trusty(n), NEW f \in Firmware, Status(n, f)
  PROVE  Trusty(n)' /\ Carried(n) /\ Answers(n)
<1> USE DEF NodeInv
<1>0. NodeTypeOK /\ f # NoName /\ OneFirmware
  BY DEF Terms
<1>a. n \notin RootNode => Selected(n)'
  BY <1>0, StatusSelects DEF Trusty
<1>b. New(n, f) /\ Budget.restart = 0 => cfg[n].stop = FALSE /\ cfg[n].bits = {}
  BY <1>0, NewMeansUnknown DEF Trusty, Empty
<1>c. Fresh(f) \in Config /\ Fresh(f).name = f /\ Fresh(f).written = 0 /\ ~ Full(Fresh(f))
  BY FreshIsPartial
<1>d. NeverSavedFull => ~ Full(nvs[n]) /\ \E k \in Nat : next[n] = k * Interval
  BY DEF Trusty
<1>1. CASE StatusKnown(n, f)
  <2>1. UNCHANGED <<nvs, boot, version, next, task>> /\ cfg'[n] = Loaded(n)
        /\ Loaded(n).name = f /\ At(n, "idle") /\ Respond(n, Loaded(n))
    BY <1>1 DEF StatusKnown, New, NodeTypeOK
  <2>2. /\ Full(Loaded(n)) => Granted(n)
        /\ Budget.restart = 0 => Loaded(n) = cfg[n]
        /\ Loaded(n) \in Config
    BY <1>0, <2>1, LoadedTrusty
  <2>3. Carried(n)
    BY <1>a, <2>1, <2>2, GrantedStays
  <2>4. Trusty(n)'
    BY <1>0, <1>a, <1>d, <2>1, <2>2, <2>3, TrustyStays DEF At
  <2>5. PICK c \in Config : c = Loaded(n)
    BY <2>2
  <2>6. Answers(n)
    BY <1>0, <2>1, <2>2, <2>3, <2>5, RespondAnswers
  <2> QED
    BY <2>3, <2>4, <2>6
<1>2. CASE StatusRoot(n, f)
  <2> DEFINE c == Progress(Fresh(f), PacketNum[f], Packet)
  <2>1. UNCHANGED <<nvs, version, next, task>> /\ cfg'[n] = c /\ New(n, f)
        /\ At(n, "idle") /\ Respond(n, c) /\ n \in RootNode
    BY <1>2 DEF StatusRoot, NodeTypeOK
  <2>2. boot'[n] # NoName
    BY <1>2 DEF StatusRoot, NodeTypeOK
  <2>3. c.bits = Packet /\ c.name = f /\ c \in Config
    BY PacketBound DEF Progress, Fresh, Config, Name
  <2> HIDE DEF c
  <2>4. Carried(n)
    BY <1>a, <1>b, <2>1, <2>2, <2>3, GrantedStays
  <2>5. Granted(n)'
    BY <2>1, <2>2 DEF Granted, Installed
  <2>6. Trusty(n)'
    BY <1>0, <1>a, <1>d, <2>1, <2>3, <2>4, <2>5, TrustyStays DEF At
  <2>7. Answers(n)
    BY <1>0, <2>1, <2>3, <2>4, <2>5, RespondAnswers
  <2> QED
    BY <2>4, <2>6, <2>7
<1>3. CASE StatusRootFails(n, f) \/ StatusBeginFails(n, f)
  <2>1. UNCHANGED <<nvs, boot, version, next, task>> /\ cfg'[n] = Fresh(f) /\ New(n, f)
        /\ At(n, "idle") /\ Respond(n, Fresh(f))
    BY <1>3 DEF StatusRootFails, StatusBeginFails, NodeTypeOK
  <2>2. Carried(n)
    BY <1>a, <1>b, <2>1, GrantedStays
  <2>3. Trusty(n)'
    BY <1>0, <1>a, <1>c, <1>d, <2>1, <2>2, TrustyStays DEF At
  <2>4. Answers(n)
    BY <1>0, <1>c, <2>1, <2>2, RespondAnswers
  <2> QED
    BY <2>2, <2>3, <2>4
<1>4. CASE StatusBegin(n, f)
  <2>1. UNCHANGED <<nvs, boot, version, next, up>> /\ cfg'[n] = Fresh(f) /\ New(n, f)
    BY <1>4 DEF StatusBegin, NodeTypeOK
  <2>2. Carried(n)
    BY <1>a, <1>b, <2>1, GrantedStays
  <2>3. Trusty(n)'
    BY <1>0, <1>a, <1>c, <1>d, <2>1, <2>2, TrustyStays
  <2> QED
    BY <2>1, <2>2, <2>3 DEF Answers
<1> QED
  BY <1>1, <1>2, <1>3, <1>4 DEF Status

\* ... mupgrade_write ...
LEMMA EraseRecordEmpties ==
  ASSUME NodeTypeOK, NEW n \in Node, EraseRecord(n), ~ Full(nvs[n])
  PROVE  ~ Full(nvs'[n])
BY DEF EraseRecord, NodeTypeOK, Full, Empty

LEMMA DataIsHonest ==
  ASSUME Terms, NodeInv, NEW n \in Node, Trusty(n), NEW f \in Firmware,
         NEW p \in Packet, Data(n, f, p)
  PROVE  Trusty(n)' /\ Carried(n) /\ Answers(n)
<1> USE DEF NodeInv
<1>0. NodeTypeOK /\ OneFirmware
  BY DEF Terms
<1>a. n \notin RootNode => Selected(n)'
  BY <1>0, DataSelects DEF Trusty
<1>d. NeverSavedFull => ~ Full(nvs[n]) /\ \E k \in Nat : next[n] = k * Interval
  BY DEF Trusty
<1>1. CASE WriteNotInit(n)
  <2>1. UNCHANGED nodeVars
    BY <1>1 DEF WriteNotInit
  <2>2. Carried(n)
    BY <2>1, <1>a, GrantedStays DEF nodeVars
  <2>3. Trusty(n)' /\ up' = up
    BY <2>1 DEF nodeVars, Trusty, Selected, Whole, Granted, Installed
  <2> QED
    BY <2>2, <2>3 DEF Answers
<1>2. CASE WriteRefused(n)
  <2>1. UNCHANGED <<boot, version, next, task>> /\ At(n, "idle") /\ EraseRecord(n)
        /\ cfg'[n] = Progress(Loaded(n), 0, {}) /\ Respond(n, Progress(Loaded(n), 0, {}))
        /\ Loaded(n).name # NoName /\ Loaded(n).stop
    BY <1>2 DEF WriteRefused, NodeTypeOK
  <2>2. Loaded(n) \in Config
    BY <1>0, LoadedType
  <2>3. PICK c \in Config : c = Progress(Loaded(n), 0, {})
    BY <2>2, ChangedType
  <2>4. c.name # NoName /\ c.stop /\ c.written = 0 /\ ~ Full(c)
    BY <2>1, <2>3, FreshIsPartial DEF Progress
  <2>5. Carried(n)
    BY <1>a, <2>1, <2>3, <2>4, GrantedStays
  <2>6. NeverSavedFull => ~ Full(nvs'[n])
    BY <1>0, <1>d, <2>1, EraseRecordEmpties
  <2>7. Trusty(n)'
    BY <1>0, <1>a, <1>d, <2>1, <2>3, <2>4, <2>5, <2>6, TrustyStays DEF At
  <2>8. Answers(n)
    BY <1>0, <2>1, <2>3, <2>4, <2>5, RespondAnswers
  <2> QED
    BY <2>5, <2>7, <2>8
<1>3. CASE WriteIgnored(n, p) \/ WriteFlash(n, f, p)
  <2>1. UNCHANGED <<nvs, boot, version, next, up>> /\ cfg'[n] = Loaded(n)
        /\ Loaded(n).name # NoName /\ At(n, "idle")
        /\ (task'[n] = task[n] \/ task'[n] = Writing(p))
    BY <1>3 DEF WriteIgnored, WriteFlash, Writable, NodeTypeOK
  <2>2. /\ Full(Loaded(n)) => Granted(n)
        /\ Budget.restart = 0 => Loaded(n) = cfg[n]
    BY <1>0, <2>1, LoadedTrusty
  <2>3. Carried(n)
    BY <1>a, <2>1, <2>2, GrantedStays
  <2>4. task'[n].step # "begun"
    BY <2>1 DEF At, Writing
  <2>5. Trusty(n)'
    BY <1>0, <1>a, <1>d, <2>1, <2>2, <2>3, <2>4, TrustyStays
  <2> QED
    BY <2>1, <2>3, <2>5 DEF Answers
<1> QED
  BY <1>1, <1>2, <1>3 DEF Data

\* ... and what follows.  A record is due at a multiple of the interval.
LEMMA LastIsHundred ==
  ASSUME NEW c \in Config, Full(c)
  PROVE  Percent(c) = 100
<1>1. c.name \in Firmware
  BY DEF Full, Config, Name
<1>2. PacketNum[c.name] \in Nat \ {0} /\ c.written = PacketNum[c.name]
  BY <1>1, PacketBound DEF Full
<1>3. \A k \in Nat \ {0} : (k * 100) \div k = 100
  OBVIOUS
<1> QED
  BY <1>2, <1>3 DEF Percent

LEMMA AccountSavesNoFull ==
  ASSUME NodeInv, NeverSavedFull, NEW n \in Node, WriteAccount(n),
         ~ Full(nvs[n]), \E k \in Nat : next[n] = k * Interval
  PROVE  ~ Full(nvs'[n]) /\ \E k \in Nat : next'[n] = k * Interval
<1> USE DEF NodeInv
<1> DEFINE c == Progress(cfg[n], cfg[n].written + 1, cfg[n].bits \union {task[n].seq})
           percent == Percent(c)
<1>1. cfg[n] \in Config /\ cfg[n].name # NoName /\ task[n].seq \in Packet
  BY DEF WriteAccount, BusyKnowsName, NodeTypeOK, At, Task
<1>2. c \in Config
  BY <1>1, ChangedType DEF Config
<1>3. PICK k \in Nat : next[n] = k * Interval
  OBVIOUS
<1>4. Interval \in Nat /\ k * Interval \in Nat
  OBVIOUS
<1>5. CASE Due(n, percent) /\ next' = [next EXCEPT ![n] = @ + Interval] /\ SaveRecord(n, c)
  <2>1. next'[n] = (k + 1) * Interval /\ k + 1 \in Nat
    BY <1>3, <1>4, <1>5 DEF NodeTypeOK
  <2>2. ~ Full(c)
    <3>1. percent = k * Interval
      BY <1>3, <1>5 DEF Due
    <3> HIDE DEF c
    <3> QED
      BY <1>2, <3>1, LastIsHundred DEF NeverSavedFull
  <2>3. nvs'[n] = Saved(c) \/ nvs'[n] = nvs[n]
    BY <1>5 DEF SaveRecord, NodeTypeOK
  <2>4. Full(Saved(c)) => Full(c)
    BY DEF Full, Saved, Progress
  <2> QED
    BY <2>1, <2>2, <2>3, <2>4
<1>6. CASE percent > next[n]
           /\ next' = [next EXCEPT ![n] = (percent \div Interval + 1) * Interval]
           /\ UNCHANGED nvs
  <2>1. percent \in Nat
    BY <1>1, <1>2, PercentType DEF Progress
  <2>2. percent \div Interval + 1 \in Nat
    BY <2>1, QuotientType
  <2>3. next'[n] = (percent \div Interval + 1) * Interval
    BY <1>6 DEF NodeTypeOK
  <2> QED
    BY <1>6, <2>2, <2>3
<1>7. CASE UNCHANGED <<next, nvs>>
  BY <1>7
<1> QED
  BY <1>5, <1>6, <1>7 DEF WriteAccount

LEMMA ContinueIsHonest ==
  ASSUME Terms, NodeInv, NEW n \in Node, Trusty(n), Continue(n)
  PROVE  Trusty(n)' /\ Carried(n) /\ Answers(n)
<1> USE DEF NodeInv
<1>0. NodeTypeOK /\ cfg[n].name # NoName /\ cfg[n] \in Config
  BY DEF BusyKnowsName, Continue, StatusSave, WriteAccount, WriteErase, WriteSwitch,
         WriteSwitchFails, At, NodeTypeOK
<1>a. n \notin RootNode => Selected(n)'
  BY ContinueSelects DEF Trusty
<1>d. NeverSavedFull => ~ Full(nvs[n]) /\ \E k \in Nat : next[n] = k * Interval
  BY DEF Trusty
<1>1. CASE StatusSave(n)
  <2>1. UNCHANGED <<cfg, boot, version, next>> /\ SaveRecord(n, cfg[n])
        /\ Respond(n, cfg[n]) /\ task'[n].step = "idle" /\ At(n, "begun")
    BY <1>1 DEF StatusSave, NodeTypeOK, Idle, Doing
  <2>2. cfg[n].written = 0 /\ ~ Full(cfg[n])
    BY <1>0, <2>1, FreshIsPartial DEF Trusty, At
  <2>3. nvs'[n] = Saved(cfg[n]) \/ nvs'[n] = nvs[n]
    BY <2>1 DEF SaveRecord, NodeTypeOK
  <2>4. ~ Full(Saved(cfg[n]))
    BY <2>2 DEF Full, Saved, Progress
  <2>5. Carried(n)
    BY <1>a, <2>1, GrantedStays
  <2>6. Trusty(n)'
    BY <1>0, <1>a, <1>d, <2>1, <2>2, <2>3, <2>4, <2>5, TrustyStays
  <2>7. PICK c \in Config : c = cfg[n]
    BY <1>0
  <2>8. Answers(n)
    BY <1>0, <2>1, <2>2, <2>5, <2>7, RespondAnswers
  <2> QED
    BY <2>5, <2>6, <2>8
<1>2. CASE WriteAccount(n)
  <2> DEFINE c == Progress(cfg[n], cfg[n].written + 1, cfg[n].bits \union {task[n].seq})
  <2>1. UNCHANGED <<boot, version, up>> /\ cfg'[n] = c
        /\ task'[n] = IF c.written = PacketNum[c.name] THEN Doing("complete") ELSE Idle
    BY <1>2 DEF WriteAccount, NodeTypeOK
  <2>2. c.name = cfg[n].name /\ c.stop = cfg[n].stop /\ cfg[n].bits \subseteq c.bits
    BY DEF Progress
  <2> HIDE DEF c
  <2>3. Full(c) => task'[n].step = "complete"
    BY <2>1 DEF Full, Doing
  <2>4. task'[n].step # "begun"
    BY <2>1 DEF Doing, Idle
  <2>5. Carried(n)
    BY <1>a, <2>1, <2>2, GrantedStays
  <2>6. NeverSavedFull => ~ Full(nvs'[n]) /\ \E k \in Nat : next'[n] = k * Interval
    BY <1>2, <1>d, AccountSavesNoFull
  <2>7. Trusty(n)'
    BY <1>0, <1>a, <2>1, <2>2, <2>3, <2>4, <2>5, <2>6, TrustyStays
  <2> QED
    BY <2>1, <2>5, <2>7 DEF Answers
<1>3. CASE WriteErase(n)
  <2>1. UNCHANGED <<cfg, boot, version, next, up>> /\ EraseRecord(n)
        /\ task'[n].step = "switch"
    BY <1>3 DEF WriteErase, NodeTypeOK, Doing
  <2>2. Carried(n)
    BY <1>a, <2>1, GrantedStays
  <2>3. NeverSavedFull => ~ Full(nvs'[n])
    BY <1>0, <1>d, <2>1, EraseRecordEmpties
  <2>4. Trusty(n)'
    BY <1>0, <1>a, <1>d, <2>1, <2>2, <2>3, TrustyStays
  <2> QED
    BY <2>1, <2>2, <2>4 DEF Answers
<1>4. CASE WriteSwitch(n)
  <2>1. UNCHANGED <<cfg, nvs, version, next>> /\ Respond(n, cfg[n])
        /\ task'[n].step = "idle"
    BY <1>4 DEF WriteSwitch, NodeTypeOK, Idle, Doing
  <2>2. boot'[n] # NoName
    BY <1>4 DEF WriteSwitch, NodeTypeOK
  <2>3. Carried(n)
    BY <1>a, <2>1, <2>2, GrantedStays
  <2>4. Granted(n)'
    BY <1>a, <2>2 DEF Granted, Installed, Selected
  <2>5. Trusty(n)'
    BY <1>0, <1>a, <1>d, <2>1, <2>3, <2>4, TrustyStays
  <2>6. PICK c \in Config : c = cfg[n]
    BY <1>0
  <2>7. Answers(n)
    BY <1>0, <2>1, <2>3, <2>4, <2>6, RespondAnswers
  <2> QED
    BY <2>3, <2>5, <2>7
<1>5. CASE WriteSwitchFails(n)
  <2>1. UNCHANGED <<nvs, boot, version, next, up>> /\ task'[n].step = "idle"
        /\ cfg'[n] = [name |-> cfg[n].name, stop |-> TRUE, written |-> 0,
                      bits |-> cfg[n].bits]
    BY <1>5 DEF WriteSwitchFails, NodeTypeOK, Idle, Doing
  <2>2. cfg'[n].name # NoName /\ cfg'[n].stop /\ cfg'[n].written = 0 /\ cfg'[n] \in Config
    BY <1>0, <2>1 DEF Config
  <2>3. ~ Full(cfg'[n])
    BY <2>2, FreshIsPartial
  <2>4. Carried(n)
    BY <1>a, <2>1, <2>2, GrantedStays
  <2>5. Trusty(n)'
    BY <1>a, <1>d, <2>1, <2>2, <2>3, <2>4, TrustyStays
  <2> QED
    BY <2>1, <2>4, <2>5 DEF Answers
<1> QED
  BY <1>1, <1>2, <1>3, <1>4, <1>5 DEF Continue

\* A stop takes back what the device has reported, and says so.
LEMMA StopIsHonest ==
  ASSUME Terms, NodeInv, NEW n \in Node, Trusty(n), NodeStop(n), Budget.halt > 0
  PROVE  Trusty(n)' /\ Carried(n) /\ Answers(n)
<1> USE DEF NodeInv
<1>1. NodeTypeOK /\ cfg[n].name # NoName /\ cfg[n] \in Config
  BY DEF NodeStop, NodeTypeOK
<1>2. UNCHANGED <<version, next, task>> /\ cfg'[n] = Stopped(cfg[n]) /\ EraseRecord(n)
      /\ Respond(n, Stopped(cfg[n])) /\ boot'[n] \in {boot[n], NoName}
  BY DEF NodeStop, NodeTypeOK, BootAfterStop
<1>3. n \notin RootNode => Selected(n)'
  BY <1>2, StopDeselects DEF Trusty, Selected
<1>4. PICK c \in Config : c = Stopped(cfg[n])
  BY <1>1, ChangedType
<1>5. c.name # NoName /\ c.stop /\ c.written = 0 /\ ~ Full(c)
  BY <1>1, <1>4, FreshIsPartial DEF Stopped
<1>6. Granted(n)'
  BY <1>2, <1>4, <1>5 DEF Granted
<1>7. Carried(n)
  BY <1>2, <1>4, <1>5, <1>6 DEF Carried
<1>8. NeverSavedFull => ~ Full(nvs'[n]) /\ \E k \in Nat : next'[n] = k * Interval
  BY <1>1, <1>2, EraseRecordEmpties DEF Trusty
<1>9. Trusty(n)'
  BY <1>1, <1>2, <1>3, <1>4, <1>5, <1>7, <1>8, TrustyStays
<1>10. Answers(n)
  BY <1>1, <1>2, <1>4, <1>5, <1>7, RespondAnswers
<1> QED
  BY <1>7, <1>9, <1>10

\* The image that is selected runs after a reset.
LEMMA RestartIsHonest ==
  ASSUME Terms, NodeInv, NEW n \in Node \ RootNode, Trusty(n), Restart(n),
         Budget.restart > 0
  PROVE  Trusty(n)' /\ Carried(n) /\ Answers(n)
<1> USE DEF NodeInv
<1>1. NodeTypeOK /\ NeverSavedFull /\ Budget.halt = 0 /\ Budget.restart # 0
  BY DEF Terms
<1>2. cfg'[n] = Empty /\ next'[n] = Interval /\ task'[n] = Idle /\ boot'[n] = NoName
      /\ UNCHANGED <<nvs, up>>
      /\ version'[n] = IF boot[n] # NoName /\ Whole(n, boot[n]) THEN boot[n] ELSE version[n]
  BY <1>1 DEF Restart, NodeTypeOK
<1>3. Granted(n) => Granted(n)'
  BY <1>1, <1>2 DEF Granted, Installed
<1>4. Carried(n) /\ Answers(n)
  BY <1>1, <1>2, <1>3 DEF Carried, Answers
<1>5. Selected(n)'
  BY <1>2 DEF Selected
<1>6. ~ Full(cfg'[n]) /\ cfg'[n].written = 0
  BY <1>2 DEF Full, Empty
<1>7. \E k \in Nat : next'[n] = k * Interval
  BY <1>2, 1 \in Nat, Interval = 1 * Interval
<1>8. ~ Full(nvs'[n])
  BY <1>1, <1>2 DEF Trusty
<1> QED
  BY <1>1, <1>4, <1>5, <1>6, <1>7, <1>8 DEF Trusty

(* The mesh, the queue and the lists only move what the devices have said.  *)
Devices == \A n \in Node : Trusty(n) /\ Reports(n)

Messages ==
  /\ inhand # NoReport => Honest(inhand)
  /\ \A i \in 1 .. Len(queue) : Honest(queue[i])

Counted == \A n \in successed : Granted(n)

LeftOut == Budget.restart = 0 => \A n \in requested : Held(n, progress)

RootImage == \A n \in RootNode : image.state = "finish" => Whole(n, image.name)

Spent ==
  /\ Budget.restart = 0 => left.restart = 0
  /\ Budget.halt = 0 => left.halt = 0

SuccessInv ==
  /\ MeshInv /\ ListInv
  /\ Devices /\ Messages /\ Counted /\ LeftOut /\ RootImage /\ Spent

\* A step of the root leaves the devices alone, except its own partition.
LEMMA RootLeavesDevices ==
  ASSUME UNCHANGED <<cfg, nvs, boot, version, fin, next, task>>,
         \A n \in Node \ RootNode : flash'[n] = flash[n]
  PROVE  \A n \in Node : Carried(n) /\ (Trusty(n) => Trusty(n)')
<1> SUFFICES ASSUME NEW n \in Node PROVE Carried(n) /\ (Trusty(n) => Trusty(n)')
  OBVIOUS
<1>1. n \notin RootNode /\ Selected(n) => Selected(n)'
  BY DEF Selected, Whole
<1>2. Granted(n) => Granted(n)'
  BY DEF Granted, Installed, Whole
<1>3. Trusty(n) => Trusty(n)'
  BY <1>1, <1>2 DEF Trusty
<1> QED
  BY <1>2, <1>3 DEF Carried

LEMMA MessagesStay ==
  ASSUME MeshTypeOK, Messages, \A n \in Node : Carried(n), UNCHANGED <<inhand, queue>>
  PROVE  Messages'
<1>1. ASSUME NEW r \in Report, Honest(r) PROVE Honest(r)'
  <2>1. r.from \in Node
    BY DEF Report
  <2> QED
    BY <1>1, <2>1, HonestStays
<1>2. inhand # NoReport => inhand \in Report /\ Honest(inhand)
  BY DEF MeshTypeOK, Messages
<1>3. inhand' # NoReport => Honest(inhand)'
  <2> SUFFICES ASSUME inhand # NoReport, NEW r \in Report, r = inhand PROVE Honest(r)'
    BY <1>2
  <2> QED
    BY <1>1, <1>2
<1>4. \A i \in 1 .. Len(queue') : Honest(queue[i])'
  <2> SUFFICES ASSUME NEW i \in 1 .. Len(queue), NEW r \in Report, r = queue[i]
               PROVE  Honest(r)'
    BY DEF MeshTypeOK
  <2> QED
    BY <1>1 DEF Messages
<1> QED
  BY <1>3, <1>4 DEF Messages

LEMMA ResultStays ==
  ASSUME ListTypeOK, Counted, LeftOut, \A n \in Node : Carried(n),
         UNCHANGED <<successed, requested, progress>>
  PROVE  Counted' /\ LeftOut'
<1>1. \A n \in Node : Granted(n) => Granted(n)'
  BY DEF Carried
<1>2. Counted'
  BY <1>1 DEF Counted, ListTypeOK
<1>3. ASSUME Budget.restart = 0, NEW n \in requested PROVE Held(n, progress)'
  <2>1. n \in Node /\ Held(n, progress)
    BY <1>3 DEF ListTypeOK, LeftOut
  <2> QED
    BY <1>3, <2>1 DEF Carried, Held
<1> QED
  BY <1>2, <1>3 DEF LeftOut

\* The sending task takes a report from the queue and believes it.
LEMMA SenderCounts ==
  ASSUME SuccessInv, Sender
  PROVE  Counted' /\ LeftOut'
<1> USE DEF SuccessInv
<1>1. UNCHANGED nodeVars
  BY SenderLeavesDevices
<1>2. \A n \in Node :
        /\ Granted(n) => Granted(n)'
        /\ \A b : Held(n, b) => (cfg'[n].stop \/ b \subseteq cfg'[n].bits)
  BY <1>1 DEF nodeVars, Granted, Installed, Whole, Held
<1>3. queue # <<>> => Head(queue) \in Report /\ Head(queue).from \in Node /\ Honest(Head(queue))
  <2> SUFFICES ASSUME queue # <<>>
               PROVE  Head(queue) \in Report /\ Head(queue).from \in Node /\ Honest(Head(queue))
    OBVIOUS
  <2>1. Head(queue) \in Report
    BY HeadIsReport DEF MeshInv
  <2>2. Head(queue).from \in Node
    BY <2>1 DEF Report
  <2>3. Head(queue) = queue[1] /\ 1 \in 1 .. Len(queue)
    BY DEF MeshInv, MeshTypeOK
  <2>4. Honest(queue[1])
    BY <2>3 DEF Messages
  <2> QED
    BY <2>1, <2>2, <2>3, <2>4
<1>4. ListTypeOK
  BY DEF MeshInv
<1>5. ASSUME UNCHANGED <<successed, requested, progress>> PROVE Counted' /\ LeftOut'
  BY <1>2, <1>4, <1>5 DEF Counted, LeftOut, Held, ListTypeOK
<1>6. ASSUME UNCHANGED successed, requested' = {} PROVE Counted' /\ LeftOut'
  BY <1>2, <1>4, <1>6 DEF Counted, LeftOut, ListTypeOK
<1>7. ASSUME UNCHANGED <<successed, requested>>, progress' = {} PROVE Counted' /\ LeftOut'
  BY <1>2, <1>4, <1>7 DEF Counted, LeftOut, Held, ListTypeOK
<1>8. CASE RoundBegin
  BY <1>5, <1>6, <1>8 DEF RoundBegin
<1>9. CASE DrainReport
  <2>1. requested' = {} /\ (successed' = successed \/
          (Finished(Head(queue)) /\ successed' = successed \union {Head(queue).from}))
    BY <1>9 DEF DrainReport, ListInv
  <2>2. queue # <<>>
    BY <1>9 DEF DrainReport
  <2>3. Counted'
    BY <1>2, <1>3, <1>4, <2>1, <2>2 DEF Counted, Honest, ListTypeOK
  <2> QED
    BY <2>1, <2>3 DEF LeftOut
<1>10. CASE DrainTimeout
  BY <1>6, <1>10 DEF DrainTimeout, ListInv
<1>11. CASE Ask \/ CollectEnd \/ AskEnd
  BY <1>5, <1>11 DEF Ask, CollectEnd, AskEnd, locals
<1>12. CASE CollectReport
  <2> DEFINE r == Head(queue)
             partial == r.from \in asking /\ ~ r.stop /\ ~ Finished(r)
  <2>1. /\ queue # <<>>
        /\ \/ successed' = successed
           \/ Finished(r) /\ successed' = successed \union {r.from}
        /\ requested' = IF partial THEN requested \union {r.from} ELSE requested
        /\ progress' = IF partial THEN progress \intersect r.bits ELSE progress
    BY <1>12 DEF CollectReport, ProgressAfter
  <2>2. r.from \in Node /\ Honest(r)
    BY <1>3, <2>1
  <2> HIDE DEF r
  <2>3. Counted'
    BY <1>2, <1>4, <2>1, <2>2 DEF Counted, Honest, ListTypeOK
  <2>4. ASSUME Budget.restart = 0, NEW n \in requested' PROVE Held(n, progress)'
    <3>1. CASE n \in requested
      <4>1. n \in Node /\ Held(n, progress) /\ progress' \subseteq progress
        BY <1>4, <2>1, <2>4, <3>1 DEF LeftOut, ListTypeOK
      <4> QED
        BY <1>2, <4>1 DEF Held
    <3>2. CASE n \notin requested
      <4>1. n = r.from /\ progress' \subseteq r.bits
        BY <2>1, <2>4, <3>2
      <4>2. Held(n, r.bits)
        BY <2>2, <2>4, <4>1 DEF Honest
      <4> QED
        BY <1>2, <2>2, <4>1, <4>2 DEF Held
    <3> QED
      BY <3>1, <3>2
  <2> QED
    BY <2>3, <2>4 DEF LeftOut
<1>13. CASE SendEnd \/ Exit
  BY <1>7, <1>13 DEF SendEnd, Exit
<1>14. CASE SendSkip \/ SendPoll \/ SendPacket \/ SendReadFails \/ Flush \/ Signal
  BY <1>5, <1>14 DEF SendSkip, SendPoll, SendPacket, SendReadFails, Flush, Signal, locals
<1>15. CASE PollReport
  <2>1. /\ queue # <<>> /\ progress' = progress
        /\ \/ successed' = successed
           \/ DoneInPoll(Head(queue)) /\ successed' = successed \union {Head(queue).from}
        /\ requested' \subseteq requested
    BY <1>15 DEF PollReport
  <2>2. successed' = successed
    BY <1>3, <2>1, PollFindsNobody
  <2> QED
    BY <1>2, <1>4, <2>1, <2>2 DEF Counted, LeftOut, Held, ListTypeOK
<1> QED
  BY <1>8, <1>9, <1>10, <1>11, <1>12, <1>13, <1>14, <1>15 DEF Sender

\* What the sending task leaves in the queue, and in the budget.
LEMMA SenderQueues ==
  ASSUME Sender
  PROVE  /\ inhand' = inhand /\ image' = image
         /\ queue' = queue \/ queue' = <<>> \/ (queue # <<>> /\ queue' = Tail(queue))
         /\ left' = left \/ \E dests, m : Multicast(dests, m)
<1>1. CASE RoundBegin \/ DrainTimeout \/ CollectEnd \/ AskEnd
  BY <1>1 DEF RoundBegin, DrainTimeout, CollectEnd, AskEnd
<1>2. CASE DrainReport \/ CollectReport \/ PollReport
  BY <1>2 DEF DrainReport, CollectReport, PollReport
<1>3. CASE Ask \/ SendPacket
  BY <1>3 DEF Ask, SendPacket
<1>4. CASE SendEnd \/ SendSkip \/ SendPoll \/ SendReadFails
  BY <1>4 DEF SendEnd, SendSkip, SendPoll, SendReadFails
<1>5. CASE Exit \/ Flush \/ Signal
  BY <1>5 DEF Exit, Flush, Signal
<1> QED
  BY <1>1, <1>2, <1>3, <1>4, <1>5 DEF Sender

\* Only a reset and a stop take from their budgets.
LEMMA MulticastSpends ==
  ASSUME MeshTypeOK, NEW dests, NEW m, Multicast(dests, m)
  PROVE  left'.restart = left.restart /\ left'.halt = left.halt
<1>1. left \in [DOMAIN Budget -> Nat] /\ "restart" \in DOMAIN Budget /\ "halt" \in DOMAIN Budget
  BY DEF MeshTypeOK
<1>2. PICK lost \in SUBSET dests : \E twice \in SUBSET (dests \ lost) :
        left' = [what \in DOMAIN Budget |->
                   left[what] - [w \in DOMAIN Budget |->
                      IF w = "lose" THEN Cardinality(lost)
                      ELSE IF w = "repeat" THEN Cardinality(twice) ELSE 0][what]]
  BY DEF Multicast
<1>3. left'["restart"] = left["restart"] - 0 /\ left'["halt"] = left["halt"] - 0
  BY <1>1, <1>2
<1> QED
  BY <1>1, <1>3

LEMMA SpendSpends ==
  ASSUME MeshTypeOK, NEW what \in DOMAIN Budget, Spend(what, 1), left[what] > 0, Spent
  PROVE  Spent'
<1>1. left \in [DOMAIN Budget -> Nat] /\ left' = [left EXCEPT ![what] = @ - 1]
  BY DEF MeshTypeOK, Spend
<1>2. what # "restart" => left'["restart"] = left["restart"]
  BY <1>1
<1>3. what # "halt" => left'["halt"] = left["halt"]
  BY <1>1
<1> QED
  BY <1>1, <1>2, <1>3 DEF Spent

LEMMA SenderKeepsSuccess ==
  ASSUME SuccessInv, Sender
  PROVE  Devices' /\ Messages' /\ RootImage' /\ Spent'
<1> USE DEF SuccessInv
<1>1. UNCHANGED nodeVars
  BY SenderLeavesDevices
<1>2. MeshTypeOK
  BY DEF MeshInv
<1>3. \A n \in Node : Carried(n) /\ (Trusty(n) => Trusty(n)')
  BY <1>1, RootLeavesDevices DEF nodeVars
<1>4. ASSUME NEW r \in Report, Honest(r) PROVE Honest(r)'
  <2>1. r.from \in Node
    BY DEF Report
  <2> QED
    BY <1>3, <1>4, <2>1, HonestStays
<1>5. Devices'
  <2>1. \A n \in Node : Reports(n) => Reports(n)'
    BY <1>1, <1>3, ReportsStay DEF MeshInv, NodeInv, nodeVars, Answers
  <2> QED
    BY <1>3, <2>1 DEF Devices
<1>6. RootImage'
  BY <1>1, SenderQueues DEF RootImage, Whole, nodeVars
<1>7. Spent'
  BY <1>2, SenderQueues, MulticastSpends DEF Spent
<1>8. queue \in Seq(Report) /\ (inhand # NoReport => inhand \in Report)
  BY <1>2 DEF MeshTypeOK
<1>9. inhand' # NoReport => Honest(inhand)'
  <2> SUFFICES ASSUME inhand # NoReport, NEW r \in Report, r = inhand PROVE Honest(r)'
    BY <1>8, SenderQueues
  <2> QED
    BY <1>4 DEF Messages
<1>10. \A i \in 1 .. Len(queue') : \E j \in 1 .. Len(queue) : queue'[i] = queue[j]
  <2>1. CASE queue' = <<>> \/ queue' = queue
    BY <2>1
  <2>2. ASSUME queue # <<>>, queue' = Tail(queue), NEW i \in 1 .. Len(queue')
        PROVE  \E j \in 1 .. Len(queue) : queue'[i] = queue[j]
    <3>1. i + 1 \in 1 .. Len(queue) /\ queue'[i] = queue[i + 1]
      BY <1>8, <2>2
    <3> QED
      BY <3>1
  <2> QED
    BY <2>1, <2>2, SenderQueues
<1>11. \A i \in 1 .. Len(queue') : Honest(queue[i])'
  <2> SUFFICES ASSUME NEW i \in 1 .. Len(queue'), NEW r, r = queue'[i] PROVE Honest(r)'
    OBVIOUS
  <2>1. PICK j \in 1 .. Len(queue) : r = queue[j]
    BY <1>10
  <2>2. r \in Report /\ Honest(r)
    BY <1>8, <2>1 DEF Messages
  <2> QED
    BY <1>4, <2>2
<1> QED
  BY <1>5, <1>6, <1>7, <1>9, <1>11 DEF Messages

\* mupgrade_root_handle moves a report from the mesh to the queue.
LEMMA ReceiverKeepsSuccess ==
  ASSUME SuccessInv, Receiver
  PROVE  Devices' /\ Messages' /\ Counted' /\ LeftOut' /\ RootImage' /\ Spent'
<1> USE DEF SuccessInv
<1>1. UNCHANGED <<cfg, nvs, flash, boot, version, fin, next, task>>
      /\ UNCHANGED <<image, successed, requested, progress, left>>
  BY DEF Receiver, RootAccept, RootEnqueue, RootGiveUp, nodeVars, locals
<1>2. MeshTypeOK /\ ListTypeOK /\ NodeTypeOK
  BY DEF MeshInv, NodeInv
<1>3. \A n \in Node : Carried(n) /\ (Trusty(n) => Trusty(n)')
  BY <1>1, RootLeavesDevices
<1>4. Counted' /\ LeftOut'
  BY <1>1, <1>2, <1>3, ResultStays
<1>5. RootImage' /\ Spent'
  BY <1>1 DEF RootImage, Whole, Spent
<1>6. ASSUME NEW n \in Node PROVE Answers(n)
  <2>1. CASE up'[n] = up[n]
    BY <2>1 DEF Answers
  <2>2. CASE up[n] # <<>> /\ up'[n] = Tail(up[n])
    BY <2>2 DEF Answers
  <2> QED
    BY <1>2, <2>1, <2>2 DEF Receiver, RootAccept, RootEnqueue, RootGiveUp, nodeVars, NodeTypeOK
<1>7. Devices'
  BY <1>2, <1>3, <1>6, ReportsStay DEF Devices
<1>8. ASSUME NEW r \in Report, Honest(r) PROVE Honest(r)'
  <2>1. r.from \in Node
    BY DEF Report
  <2> QED
    BY <1>3, <1>8, <2>1, HonestStays
<1>9. \A i \in 1 .. Len(queue) : queue[i] \in Report /\ Honest(queue[i])
  BY <1>2 DEF MeshTypeOK, Messages
<1>10. inhand # NoReport => inhand \in Report /\ Honest(inhand)
  BY <1>2 DEF MeshTypeOK, Messages
<1>11. \A i \in 1 .. Len(queue') : queue'[i] \in Report /\ Honest(queue'[i])
  <2>1. CASE queue' = queue
    BY <1>9, <2>1
  <2>2. CASE RootEnqueue
    <3>1. queue' = Append(queue, inhand) /\ inhand # NoReport /\ queue \in Seq(Report)
      BY <1>2, <2>2 DEF RootEnqueue, MeshTypeOK
    <3> QED
      BY <1>9, <1>10, <3>1
  <2> QED
    BY <2>1, <2>2 DEF Receiver, RootAccept, RootGiveUp
<1>12. inhand' # NoReport => inhand' \in Report /\ Honest(inhand')
  <2>1. ASSUME NEW n \in Node, RootAccept(n) PROVE inhand' = NoReport \/ (inhand' \in Report /\ Honest(inhand'))
    <3>1. up[n] # <<>> /\ up[n] \in Seq(Report)
      BY <1>2, <2>1 DEF RootAccept, NodeTypeOK
    <3>2. Head(up[n]) = up[n][1] /\ 1 \in 1 .. Len(up[n]) /\ Head(up[n]) \in Report
      BY <3>1
    <3>3. Honest(Head(up[n]))
      BY <3>2 DEF Devices, Reports
    <3> QED
      BY <2>1, <3>2, <3>3 DEF RootAccept
  <2> QED
    BY <2>1, <1>10 DEF Receiver, RootEnqueue, RootGiveUp
<1>13. inhand' # NoReport => Honest(inhand)'
  <2> SUFFICES ASSUME NEW r, r = inhand', inhand' # NoReport PROVE Honest(r)'
    OBVIOUS
  <2> QED
    BY <1>8, <1>12
<1>14. \A i \in 1 .. Len(queue') : Honest(queue[i])'
  <2> SUFFICES ASSUME NEW i \in 1 .. Len(queue'), NEW r, r = queue'[i] PROVE Honest(r)'
    OBVIOUS
  <2> QED
    BY <1>8, <1>11
<1> QED
  BY <1>4, <1>5, <1>7, <1>13, <1>14 DEF Messages

\* The calls of the application at the root, and mupgrade_firmware_stop.
RootCall ==
  \/ \E f \in Firmware : FirmwareInit(f)
  \/ FirmwareDownload
  \/ \E m \in Modes : \E dests \in Destinations(m) : SendStart(m, dests)
  \/ StopCheck

LEMMA RootCallFacts ==
  ASSUME MeshInv, RootCall \/ Stopper
  PROVE  /\ UNCHANGED <<cfg, nvs, boot, version, fin, next, task, up, inhand>>
         /\ \A n \in Node \ RootNode : flash'[n] = flash[n]
         /\ queue' = queue \/ queue' = <<>>
         /\ \/ UNCHANGED <<successed, requested, progress>>
            \/ successed' = {} /\ requested' = {}
<1> USE DEF locals, nodeVars
<1>1. ASSUME NEW content PROVE RootHolds(content) => \A n \in Node \ RootNode : flash'[n] = flash[n]
  BY DEF RootHolds
<1>2. ASSUME NEW f \in Firmware, FirmwareInit(f) PROVE \A n \in Node \ RootNode : flash'[n] = flash[n]
  BY <1>1, <1>2 DEF FirmwareInit
<1>3. CASE \E f \in Firmware : FirmwareInit(f)
  BY <1>2, <1>3 DEF FirmwareInit
<1>4. CASE FirmwareDownload
  <2>1. \A n \in Node \ RootNode : flash'[n] = flash[n]
    BY <1>1, <1>4 DEF FirmwareDownload
  <2> QED
    BY <1>4, <2>1 DEF FirmwareDownload
<1>5. CASE \E m \in Modes : \E dests \in Destinations(m) : SendStart(m, dests)
  BY <1>5 DEF SendStart
<1>6. CASE StopCheck \/ StopCreate \/ StopClear \/ StopTake
  BY <1>6 DEF StopCheck, StopCreate, StopClear, StopTake
<1> QED
  BY <1>3, <1>4, <1>5, <1>6 DEF RootCall, Stopper

\* The root's own partition holds the image whenever that is one that may be sent.
LEMMA RootCallImage ==
  ASSUME MeshInv, RootImage, Spent, RootCall \/ Stopper
  PROVE  RootImage' /\ Spent'
<1> USE DEF locals, nodeVars
<1>0. MeshTypeOK /\ image \in [name : Name, state : {"none", "open", "failed", "finish"}]
      /\ NodeTypeOK
  BY DEF MeshInv, RootTypeOK, NodeInv
<1>1. ASSUME UNCHANGED <<flash, image>> PROVE RootImage'
  BY <1>1 DEF RootImage, Whole
<1>2. ASSUME NEW f \in Firmware, FirmwareInit(f) PROVE RootImage' /\ Spent'
  <2>1. image'.state # "finish" /\ left' = left
    BY <1>2 DEF FirmwareInit
  <2> QED
    BY <2>1 DEF RootImage, Spent
<1>3. CASE FirmwareDownload
  <2>1. CASE RootHolds(ImageOf(image.name)) /\ image' = [image EXCEPT !.state = "finish"]
    <3>1. image.name \in Firmware /\ image'.name = image.name
      BY <1>0, <1>3, <2>1 DEF FirmwareDownload, MeshInv, Places
    <3>2. \A n \in RootNode : flash'[n] = ImageOf(image.name)
      BY <2>1 DEF RootHolds
    <3>3. \A p \in PacketsOf(image.name) : ImageOf(image.name)[p] = image.name
      <4>1. PacketsOf(image.name) \subseteq Packet
        BY <3>1, PacketBound DEF PacketsOf, Packet
      <4> QED
        BY <3>1, <4>1 DEF ImageOf
    <3> QED
      BY <1>3, <3>1, <3>2, <3>3 DEF RootImage, Whole, FirmwareDownload, Spent
  <2>2. CASE image' = [image EXCEPT !.state = "failed"]
    <3>1. image'.state # "finish" /\ left' = left
      BY <1>0, <1>3, <2>2 DEF FirmwareDownload
    <3> QED
      BY <3>1 DEF RootImage, Spent
  <2> QED
    BY <1>3, <2>1, <2>2 DEF FirmwareDownload
<1>4. CASE \E m \in Modes : \E dests \in Destinations(m) : SendStart(m, dests)
  <2>1. UNCHANGED <<flash, image>> /\ left["send"] > 0 /\ Spend("send", 1)
    BY <1>4 DEF SendStart
  <2> QED
    BY <1>0, <1>1, <2>1, SpendSpends
<1>5. CASE StopCheck
  <2>1. UNCHANGED <<flash, image>> /\ left["stop"] > 0 /\ Spend("stop", 1)
    BY <1>5 DEF StopCheck
  <2> QED
    BY <1>0, <1>1, <2>1, SpendSpends
<1>6. CASE Stopper
  <2>1. UNCHANGED <<flash, image, left>>
    BY <1>6 DEF Stopper, StopCreate, StopClear, StopTake
  <2> QED
    BY <1>1, <2>1 DEF Spent
<1> QED
  BY <1>2, <1>3, <1>4, <1>5, <1>6 DEF RootCall

LEMMA RootCallKeepsSuccess ==
  ASSUME SuccessInv, RootCall \/ Stopper
  PROVE  Devices' /\ Messages' /\ Counted' /\ LeftOut' /\ RootImage' /\ Spent'
<1> USE DEF SuccessInv
<1>1. MeshTypeOK /\ ListTypeOK /\ NodeTypeOK
  BY DEF MeshInv, NodeInv
<1>2. \A n \in Node : Carried(n) /\ (Trusty(n) => Trusty(n)')
  BY RootCallFacts, RootLeavesDevices
<1>3. Counted' /\ LeftOut'
  <2>1. CASE UNCHANGED <<successed, requested, progress>>
    BY <1>1, <1>2, <2>1, ResultStays
  <2>2. CASE successed' = {} /\ requested' = {}
    BY <2>2 DEF Counted, LeftOut
  <2> QED
    BY <2>1, <2>2, RootCallFacts
<1>4. Devices'
  <2>1. \A n \in Node : Answers(n)
    BY RootCallFacts DEF Answers
  <2> QED
    BY <1>1, <1>2, <2>1, ReportsStay DEF Devices
<1>5. Messages'
  <2>1. CASE queue' = queue
    BY <1>1, <1>2, <2>1, MessagesStay, RootCallFacts
  <2>2. CASE queue' = <<>>
    <3>1. inhand # NoReport => inhand \in Report /\ Honest(inhand)
      BY <1>1 DEF MeshTypeOK, Messages
    <3>2. inhand' # NoReport => Honest(inhand)'
      <4> SUFFICES ASSUME inhand # NoReport, NEW r \in Report, r = inhand PROVE Honest(r)'
        BY <3>1, RootCallFacts
      <4>1. r.from \in Node
        BY DEF Report
      <4> QED
        BY <1>2, <3>1, <4>1, HonestStays
    <3> QED
      BY <2>2, <3>2 DEF Messages
  <2> QED
    BY <2>1, <2>2, RootCallFacts
<1> QED
  BY <1>3, <1>4, <1>5, RootCallImage

\* A device reads a message that the root has sent.
Handles(n) ==
  \/ \E g \in Firmware : Status(n, g)
  \/ \E g \in Firmware : \E p \in Packet : Data(n, g, p)

LEMMA MessageIsHandled ==
  ASSUME MeshTypeOK, NEW n \in Node, Receive(n)
  PROVE  Handles(n)
<1>1. down[n] \in Seq(Message) /\ down[n] # <<>>
  BY DEF Receive, MeshTypeOK
<1>2. PICK m \in Message : m = Head(down[n])
  BY <1>1
<1>3. m.name \in Firmware /\ m.seq \in Packet
  BY <1>2 DEF Message
<1>4. Status(n, m.name) \/ Data(n, m.name, m.seq)
  BY <1>2 DEF Receive
<1> QED
  BY <1>3, <1>4 DEF Handles

\* The devices: by what was shown of each handler.
LEMMA DeviceIsHonest ==
  ASSUME Terms, SuccessInv, NEW n \in Node,
         Device(n) \/ DeviceRestarts(n) \/ DeviceStops(n) \/ LoseReport(n)
  PROVE  /\ Trusty(n)' /\ Carried(n) /\ Answers(n)
         /\ \A m \in Node \ {n} :
              /\ cfg'[m] = cfg[m] /\ nvs'[m] = nvs[m] /\ task'[m] = task[m]
              /\ flash'[m] = flash[m] /\ boot'[m] = boot[m] /\ fin'[m] = fin[m]
              /\ next'[m] = next[m] /\ version'[m] = version[m] /\ up'[m] = up[m]
<1> USE DEF SuccessInv
<1>0. NodeInv /\ NodeTypeOK /\ Trusty(n) /\ MeshTypeOK
      /\ Budget.halt \in Nat /\ Budget.restart \in Nat
      /\ left["halt"] \in Nat /\ left["restart"] \in Nat
  BY DEF MeshInv, NodeInv, Devices, MeshTypeOK
<1>1. CASE Receive(n)
  <2>1. Handles(n)
    BY <1>0, <1>1, MessageIsHandled
  <2>2. ASSUME NEW g \in Firmware, Status(n, g)
        PROVE  Trusty(n)' /\ Carried(n) /\ Answers(n)
    BY <1>0, <2>2, StatusIsHonest
  <2>3. ASSUME NEW g \in Firmware, NEW p \in Packet, Data(n, g, p)
        PROVE  Trusty(n)' /\ Carried(n) /\ Answers(n)
    BY <1>0, <2>3, DataIsHonest
  <2> QED
    BY <1>0, <2>1, <2>2, <2>3, OthersUntouched DEF Handles
<1>2. CASE DeviceContinues(n)
  BY <1>0, <1>2, ContinueIsHonest, OthersUntouched DEF DeviceContinues
<1>3. CASE DeviceRestarts(n)
  <2>1. Restart(n) /\ n \notin RootNode /\ left["restart"] > 0
    BY <1>3 DEF DeviceRestarts
  <2>2. Budget.restart > 0
    BY <1>0, <2>1 DEF Spent
  <2> QED
    BY <1>0, <2>1, <2>2, RestartIsHonest, OthersUntouched
<1>4. CASE DeviceStops(n)
  <2>1. NodeStop(n) /\ left["halt"] > 0
    BY <1>4 DEF DeviceStops
  <2>2. Budget.halt > 0
    BY <1>0, <2>1 DEF Spent
  <2> QED
    BY <1>0, <2>1, <2>2, StopIsHonest, OthersUntouched
<1>5. CASE LoseReport(n)
  <2>1. TakeReport(n)
    BY <1>5 DEF LoseReport, TakeReport
  <2>2. Trusty(n)' /\ Carried(n)
    BY <1>0, <2>1, RootLeavesDevices DEF TakeReport
  <2>3. Answers(n)
    BY <1>0, <2>1 DEF TakeReport, Answers, NodeTypeOK
  <2> QED
    BY <1>0, <2>1, <2>2, <2>3, OthersUntouched
<1> QED
  BY <1>1, <1>2, <1>3, <1>4, <1>5 DEF Device

\* No device that is a root erases its partition when it handles a message.
LEMMA DeviceKeepsImage ==
  ASSUME OneFirmware, NodeTypeOK, NEW n \in RootNode, NEW f \in Firmware, Whole(n, f),
         \/ Handles(n)
         \/ Continue(n) \/ NodeStop(n) \/ TakeReport(n)
  PROVE  Whole(n, f)'
<1>0. n \in Node
  OBVIOUS
<1>1. CASE UNCHANGED flash
  BY <1>1 DEF Whole
<1>2. CASE \E g \in Firmware : Status(n, g)
  BY <1>1, <1>2 DEF Status, StatusKnown, StatusRoot, StatusRootFails, StatusBegin,
                    StatusBeginFails
<1>3. CASE \E g \in Firmware : \E p \in Packet : Data(n, g, p)
  <2>1. PICK g \in Firmware, p \in Packet : Data(n, g, p)
    BY <1>3
  <2>2. CASE WriteFlash(n, g, p)
    <3>1. flash' = [flash EXCEPT ![n][p] = Programmed(@, f)]
      BY <2>2 DEF WriteFlash, OneFirmware
    <3> QED
      BY <1>0, <3>1, ProgrammedAgain
  <2> QED
    BY <1>1, <2>1, <2>2 DEF Data, WriteNotInit, WriteRefused, WriteIgnored, nodeVars
<1>4. CASE Continue(n)
  BY <1>1, <1>4 DEF Continue, StatusSave, WriteAccount, WriteErase, WriteSwitch,
                    WriteSwitchFails
<1>5. CASE NodeStop(n) \/ TakeReport(n)
  BY <1>1, <1>5 DEF NodeStop, TakeReport
<1> QED
  BY <1>2, <1>3, <1>4, <1>5 DEF Handles

LEMMA DeviceActs ==
  ASSUME MeshTypeOK, NEW n \in Node,
         Device(n) \/ DeviceRestarts(n) \/ DeviceStops(n) \/ LoseReport(n)
  PROVE  \/ Handles(n)
         \/ Continue(n) \/ NodeStop(n) \/ TakeReport(n)
         \/ DeviceRestarts(n) /\ n \notin RootNode
<1>1. CASE Receive(n)
  BY <1>1, MessageIsHandled
<1>2. CASE DeviceContinues(n) \/ DeviceRestarts(n) \/ DeviceStops(n) \/ LoseReport(n)
  BY <1>2 DEF DeviceContinues, DeviceRestarts, DeviceStops, LoseReport, TakeReport
<1> QED
  BY <1>1, <1>2 DEF Device

LEMMA DeviceKeepsSuccess ==
  ASSUME Terms, SuccessInv, NEW n \in Node,
         Device(n) \/ DeviceRestarts(n) \/ DeviceStops(n) \/ LoseReport(n)
  PROVE  Devices' /\ Messages' /\ Counted' /\ LeftOut' /\ RootImage' /\ Spent'
<1> USE DEF SuccessInv
<1>1. MeshTypeOK /\ ListTypeOK /\ NodeTypeOK
  BY DEF MeshInv, NodeInv
<1>2. UNCHANGED rootVars
  BY DEF Device, Receive, DeviceContinues, DeviceRestarts, DeviceStops, LoseReport
<1>3. ASSUME NEW m \in Node PROVE Carried(m) /\ Trusty(m)' /\ Answers(m)
  <2>1. CASE m = n
    BY <2>1, DeviceIsHonest
  <2>2. CASE m # n
    <3>1. /\ cfg'[m] = cfg[m] /\ nvs'[m] = nvs[m] /\ task'[m] = task[m]
          /\ flash'[m] = flash[m] /\ boot'[m] = boot[m] /\ fin'[m] = fin[m]
          /\ next'[m] = next[m] /\ version'[m] = version[m] /\ up'[m] = up[m]
      BY <2>2, DeviceIsHonest
    <3>2. Granted(m) => Granted(m)'
      BY <3>1 DEF Granted, Installed, Whole
    <3>3. Selected(m) => Selected(m)'
      BY <3>1 DEF Selected, Whole
    <3>4. Trusty(m)
      BY DEF Devices
    <3>5. Trusty(m)'
      BY <3>1, <3>2, <3>3, <3>4 DEF Trusty
    <3> QED
      BY <3>1, <3>2, <3>5 DEF Carried, Answers
  <2> QED
    BY <2>1, <2>2
<1>4. Devices'
  BY <1>1, <1>3, ReportsStay DEF Devices
<1>5. Messages'
  BY <1>1, <1>2, <1>3, MessagesStay DEF rootVars
<1>6. Counted' /\ LeftOut'
  BY <1>1, <1>2, <1>3, ResultStays DEF rootVars
<1>7. RootImage'
  <2> SUFFICES ASSUME NEW m \in RootNode, image.state = "finish" PROVE Whole(m, image.name)'
    BY <1>2 DEF RootImage, rootVars
  <2>1. Whole(m, image.name) /\ image.name \in Firmware /\ m \in Node /\ image' = image
    BY <1>2 DEF RootImage, rootVars, MeshInv, Places
  <2>2. PICK f \in Firmware : f = image.name
    BY <2>1
  <2>3. Whole(m, f)'
    <3>1. CASE m = n
      BY <1>1, <2>1, <2>2, <3>1, DeviceActs, DeviceKeepsImage DEF Terms
    <3>2. CASE m # n
      BY <2>1, <2>2, <3>2, DeviceIsHonest DEF Whole
    <3> QED
      BY <3>1, <3>2
  <2> QED
    BY <2>1, <2>2, <2>3 DEF Whole
<1>8. Spent'
  <2>1. CASE DeviceRestarts(n)
    BY <1>1, <2>1, SpendSpends DEF DeviceRestarts
  <2>2. CASE DeviceStops(n)
    BY <1>1, <2>2, SpendSpends DEF DeviceStops
  <2>3. CASE LoseReport(n)
    BY <1>1, <2>3, SpendSpends DEF LoseReport
  <2>4. CASE Device(n)
    BY <2>4 DEF Device, Receive, DeviceContinues, Spent
  <2> QED
    BY <2>1, <2>2, <2>3, <2>4
<1> QED
  BY <1>4, <1>5, <1>6, <1>7, <1>8

LEMMA SuccessInvStep ==
  ASSUME Terms
  PROVE  SuccessInv /\ [Next]_vars => SuccessInv'
<1> SUFFICES ASSUME SuccessInv, [Next]_vars PROVE SuccessInv'
  OBVIOUS
<1>1. MeshInv' /\ ListInv'
  BY MeshInvStep, ListInvStep DEF SuccessInv
<1>2. Sender \/ Receiver \/ Stopper \/ RootCall
      \/ (\E n \in Node : Device(n) \/ DeviceRestarts(n) \/ DeviceStops(n) \/ LoseReport(n))
      \/ UNCHANGED vars
  BY DEF Next, Environment, RootCall
<1>3. CASE UNCHANGED vars
  <2>1. MeshTypeOK /\ ListTypeOK /\ NodeTypeOK
    BY DEF SuccessInv, MeshInv, NodeInv
  <2>2. UNCHANGED nodeVars /\ UNCHANGED rootVars /\ left' = left
    BY <1>3 DEF vars
  <2>3. \A n \in Node : Carried(n) /\ (Trusty(n) => Trusty(n)')
    BY <2>2, RootLeavesDevices DEF nodeVars
  <2>4. Devices'
    BY <2>1, <2>2, <2>3, ReportsStay DEF Devices, SuccessInv, Answers, nodeVars
  <2>5. Messages' /\ Counted' /\ LeftOut'
    BY <2>1, <2>2, <2>3, MessagesStay, ResultStays DEF SuccessInv, rootVars
  <2>6. RootImage' /\ Spent'
    BY <2>2 DEF SuccessInv, RootImage, Spent, Whole, nodeVars, rootVars
  <2> QED
    BY <1>1, <2>4, <2>5, <2>6 DEF SuccessInv
<1>4. CASE Sender
  BY <1>1, <1>4, SenderCounts, SenderKeepsSuccess DEF SuccessInv
<1>5. CASE Receiver
  BY <1>1, <1>5, ReceiverKeepsSuccess DEF SuccessInv
<1>6. CASE Stopper \/ RootCall
  BY <1>1, <1>6, RootCallKeepsSuccess DEF SuccessInv
<1>7. CASE \E n \in Node : Device(n) \/ DeviceRestarts(n) \/ DeviceStops(n) \/ LoseReport(n)
  BY <1>1, <1>7, DeviceKeepsSuccess DEF SuccessInv
<1> QED
  BY <1>2, <1>3, <1>4, <1>5, <1>6, <1>7

LEMMA SuccessInvInit == Init => SuccessInv
<1> SUFFICES ASSUME Init PROVE SuccessInv
  OBVIOUS
<1>0. Interval = 1 * Interval
  <2>1. Interval \in Nat
    OBVIOUS
  <2> QED
    BY <2>1
<1> USE DEF Init, NodeInit
<1>1. MeshInv /\ ListInv
  BY MeshInvInit, ListInvInit
<1>2. ASSUME NEW n \in Node PROVE Trusty(n) /\ Reports(n)
  <2>1. cfg[n] = Empty /\ nvs[n] = Empty /\ boot[n] = NoName /\ version[n] = NoName
        /\ next[n] = Interval /\ task[n] = Idle /\ up[n] = <<>>
    BY DEF Init, NodeInit
  <2>2. Empty.name = NoName /\ Idle.step = "idle" /\ 1 \in Nat
    BY DEF Empty, Idle, Doing
  <2>3. Trusty(n)
    BY <1>0, <2>1, <2>2 DEF Trusty, Selected, Full
  <2> QED
    BY <2>1, <2>3 DEF Reports
<1>3. Messages
  BY DEF Messages
<1>4. Counted /\ LeftOut /\ RootImage /\ Spent
  BY DEF Counted, LeftOut, RootImage, Spent
<1> QED
  BY <1>1, <1>2, <1>3, <1>4 DEF SuccessInv, Devices

\* A device counted as succeeded runs the image or has selected the whole of it, however
\* many sends, losses, late and repeated reports there are and whichever calls fail: of one
\* firmware, which the application does not take back, and unless a reset can find a
\* complete record of an image that is not selected yet.
THEOREM SuccessesAreInstalled ==
  OneFirmware /\ Budget.halt = 0 /\ (Budget.restart = 0 \/ NeverSavedFull)
    => (Spec => []SuccessIsInstalled)
<1> SUFFICES ASSUME OneFirmware, Budget.halt = 0, Budget.restart = 0 \/ NeverSavedFull
             PROVE  Spec => []SuccessIsInstalled
  OBVIOUS
<1>1. Terms
  BY DEF Terms
<1>2. SuccessInv => SuccessIsInstalled
  <2> SUFFICES ASSUME SuccessInv, rpc # "idle", NEW n \in successed
               PROVE  \/ boot[n] = image.name /\ Whole(n, image.name)
                      \/ version[n] = image.name
    BY DEF SuccessIsInstalled
  <2>1. n \in Node /\ image.state = "finish" /\ image.name \in Firmware
    BY DEF SuccessInv, MeshInv, Places, ListTypeOK
  <2>2. boot[n] \in Firmware \union {NoName} /\ version[n] \in Firmware \union {NoName}
    BY <2>1 DEF SuccessInv, MeshInv, NodeInv, NodeTypeOK, Name
  <2>3. Installed(n)
    BY DEF SuccessInv, Counted, Granted
  <2>4. n \in RootNode => Whole(n, image.name)
    BY <2>1 DEF SuccessInv, RootImage
  <2>5. boot[n] # NoName => boot[n] = image.name
    BY <2>1, <2>2 DEF OneFirmware
  <2>6. version[n] # NoName => version[n] = image.name
    BY <2>1, <2>2 DEF OneFirmware
  <2> QED
    BY <2>3, <2>4, <2>5, <2>6 DEF Installed, Whole
<1> QED
  BY <1>1, <1>2, SuccessInvInit, SuccessInvStep, PTL DEF Spec

\* The packets the root leaves out of a round are ones every device it is for has, or
\* refuses, however late the reports are that say so and whichever calls fail: of one
\* firmware, and of devices that are not reset.
THEOREM SkippedAreHeld ==
  OneFirmware /\ Budget.restart = 0 => (Spec => []SkippedPacketsAreHeld)
<1> SUFFICES ASSUME OneFirmware, Budget.restart = 0 PROVE Spec => []SkippedPacketsAreHeld
  OBVIOUS
<1>1. Terms
  BY DEF Terms
<1>2. SuccessInv => SkippedPacketsAreHeld
  BY DEF SuccessInv, LeftOut, Held, SkippedPacketsAreHeld
<1> QED
  BY <1>1, <1>2, SuccessInvInit, SuccessInvStep, PTL DEF Spec

-----------------------------------------------------------------------------
(* The promise of mupgrade_firmware_send, without its end: every step of an *)
(* upgrade is one that MupgradeRollout allows, or none.                     *)

\* The conditions of the runs that check the promise: a reset would let a device that
\* has declined forget it, and a root that is one of the devices erases its partition
\* before each send.
PromiseTerms == OneFirmware /\ Budget.restart = 0 /\ RootNode = {}

LEMMA HoldersSelect ==
  ASSUME PromiseTerms, SuccessInv
  PROVE  /\ Holders = {n \in Node : boot[n] # NoName}
         /\ \A n \in Node : Granted(n) => n \in Holders \union Decliners
<1>1. \A n \in Node : version[n] = NoName /\ Selected(n)
  BY DEF PromiseTerms, SuccessInv, Devices, Trusty
<1>2. Holders = {n \in Node : boot[n] # NoName}
  BY <1>1 DEF Holders, Selected
<1> QED
  BY <1>1, <1>2 DEF Granted, Installed, Decliners

\* What a handler does to the selected image, and to the refusal.
LEMMA HandlersDecide ==
  ASSUME PromiseTerms, SuccessInv, NEW n \in Node,
         \/ Handles(n)
         \/ Continue(n) \/ NodeStop(n) \/ TakeReport(n)
  PROVE  \/ boot'[n] = boot[n] /\ cfg'[n].stop = cfg[n].stop
         \/ boot'[n] # NoName /\ cfg'[n].stop = cfg[n].stop
         \/ boot'[n] = NoName /\ cfg'[n].stop
<1>0. NodeInv /\ NodeTypeOK /\ Trusty(n) /\ Selected(n) /\ Budget.restart = 0 /\ OneFirmware
      /\ Terms /\ RootNode = {}
  BY DEF SuccessInv, MeshInv, NodeInv, Devices, Trusty, PromiseTerms, Terms
<1>1. Loaded(n).name # NoName => Loaded(n) = cfg[n]
  BY <1>0, LoadedTrusty
<1>2. ASSUME NEW g \in Firmware, Status(n, g) PROVE boot'[n] = boot[n] /\ cfg'[n].stop = cfg[n].stop
  <2>1. New(n, g) => cfg[n].stop = FALSE /\ Fresh(g).stop = FALSE
    BY <1>0, NewMeansUnknown DEF Trusty, Empty, Fresh
  <2>2. CASE StatusKnown(n, g)
    <3>1. UNCHANGED boot /\ cfg'[n] = Loaded(n) /\ Loaded(n).name = g /\ g # NoName
      BY <1>0, <2>2 DEF StatusKnown, New, NodeTypeOK
    <3> QED
      BY <1>1, <3>1
  <2>3. CASE StatusBegin(n, g) \/ StatusBeginFails(n, g)
    <3>1. UNCHANGED boot /\ cfg'[n] = Fresh(g) /\ New(n, g)
      BY <1>0, <2>3 DEF StatusBegin, StatusBeginFails, NodeTypeOK
    <3> QED
      BY <2>1, <3>1
  <2> QED
    BY <1>0, <1>2, <2>2, <2>3 DEF Status, StatusRoot, StatusRootFails
<1>3. ASSUME NEW g \in Firmware, NEW p \in Packet, Data(n, g, p)
      PROVE  boot'[n] = boot[n] /\ cfg'[n].stop = cfg[n].stop
  <2>1. CASE WriteNotInit(n)
    BY <2>1 DEF WriteNotInit, nodeVars
  <2>2. CASE WriteRefused(n)
    <3>1. UNCHANGED boot /\ cfg'[n] = Progress(Loaded(n), 0, {}) /\ Loaded(n).name # NoName
      BY <1>0, <2>2 DEF WriteRefused, NodeTypeOK
    <3> QED
      BY <1>1, <3>1 DEF Progress
  <2>3. CASE WriteIgnored(n, p) \/ WriteFlash(n, g, p)
    <3>1. UNCHANGED boot /\ cfg'[n] = Loaded(n) /\ Loaded(n).name # NoName
      BY <1>0, <2>3 DEF WriteIgnored, WriteFlash, Writable, NodeTypeOK
    <3> QED
      BY <1>1, <3>1
  <2> QED
    BY <1>3, <2>1, <2>2, <2>3 DEF Data
<1>4. CASE StatusSave(n) \/ WriteErase(n) \/ TakeReport(n)
  BY <1>4 DEF StatusSave, WriteErase, TakeReport
<1>5. CASE WriteAccount(n)
  <2>1. UNCHANGED boot
        /\ cfg'[n] = Progress(cfg[n], cfg[n].written + 1, cfg[n].bits \union {task[n].seq})
    BY <1>0, <1>5 DEF WriteAccount, NodeTypeOK
  <2> QED
    BY <2>1 DEF Progress
<1>6. CASE WriteSwitch(n)
  BY <1>0, <1>6 DEF WriteSwitch, NodeTypeOK
<1>7. CASE WriteSwitchFails(n)
  <2>1. UNCHANGED boot /\ cfg'[n].stop = TRUE /\ \A f \in Firmware : ~ Whole(n, f)
    BY <1>0, <1>7 DEF WriteSwitchFails, NodeTypeOK
  <2>2. boot[n] = NoName
    BY <1>0, <2>1 DEF Selected, NodeTypeOK, Name
  <2> QED
    BY <2>1, <2>2
<1>8. CASE NodeStop(n)
  <2>1. cfg'[n].stop
    BY <1>0, <1>8 DEF NodeStop, NodeTypeOK, Stopped
  <2> QED
    BY <1>0, <1>8, <2>1, StopDeselects
<1> QED
  BY <1>2, <1>3, <1>4, <1>5, <1>6, <1>7, <1>8 DEF Continue, Handles

LEMMA DeviceKeepsPromise ==
  ASSUME PromiseTerms, SuccessInv, SuccessInv', NEW n \in Node,
         Device(n) \/ DeviceRestarts(n) \/ DeviceStops(n) \/ LoseReport(n)
  PROVE  [Rollout!Next]_(Rollout!vars)
<1>0. Terms /\ MeshTypeOK /\ ~ DeviceRestarts(n)
  BY DEF PromiseTerms, Terms, SuccessInv, MeshInv, Spent, DeviceRestarts
<1>1. UNCHANGED <<rpc, unfinished, successed>>
  BY DEF Device, Receive, DeviceContinues, DeviceRestarts, DeviceStops, LoseReport, rootVars
<1>2. \A m \in Node \ {n} : boot'[m] = boot[m] /\ cfg'[m] = cfg[m]
  BY <1>0, DeviceIsHonest
<1>3. Holders = {m \in Node : boot[m] # NoName} /\ Holders' = {m \in Node : boot'[m] # NoName}
  <2>1. Holders = {m \in Node : boot[m] # NoName}
    BY HoldersSelect
  <2>2. \A m \in Node : version'[m] = NoName /\ Selected(m)'
    BY DEF PromiseTerms, SuccessInv, Devices, Trusty
  <2>3. Holders' = {m \in Node : boot'[m] # NoName}
    BY <2>2 DEF Holders, Selected
  <2> QED
    BY <2>1, <2>3
<1>4. \/ boot'[n] = boot[n] /\ cfg'[n].stop = cfg[n].stop
      \/ boot'[n] # NoName /\ cfg'[n].stop = cfg[n].stop
      \/ boot'[n] = NoName /\ cfg'[n].stop
  <2>1. \/ Handles(n)
        \/ Continue(n) \/ NodeStop(n) \/ TakeReport(n)
    BY <1>0, DeviceActs
  <2> QED
    BY <2>1, HandlersDecide
<1>5. CASE boot'[n] = boot[n] /\ cfg'[n].stop = cfg[n].stop
  <2>1. Holders' = Holders /\ Decliners' = Decliners
    BY <1>2, <1>3, <1>5 DEF Decliners
  <2> QED
    BY <1>1, <2>1 DEF Rollout!vars
<1>6. CASE boot'[n] # NoName /\ cfg'[n].stop = cfg[n].stop
  <2>1. Holders' = Holders \union {n} /\ Decliners' = Decliners
    BY <1>2, <1>3, <1>6 DEF Decliners
  <2> QED
    BY <1>1, <2>1 DEF Rollout!Next, Rollout!Install
<1>7. CASE boot'[n] = NoName /\ cfg'[n].stop
  <2>1. Holders' = Holders \ {n} /\ Decliners' = Decliners \union {n}
    BY <1>2, <1>3, <1>7 DEF Decliners
  <2> QED
    BY <1>1, <2>1 DEF Rollout!Next, Rollout!Decline
<1> QED
  BY <1>4, <1>5, <1>6, <1>7

\* The sending task believes a report of a device that it waits for: the device holds the
\* image, or declines.
LEMMA SenderKeepsPromise ==
  ASSUME PromiseTerms, SuccessInv, Sender
  PROVE  [Rollout!Next]_(Rollout!vars)
<1> USE DEF SuccessInv
<1>1. UNCHANGED nodeVars
  BY SenderLeavesDevices
<1>2. Holders' = Holders /\ Decliners' = Decliners
  BY <1>1 DEF Holders, Decliners, Whole, nodeVars
<1>3. queue # <<>> =>
        /\ Head(queue).from \in Node
        /\ Finished(Head(queue)) => Head(queue).from \in Holders \union Decliners
        /\ Head(queue).stop => Head(queue).from \in Decliners
  <2> SUFFICES ASSUME queue # <<>>
               PROVE  /\ Head(queue).from \in Node
                      /\ Finished(Head(queue)) => Head(queue).from \in Holders \union Decliners
                      /\ Head(queue).stop => Head(queue).from \in Decliners
    OBVIOUS
  <2>1. Head(queue).from \in Node
    BY HeadIsReport DEF MeshInv, Report
  <2>2. Head(queue) = queue[1] /\ 1 \in 1 .. Len(queue)
    BY DEF MeshInv, MeshTypeOK
  <2>3. Honest(Head(queue))
    BY <2>2 DEF Messages
  <2>4. Granted(Head(queue).from) => Head(queue).from \in Holders \union Decliners
    BY <2>1, HoldersSelect
  <2> QED
    BY <2>1, <2>3, <2>4 DEF Honest, Decliners, PromiseTerms
<1>4. asking \subseteq unfinished
  BY DEF ListInv, ListsAgree
<1>5. ASSUME NEW n \in Node, n \in unfinished, n \in Holders \union Decliners, rpc # "idle",
             rpc' # "idle", unfinished' = unfinished \ {n}, successed' = successed \union {n}
      PROVE  Rollout!Confirm(n)
  BY <1>2, <1>5 DEF Rollout!Confirm
<1>6. ASSUME NEW n \in Node, n \in unfinished, n \in Decliners, rpc # "idle",
             rpc' # "idle", unfinished' = unfinished \ {n}, successed' = successed
      PROVE  Rollout!Release(n)
  BY <1>2, <1>6 DEF Rollout!Release
<1>7. ASSUME UNCHANGED <<unfinished, successed>>, rpc # "idle", rpc' # "idle"
      PROVE  UNCHANGED Rollout!vars
  BY <1>2, <1>7 DEF Rollout!vars
<1>8. CASE RoundBegin \/ DrainTimeout \/ CollectEnd \/ AskEnd
  BY <1>7, <1>8 DEF RoundBegin, DrainTimeout, CollectEnd, AskEnd
<1>9. CASE Ask \/ SendEnd \/ SendSkip \/ SendPoll \/ SendPacket \/ SendReadFails
  BY <1>7, <1>9 DEF Ask, SendEnd, SendSkip, SendPoll, SendPacket, SendReadFails, locals
<1>10. CASE Exit \/ Flush
  BY <1>7, <1>10 DEF Exit, Flush, locals
<1>11. CASE Signal
  <2>1. rpc # "idle" /\ rpc' = "idle" /\ UNCHANGED <<unfinished, successed>>
    BY <1>11 DEF Signal, locals
  <2> QED
    BY <1>2, <2>1 DEF Rollout!Next, Rollout!Close
<1>12. ASSUME DrainReport \/ CollectReport \/ PollReport,
              NEW n \in Node, n = Head(queue).from, NEW finishes \in BOOLEAN, NEW refuses \in BOOLEAN,
              finishes => Finished(Head(queue)), refuses => Head(queue).stop,
              unfinished' = IF finishes \/ refuses THEN unfinished \ {n} ELSE unfinished,
              successed' = IF finishes /\ n \in unfinished THEN successed \union {n} ELSE successed
       PROVE  [Rollout!Next]_(Rollout!vars)
  <2>1. queue # <<>> /\ rpc # "idle" /\ rpc' # "idle"
    BY <1>12 DEF DrainReport, CollectReport, PollReport
  <2>2. CASE n \notin unfinished \/ ~ (finishes \/ refuses)
    BY <1>7, <1>12, <2>1, <2>2
  <2>3. CASE n \in unfinished /\ finishes
    BY <1>3, <1>5, <1>12, <2>1, <2>3 DEF Rollout!Next
  <2>4. CASE n \in unfinished /\ ~ finishes /\ refuses
    BY <1>3, <1>6, <1>12, <2>1, <2>4 DEF Rollout!Next
  <2> QED
    BY <2>2, <2>3, <2>4
<1>13. CASE DrainReport
  <2>1. queue # <<>>
    BY <1>13 DEF DrainReport
  <2>2. PICK n \in Node : n = Head(queue).from
    BY <1>3, <2>1
  <2>3. PICK f \in BOOLEAN : f <=> Finished(Head(queue))
    OBVIOUS
  <2>4. PICK h \in BOOLEAN : h <=> Head(queue).stop
    OBVIOUS
  <2>5. /\ unfinished' = IF f \/ h THEN unfinished \ {n} ELSE unfinished
        /\ successed' = IF f /\ n \in unfinished THEN successed \union {n} ELSE successed
    BY <1>13, <2>2, <2>3, <2>4 DEF DrainReport
  <2> QED
    BY <1>12, <1>13, <2>2, <2>3, <2>4, <2>5
<1>14. CASE CollectReport
  <2>1. queue # <<>>
    BY <1>14 DEF CollectReport
  <2>2. PICK n \in Node : n = Head(queue).from
    BY <1>3, <2>1
  <2>3. PICK f \in BOOLEAN : f <=> (n \in asking /\ ~ Head(queue).stop /\ Finished(Head(queue)))
    OBVIOUS
  <2>4. PICK h \in BOOLEAN : h <=> Head(queue).stop
    OBVIOUS
  <2>5. /\ unfinished' = IF f \/ h THEN unfinished \ {n} ELSE unfinished
        /\ successed' = IF f /\ n \in unfinished THEN successed \union {n} ELSE successed
    BY <1>14, <2>2, <2>3, <2>4 DEF CollectReport
  <2> QED
    BY <1>12, <1>14, <2>2, <2>3, <2>4, <2>5
<1>15. CASE PollReport
  <2>1. queue # <<>>
    BY <1>15 DEF PollReport
  <2>2. PICK n \in Node : n = Head(queue).from
    BY <1>3, <2>1
  <2>3. ~ DoneInPoll(Head(queue))
    BY <2>1, PollFindsNobody, HeadIsReport DEF MeshInv
  <2>4. PICK h \in BOOLEAN : h <=> Head(queue).stop
    OBVIOUS
  <2>5. /\ unfinished' = IF FALSE \/ h THEN unfinished \ {n} ELSE unfinished
        /\ successed' = IF FALSE /\ n \in unfinished THEN successed \union {n} ELSE successed
    BY <1>15, <2>2, <2>3, <2>4 DEF PollReport
  <2> QED
    BY <1>12, <1>15, <2>2, <2>4, <2>5
<1> QED
  BY <1>8, <1>9, <1>10, <1>11, <1>13, <1>14, <1>15 DEF Sender

LEMMA OthersKeepPromise ==
  ASSUME PromiseTerms, SuccessInv, SuccessInv', Receiver \/ RootCall \/ Stopper \/ UNCHANGED vars
  PROVE  [Rollout!Next]_(Rollout!vars)
<1>1. UNCHANGED <<cfg, boot, version, fin>> /\ \A n \in Node : flash'[n] = flash[n]
  <2>1. CASE Receiver
    BY <2>1 DEF Receiver, RootAccept, RootEnqueue, RootGiveUp, nodeVars
  <2>2. CASE RootCall \/ Stopper
    BY <2>2, RootCallFacts DEF SuccessInv, PromiseTerms
  <2>3. CASE UNCHANGED vars
    BY <2>3 DEF vars, nodeVars
  <2> QED
    BY <2>1, <2>2, <2>3
<1>2. Holders' = Holders /\ Decliners' = Decliners
  BY <1>1 DEF Holders, Decliners, Whole
<1>3. CASE UNCHANGED <<rpc, unfinished, successed>>
  BY <1>2, <1>3 DEF Rollout!vars
<1>4. CASE \E m \in Modes : \E dests \in Destinations(m) : SendStart(m, dests)
  <2>0. PICK m \in Modes : \E dests \in Destinations(m) : SendStart(m, dests)
    BY <1>4
  <2>1. PICK dests \in Destinations(m) : SendStart(m, dests)
    BY <2>0
  <2>2. dests \in SUBSET Node
    BY MupgradeAssumption DEF Destinations
  <2>3. rpc = "idle" /\ rpc' # "idle" /\ unfinished' = dests /\ successed' = {}
    BY <2>1 DEF SendStart
  <2> QED
    BY <1>2, <2>2, <2>3 DEF Rollout!Next, Rollout!Open
<1>5. CASE Receiver
  BY <1>3, <1>5 DEF Receiver, RootAccept, RootEnqueue, RootGiveUp, locals
<1>6. CASE Stopper \/ StopCheck
  BY <1>3, <1>6 DEF Stopper, StopCheck, StopCreate, StopClear, StopTake, locals
<1>7. CASE FirmwareDownload \/ \E f \in Firmware : FirmwareInit(f)
  BY <1>3, <1>7 DEF FirmwareDownload, FirmwareInit, locals
<1>8. CASE UNCHANGED vars
  BY <1>3, <1>8 DEF vars, rootVars
<1> QED
  BY <1>4, <1>5, <1>6, <1>7, <1>8 DEF RootCall

\* Every step of an upgrade is one the promise allows: a device is only counted as
\* succeeded when it holds the image or has declined since, only let go when it declines,
\* and the list of those waited for changes in no other way.
THEOREM PromiseIsKept ==
  PromiseTerms => (Spec => Rollout!Init /\ [][Rollout!Next]_(Rollout!vars))
<1> SUFFICES ASSUME PromiseTerms
             PROVE  Spec => Rollout!Init /\ [][Rollout!Next]_(Rollout!vars)
  OBVIOUS
<1>1. Terms
  BY DEF PromiseTerms, Terms
<1>2. Init => Rollout!Init
  <2> SUFFICES ASSUME Init PROVE Rollout!Init
    OBVIOUS
  <2>1. \A n \in Node : version[n] = NoName /\ boot[n] = NoName /\ cfg[n] = Empty
    BY DEF Init, NodeInit
  <2>2. Holders = {} /\ Decliners = {}
    BY <2>1 DEF Holders, Decliners, Empty
  <2> QED
    BY <2>2 DEF Init, Rollout!Init
<1>3. SuccessInv /\ SuccessInv' /\ [Next]_vars => [Rollout!Next]_(Rollout!vars)
  <2> SUFFICES ASSUME SuccessInv, SuccessInv', [Next]_vars PROVE [Rollout!Next]_(Rollout!vars)
    OBVIOUS
  <2>1. Sender \/ Receiver \/ Stopper \/ RootCall
        \/ (\E n \in Node : Device(n) \/ DeviceRestarts(n) \/ DeviceStops(n) \/ LoseReport(n))
        \/ UNCHANGED vars
    BY DEF Next, Environment, RootCall
  <2> QED
    BY <2>1, SenderKeepsPromise, OthersKeepPromise, DeviceKeepsPromise
<1> QED
  BY <1>1, <1>2, <1>3, SuccessInvInit, SuccessInvStep, PTL DEF Spec

-----------------------------------------------------------------------------
(* Who is upgraded in the end.  EveryDeviceFinishes counts: a round costs  *)
(* one that is lost or reset, except for the round that sends the packets   *)
(* and the one in which the devices say that they have them.                *)

\* What a send is promised: one firmware, calls that work and records that are stored whole,
\* answers in time, more rounds than what is lost and reset can cost, nobody who stops it,
\* and some device besides the root.
FinishTerms ==
  /\ \E f \in Firmware : Firmware = {f}
  /\ RecordIsWhole /\ Faults = {} /\ Prompt
  /\ Attempts > 1
  /\ Budget.lose + Budget.restart + 1 < Retry
  /\ Budget.send > 0 /\ Budget.halt = 0 /\ Budget.stop = 0
  /\ Node \ RootNode # {}

TheFirmware == CHOOSE f \in Firmware : TRUE
Everything == PacketsOf(TheFirmware)

\* Losses and resets so far: no round is wasted but for one of these.
Misses == (Budget.lose - left.lose) + (Budget.restart - left.restart)

\* Nobody stops, and what is lost is lost for good.
Purse ==
  /\ left.lose =< Budget.lose /\ left.restart =< Budget.restart
  /\ left.halt = 0 /\ left.stop = 0

Complete(n) == cfg[n].name = TheFirmware /\ Everything \subseteq cfg[n].bits

RootConfig == Progress(Fresh(TheFirmware), PacketNum[TheFirmware], Packet)

\* The root answers for itself out of what it has been told; any other device is as its own
\* proofs say.
Fine(n) ==
  /\ ~ cfg[n].stop /\ ~ nvs[n].stop
  /\ n \notin RootNode => Sound(n)
  /\ n \in RootNode => nvs[n] = Empty /\ task[n] = Idle /\ cfg[n] \in {Empty, RootConfig}

\* A report on its way, and what it then says.
Flies(r) ==
  \/ r = inhand
  \/ \E i \in 1 .. Len(queue) : r = queue[i]
  \/ \E n \in Node : \E i \in 1 .. Len(up[n]) : r = up[n][i]

Says(r) ==
  /\ r.name = TheFirmware /\ ~ r.stop
  /\ r.from \in RootNode => Finished(r) /\ cfg[r.from].name = TheFirmware
  /\ ~ Finished(r) => ~ (Everything \subseteq r.bits)

\* Packets the mesh still has for n, and the one n has written and not counted.
OnWay(n) == {p \in Packet : \E i \in 1 .. Len(down[n]) : down[n][i] = PacketOf(TheFirmware, p)}
Written(n) == IF At(n, "written") THEN {task[n].seq} ELSE {}

\* What a handler does: nothing received is forgotten, and what it answers is so.
Acts(n) ==
  /\ cfg[n].name = TheFirmware =>
       /\ cfg'[n].name = TheFirmware /\ cfg[n].bits \subseteq cfg'[n].bits
       /\ Written(n) \subseteq cfg'[n].bits \union Written(n)'
  /\ \/ up'[n] = up[n]
     \/ cfg'[n].name = TheFirmware /\ up'[n] = Append(up[n], ReportOf(n, cfg'[n]))

\* It has answered, or is about to.
Told(n) ==
  \/ task'[n].step = "begun"
  \/ up'[n] = Append(up[n], ReportOf(n, cfg'[n]))

LEMMA OnlyFirmware ==
  ASSUME FinishTerms
  PROVE  /\ TheFirmware \in Firmware /\ OneFirmware /\ ErasesWork
         /\ \A f \in Firmware : f = TheFirmware
         /\ Everything \subseteq Packet /\ PacketNum[TheFirmware] \in 1 .. MaxPacket
         /\ TheFirmware # NoName
<1>1. PICK f \in Firmware : Firmware = {f}
  BY DEF FinishTerms
<1>2. TheFirmware = f
  BY <1>1 DEF TheFirmware
<1>3. TheFirmware \in Firmware /\ OneFirmware /\ \A g \in Firmware : g = TheFirmware
  BY <1>1, <1>2 DEF OneFirmware
<1>4. Everything \subseteq Packet
  BY <1>3 DEF Everything, PacketsOf, Packet
<1>5. ErasesWork
  BY DEF ErasesWork, FinishTerms
<1> QED
  BY <1>3, <1>4, <1>5, PacketBound

LEMMA AllBits ==
  ASSUME NEW f \in Firmware, NEW b \in SUBSET PacketsOf(f)
  PROVE  Cardinality(b) = PacketNum[f] <=> PacketsOf(f) \subseteq b
<1>1. PacketNum[f] \in Nat \ {0}
  OBVIOUS
<1>2. Cardinality(PacketsOf(f)) = PacketNum[f]
  <2>1. 0 \in Int /\ PacketNum[f] - 1 \in Int /\ ~ 0 > PacketNum[f] - 1
    BY <1>1
  <2>2. Cardinality(PacketsOf(f)) = (PacketNum[f] - 1) - 0 + 1
    BY <2>1, FS_Interval DEF PacketsOf
  <2> QED
    BY <1>1, <2>1, <2>2
<1>3. CASE PacketsOf(f) \subseteq b
  <2>1. b = PacketsOf(f)
    BY <1>3
  <2> QED
    BY <1>2, <1>3, <2>1
<1>4. ASSUME NEW p \in PacketsOf(f), p \notin b PROVE Cardinality(b) # PacketNum[f]
  <2>1. Cardinality(b) + 1 =< PacketNum[f]
    BY <1>4, NotYetFull
  <2>2. Cardinality(b) \in Nat
    <3>1. b \in SUBSET Packet
      BY DEF PacketsOf, Packet
    <3> QED
      BY <3>1, PacketFinite, FS_CardinalityType
  <2> QED
    BY <1>1, <2>1, <2>2
<1> QED
  BY <1>3, <1>4

\* A device is finished by its count when it is by its bits.
LEMMA CountIsComplete ==
  ASSUME FinishTerms, NodeInv, NEW n \in Node, Fine(n), cfg[n].name = TheFirmware
  PROVE  /\ cfg[n].written = PacketNum[TheFirmware] <=> Complete(n)
         /\ n \notin RootNode => cfg[n].bits \subseteq Everything
         /\ n \in RootNode => Complete(n)
<1>1. CASE n \in RootNode
  <2>1. cfg[n] = RootConfig
    BY <1>1, OnlyFirmware DEF Fine, Empty
  <2>2. cfg[n].bits = Packet /\ cfg[n].written = PacketNum[TheFirmware]
    BY <2>1 DEF RootConfig, Progress
  <2> QED
    BY <1>1, <2>2, OnlyFirmware DEF Complete
<1>2. CASE n \notin RootNode
  <2>1. Holds(flash[n], cfg[n]) /\ cfg[n].written = Cardinality(cfg[n].bits)
    BY <1>2 DEF Fine, Sound, Promised, Exact
  <2>2. cfg[n].bits \subseteq Everything
    BY <2>1 DEF Holds, Everything
  <2>3. cfg[n].written = PacketNum[TheFirmware] <=> Everything \subseteq cfg[n].bits
    BY <2>1, <2>2, AllBits, OnlyFirmware DEF Everything
  <2> QED
    BY <1>2, <2>2, <2>3 DEF Complete
<1> QED
  BY <1>1, <1>2

\* The handler of a status request.
LEMMA StatusActs ==
  ASSUME FinishTerms, NodeInv, NEW n \in Node, Fine(n), Status(n, TheFirmware),
         n \in RootNode /\ cfg[n] = Empty => Whole(n, TheFirmware)
  PROVE  Fine(n)' /\ Acts(n) /\ Told(n)
<1>0. NodeTypeOK /\ TheFirmware \in Firmware /\ TheFirmware # NoName /\ OneFirmware
  BY OnlyFirmware DEF NodeInv
<1>1. n \notin RootNode => Sound(n)'
  <2>1. NodeStep(n)
    BY <1>0 DEF NodeStep
  <2> QED
    BY <2>1, SoundStep, OnlyFirmware DEF FinishTerms, Fine
<1>2. CASE StatusKnown(n, TheFirmware)
  <2>1. /\ cfg'[n] = Loaded(n) /\ Loaded(n).name = TheFirmware /\ nvs' = nvs /\ task' = task
        /\ up'[n] = Append(up[n], ReportOf(n, Loaded(n))) /\ At(n, "idle")
    BY <1>0, <1>2 DEF StatusKnown, New, Respond, NodeTypeOK
  <2>2. cfg[n].name = TheFirmware => Loaded(n) = cfg[n]
    BY <1>0 DEF Loaded
  <2>3. Loaded(n) \in {cfg[n], nvs[n]}
    BY DEF Loaded
  <2>4. n \in RootNode => cfg'[n] = cfg[n]
    <3> SUFFICES ASSUME n \in RootNode PROVE cfg'[n] = cfg[n]
      OBVIOUS
    <3>1. nvs[n].name = NoName
      BY DEF Fine, Empty
    <3> QED
      BY <1>0, <2>1, <3>1 DEF Loaded
  <2>5. Fine(n)'
    BY <1>1, <2>1, <2>3, <2>4 DEF Fine
  <2>6. Acts(n) /\ Told(n)
    BY <2>1, <2>2 DEF Acts, Told, Written, At
  <2> QED
    BY <2>5, <2>6
<1>3. CASE New(n, TheFirmware)
  <2>1. cfg[n].name # TheFirmware
    BY <1>0, <1>3 DEF New, Loaded
  <2>2. CASE n \in RootNode
    <3>1. Whole(n, TheFirmware)
      <4>1. RootConfig.name = TheFirmware
        BY DEF RootConfig, Progress, Fresh
      <4> QED
        BY <2>1, <2>2, <4>1 DEF Fine
    <3>2. StatusRoot(n, TheFirmware)
      BY <1>0, <1>3, <2>2, <3>1
      DEF Status, StatusKnown, StatusRootFails, StatusBegin, StatusBeginFails
    <3>3. cfg'[n] = RootConfig /\ up'[n] = Append(up[n], ReportOf(n, RootConfig))
          /\ nvs' = nvs /\ task' = task
      BY <1>0, <3>2 DEF StatusRoot, RootConfig, Respond, NodeTypeOK
    <3>4. RootConfig.name = TheFirmware /\ ~ RootConfig.stop
      BY DEF RootConfig, Progress, Fresh
    <3>5. Fine(n)'
      BY <2>2, <3>3, <3>4 DEF Fine
    <3> QED
      BY <2>1, <3>3, <3>4, <3>5 DEF Acts, Told
  <2>3. CASE n \notin RootNode
    <3>1. StatusBegin(n, TheFirmware)
      BY <1>3, <2>3
      DEF Status, StatusKnown, StatusRootFails, StatusRoot, StatusBeginFails, May, FinishTerms
    <3>2. cfg'[n] = Fresh(TheFirmware) /\ nvs' = nvs /\ task'[n].step = "begun" /\ up' = up
      BY <1>0, <3>1 DEF StatusBegin, Doing, NodeTypeOK
    <3>3. ~ cfg'[n].stop
      BY <3>2 DEF Fresh
    <3>4. Fine(n)'
      BY <1>1, <2>3, <3>2, <3>3 DEF Fine
    <3> QED
      BY <2>1, <3>2, <3>4 DEF Acts, Told
  <2> QED
    BY <2>2, <2>3
<1> QED
  BY <1>2, <1>3 DEF Status, StatusKnown, StatusRoot, StatusRootFails, StatusBegin, StatusBeginFails

\* The handler of a packet.
LEMMA DataActs ==
  ASSUME FinishTerms, NodeInv, NEW n \in Node, Fine(n), NEW p \in Everything,
         Data(n, TheFirmware, p)
  PROVE  /\ Fine(n)' /\ Acts(n) /\ up' = up /\ At(n, "idle")
         /\ cfg[n].name = TheFirmware => p \in cfg'[n].bits \union Written(n)'
<1>0. NodeTypeOK /\ TheFirmware \in Firmware /\ TheFirmware # NoName /\ OneFirmware
      /\ p \in Packet
  BY OnlyFirmware DEF NodeInv
<1>1. n \notin RootNode => Sound(n)'
  <2>1. NodeStep(n)
    BY <1>0 DEF NodeStep, Everything
  <2> QED
    BY <2>1, SoundStep, OnlyFirmware DEF FinishTerms, Fine
<1>2. CASE WriteNotInit(n)
  <2>1. UNCHANGED <<cfg, nvs, task, up>> /\ cfg[n].name # TheFirmware /\ At(n, "idle")
    BY <1>0, <1>2 DEF WriteNotInit, nodeVars, Loaded
  <2> QED
    BY <1>1, <2>1 DEF Fine, Acts
<1>3. ~ WriteRefused(n)
  BY DEF WriteRefused, Loaded, Fine
<1>4. CASE WriteIgnored(n, p) \/ WriteFlash(n, TheFirmware, p)
  <2>1. /\ cfg'[n] = Loaded(n) /\ UNCHANGED <<nvs, up>> /\ At(n, "idle")
        /\ Loaded(n).name = TheFirmware
    <3>1. cfg'[n] = Loaded(n) /\ UNCHANGED <<nvs, up>> /\ At(n, "idle") /\ Loaded(n).name # NoName
      BY <1>0, <1>4 DEF WriteIgnored, WriteFlash, Writable, NodeTypeOK
    <3>2. Loaded(n).name \in {TheFirmware, NoName}
      BY <1>0, KnownNames
    <3> QED
      BY <3>1, <3>2
  <2>2. cfg[n].name = TheFirmware => Loaded(n) = cfg[n]
    BY <1>0 DEF Loaded
  <2>3. Loaded(n) \in {cfg[n], nvs[n]}
    BY DEF Loaded
  <2>4. p =< PacketNum[Loaded(n).name]
    BY <1>0, <2>1 DEF Everything, PacketsOf
  <2>5. p \in cfg'[n].bits \union Written(n)'
    <3>1. CASE WriteIgnored(n, p)
      <4>1. p \in Loaded(n).bits
        <5>1. PacketNum[TheFirmware] \in Nat /\ p \in Nat /\ p < PacketNum[TheFirmware]
          BY <1>0 DEF Everything, PacketsOf
        <5>2. ~ (p > PacketNum[Loaded(n).name])
          BY <2>1, <5>1
        <5> QED
          BY <3>1, <5>2 DEF WriteIgnored, Received, May, FinishTerms
      <4> QED
        BY <2>1, <4>1
    <3>2. CASE WriteFlash(n, TheFirmware, p)
      <4>1. task'[n] = Writing(p)
        BY <1>0, <3>2 DEF WriteFlash, NodeTypeOK
      <4> QED
        BY <4>1 DEF Written, At, Writing
    <3> QED
      BY <1>4, <3>1, <3>2
  <2>6. n \in RootNode => cfg'[n] = cfg[n] /\ task'[n] = task[n]
    <3> SUFFICES ASSUME n \in RootNode PROVE cfg'[n] = cfg[n] /\ task'[n] = task[n]
      OBVIOUS
    <3>1. nvs[n].name = NoName
      BY DEF Fine, Empty
    <3>2. cfg'[n] = cfg[n] /\ Loaded(n) = cfg[n] /\ cfg[n].name # NoName
      BY <1>0, <2>1, <3>1 DEF Loaded
    <3>3. cfg[n].bits = Packet
      BY <3>2 DEF Fine, Empty, RootConfig, Progress
    <3>4. ~ WriteFlash(n, TheFirmware, p)
      BY <1>0, <3>2, <3>3 DEF WriteFlash, Received
    <3> QED
      BY <1>0, <1>4, <3>2, <3>4 DEF WriteIgnored
  <2>7. Fine(n)'
    BY <1>1, <2>1, <2>3, <2>6 DEF Fine
  <2>8. Acts(n)
    BY <2>1, <2>2 DEF Acts, Written, At
  <2> QED
    BY <2>1, <2>5, <2>7, <2>8
<1> QED
  BY <1>2, <1>3, <1>4 DEF Data

\* The rest of a handler.
LEMMA ContinueActs ==
  ASSUME FinishTerms, NodeInv, NEW n \in Node, Fine(n), Continue(n)
  PROVE  Fine(n)' /\ Acts(n) /\ (At(n, "begun") => Told(n)) /\ ~ At(n, "idle")
<1>0. NodeTypeOK /\ TheFirmware \in Firmware /\ TheFirmware # NoName /\ OneFirmware
  BY OnlyFirmware DEF NodeInv
<1>1. ~ At(n, "idle") /\ n \notin RootNode /\ cfg[n].name = TheFirmware
  <2>1. ~ At(n, "idle")
    BY DEF Continue, StatusSave, WriteAccount, WriteErase, WriteSwitch, WriteSwitchFails, At
  <2>2. n \notin RootNode
    BY <2>1 DEF Fine, At, Idle, Doing
  <2>3. cfg[n].name \in {TheFirmware, NoName} /\ cfg[n].name # NoName
    BY <1>0, <2>1, KnownNames DEF NodeInv, BusyKnowsName
  <2> QED
    BY <2>1, <2>2, <2>3
<1>2. Sound(n)'
  <2>1. NodeStep(n)
    BY DEF NodeStep
  <2> QED
    BY <1>1, <2>1, SoundStep, OnlyFirmware DEF FinishTerms, Fine
<1>3. CASE StatusSave(n)
  <2>1. /\ cfg' = cfg /\ At(n, "begun") /\ up'[n] = Append(up[n], ReportOf(n, cfg[n]))
        /\ nvs'[n] \in {nvs[n], Saved(cfg[n])}
    BY <1>0, <1>3 DEF StatusSave, Respond, SaveRecord, NodeTypeOK
  <2>2. Saved(cfg[n]).stop = cfg[n].stop
    BY DEF Saved, Progress
  <2> QED
    BY <1>1, <1>2, <2>1, <2>2 DEF Fine, Acts, Told, Written, At
<1>4. CASE WriteAccount(n)
  <2> DEFINE c == Progress(cfg[n], cfg[n].written + 1, cfg[n].bits \union {task[n].seq})
  <2>1. /\ cfg'[n] = c /\ At(n, "written") /\ up' = up
        /\ nvs'[n] \in {nvs[n], Saved(c)}
    BY <1>0, <1>4 DEF WriteAccount, SaveRecord, NodeTypeOK
  <2>2. c.stop = cfg[n].stop /\ c.name = cfg[n].name /\ Saved(c).stop = c.stop
        /\ c.bits = cfg[n].bits \union {task[n].seq}
    BY DEF Saved, Progress
  <2> HIDE DEF c
  <2>3. Written(n) \subseteq c.bits
    BY <2>1, <2>2 DEF Written
  <2> QED
    BY <1>1, <1>2, <2>1, <2>2, <2>3 DEF Fine, Acts, At
<1>5. CASE WriteErase(n)
  <2>1. cfg' = cfg /\ At(n, "complete") /\ up' = up /\ nvs'[n] \in {nvs[n], Empty}
    BY <1>0, <1>5 DEF WriteErase, EraseRecord, NodeTypeOK
  <2>2. ~ Empty.stop
    BY DEF Empty
  <2> QED
    BY <1>1, <1>2, <2>1, <2>2 DEF Fine, Acts, Written, At
<1>6. CASE WriteSwitch(n)
  <2>1. /\ cfg' = cfg /\ nvs' = nvs /\ At(n, "switch")
        /\ up'[n] = Append(up[n], ReportOf(n, cfg[n]))
    BY <1>0, <1>6 DEF WriteSwitch, Respond, NodeTypeOK
  <2> QED
    BY <1>1, <1>2, <2>1 DEF Fine, Acts, Written, At
\* The image that is complete verifies.
<1>7. CASE WriteSwitchFails(n)
  <2>1. At(n, "switch") /\ ~ Whole(n, TheFirmware)
    BY <1>0, <1>7 DEF WriteSwitchFails
  <2>2. cfg[n].written = PacketNum[TheFirmware] /\ Holds(flash[n], cfg[n])
    BY <1>1, <2>1 DEF Fine, Sound, Promised
  <2>3. Everything \subseteq cfg[n].bits
    BY <1>1, <2>2, CountIsComplete DEF Complete
  <2>4. Whole(n, TheFirmware)
    BY <1>1, <2>2, <2>3 DEF Holds, Whole, Everything
  <2> QED
    BY <2>1, <2>4
<1> QED
  BY <1>1, <1>3, <1>4, <1>5, <1>6, <1>7 DEF Continue

-----------------------------------------------------------------------------
(* What is under way.                                                      *)

\* n has been asked and has not been heard yet.
Pending(n) ==
  \/ At(n, "begun")
  \/ \E i \in 1 .. Len(down[n]) : down[n][i].type = "status"
  \/ \E r \in Report : Flies(r) /\ r.from = n

\* What n has or will have without another packet.
Got(n) == cfg[n].bits \union Written(n) \union OnWay(n)

DataFine ==
  \A n \in Node : \A i \in 1 .. Len(down[n]) :
    down[n][i].type = "data" => down[n][i].seq \in Everything

\* The device in the root knows the firmware, or is being asked for the first time.
RootsAsked ==
  \A n \in RootNode : \A i \in 1 .. Len(down[n]) :
    cfg[n] = Empty /\ down[n][i].type = "status" => rpc = "collect" /\ n \in asking

Grows(m) ==
  /\ cfg[m].name = TheFirmware =>
       /\ cfg'[m].name = TheFirmware /\ cfg[m].bits \subseteq cfg'[m].bits
       /\ Got(m) \subseteq Got(m)'
  /\ rpc = "collect" /\ Pending(m) => Pending(m)'

Answer(r) == cfg'[r.from].name = TheFirmware /\ r = ReportOf(r.from, cfg'[r.from])

\* A step that is not the sending task's costs a miss, or takes nothing from any device.
Moves ==
  /\ Misses' >= Misses
  /\ Misses' > Misses \/ \A m \in Node : Grows(m)
  /\ \A r \in Report : Flies(r)' => Flies(r) \/ Answer(r)
  /\ \A m \in RootNode : cfg[m].name = TheFirmware => cfg'[m].name = TheFirmware

LEMMA MissesType ==
  ASSUME MeshTypeOK, Purse
  PROVE  /\ Misses \in Nat
         /\ Misses =< Budget.lose + Budget.restart
<1>1. left["lose"] \in Nat /\ left["restart"] \in Nat
      /\ Budget["lose"] \in Nat /\ Budget["restart"] \in Nat
  BY DEF MeshTypeOK
<1>2. left["lose"] =< Budget["lose"] /\ left["restart"] =< Budget["restart"]
  BY DEF Purse
<1> QED
  BY <1>1, <1>2 DEF Misses

LEMMA SpendMisses ==
  ASSUME MeshTypeOK, Purse, NEW what \in {"lose", "restart"}, left[what] > 0, Spend(what, 1)
  PROVE  Purse' /\ Misses' = Misses + 1 /\ left'.send = left.send
<1>1. left \in [DOMAIN Budget -> Nat] /\ left' = [left EXCEPT ![what] = @ - 1]
  BY DEF MeshTypeOK, Spend
<1>2. /\ left["lose"] \in Nat /\ left["restart"] \in Nat
      /\ Budget["lose"] \in Nat /\ Budget["restart"] \in Nat
      /\ left["lose"] =< Budget["lose"] /\ left["restart"] =< Budget["restart"]
  BY <1>1 DEF Purse
<1>3. left'["send"] = left["send"] /\ left'["halt"] = left["halt"] /\ left'["stop"] = left["stop"]
  BY <1>1
<1>4. CASE what = "lose"
  <2>1. left'["lose"] = left["lose"] - 1 /\ left'["restart"] = left["restart"]
    BY <1>1, <1>4
  <2> QED
    BY <1>2, <1>3, <2>1 DEF Purse, Misses
<1>5. CASE what = "restart"
  <2>1. left'["restart"] = left["restart"] - 1 /\ left'["lose"] = left["lose"]
    BY <1>1, <1>5
  <2> QED
    BY <1>2, <1>3, <2>1 DEF Purse, Misses
<1> QED
  BY <1>4, <1>5

\* The reports under way when a handler has acted.
LEMMA ReportsUnderWay ==
  ASSUME NodeTypeOK, NEW n \in Node, UNCHANGED <<queue, inhand>>,
         \A m \in Node \ {n} : up'[m] = up[m],
         NEW x, up'[n] = up[n] \/ up'[n] = Append(up[n], x)
  PROVE  /\ \A r : Flies(r) => Flies(r)'
         /\ \A r : Flies(r)' => Flies(r) \/ (up'[n] = Append(up[n], x) /\ r = x)
         /\ up'[n] = Append(up[n], x) => Flies(x)'
<1>1. up[n] \in Seq(Report)
  BY DEF NodeTypeOK
<1>2. ASSUME up'[n] = Append(up[n], x)
      PROVE  /\ Len(up'[n]) = Len(up[n]) + 1 /\ up'[n][Len(up[n]) + 1] = x
             /\ Len(up[n]) + 1 \in 1 .. Len(up'[n])
             /\ \A i \in 1 .. Len(up[n]) : i \in 1 .. Len(up'[n]) /\ up'[n][i] = up[n][i]
             /\ \A i \in 1 .. Len(up'[n]) : i \in 1 .. Len(up[n]) \/ i = Len(up[n]) + 1
  BY <1>1, <1>2
<1>3. ASSUME NEW m \in Node, NEW i \in 1 .. Len(up[m])
      PROVE  i \in 1 .. Len(up'[m]) /\ up'[m][i] = up[m][i]
  <2>1. CASE m = n
    BY <1>2, <1>3, <2>1
  <2>2. CASE m # n
    BY <1>3, <2>2
  <2> QED
    BY <2>1, <2>2
<1>4. ASSUME NEW r, NEW m \in Node, NEW i \in 1 .. Len(up'[m]), r = up'[m][i]
      PROVE  \/ i \in 1 .. Len(up[m]) /\ r = up[m][i]
             \/ up'[n] = Append(up[n], x) /\ r = x
  <2>1. CASE m = n
    BY <1>2, <1>4, <2>1
  <2>2. CASE m # n
    BY <1>4, <2>2
  <2> QED
    BY <2>1, <2>2
<1>5. \A r : Flies(r) => Flies(r)'
  <2> SUFFICES ASSUME NEW r, Flies(r) PROVE Flies(r)'
    OBVIOUS
  <2>1. CASE \E m \in Node : \E i \in 1 .. Len(up[m]) : r = up[m][i]
    <3>1. \E m \in Node : \E i \in 1 .. Len(up'[m]) : r = up'[m][i]
      <4>1. PICK m \in Node : \E i \in 1 .. Len(up[m]) : r = up[m][i]
        BY <2>1
      <4>2. PICK i \in 1 .. Len(up[m]) : r = up[m][i]
        BY <4>1
      <4>3. i \in 1 .. Len(up'[m]) /\ up'[m][i] = up[m][i]
        BY <1>3
      <4> QED
        BY <4>2, <4>3
    <3> QED
      BY <3>1 DEF Flies
  <2> QED
    BY <2>1 DEF Flies
<1>6. \A r : Flies(r)' => Flies(r) \/ (up'[n] = Append(up[n], x) /\ r = x)
  BY <1>4 DEF Flies
<1>7. up'[n] = Append(up[n], x) => Flies(x)'
  BY <1>2 DEF Flies
<1> QED
  BY <1>5, <1>6, <1>7

LEMMA HeadOrTail ==
  ASSUME NEW S, NEW s \in Seq(S), s # <<>>
  PROVE  /\ Head(s) \in S /\ \E j \in 1 .. Len(s) : Head(s) = s[j]
         /\ \A i \in 1 .. Len(Tail(s)) : \E j \in 1 .. Len(s) : Tail(s)[i] = s[j]
         /\ \A j \in 1 .. Len(s) : s[j] = Head(s) \/ \E i \in 1 .. Len(Tail(s)) : Tail(s)[i] = s[j]
<1>1. Len(s) \in Nat \ {0} /\ Head(s) = s[1] /\ Len(Tail(s)) = Len(s) - 1 /\ 1 \in 1 .. Len(s)
  OBVIOUS
<1>2. ASSUME NEW i \in 1 .. Len(Tail(s)) PROVE \E j \in 1 .. Len(s) : Tail(s)[i] = s[j]
  <2>1. i + 1 \in 1 .. Len(s) /\ Tail(s)[i] = s[i + 1]
    BY <1>1
  <2> QED
    BY <2>1
<1>3. ASSUME NEW j \in 1 .. Len(s), j # 1 PROVE \E i \in 1 .. Len(Tail(s)) : Tail(s)[i] = s[j]
  <2>1. j - 1 \in 1 .. Len(Tail(s)) /\ Tail(s)[j - 1] = s[(j - 1) + 1] /\ (j - 1) + 1 = j
    BY <1>1, <1>3
  <2> QED
    BY <2>1
<1> QED
  BY <1>1, <1>2, <1>3

\* A step of one device, but for what it does to what the device itself is to get and to say.
LEMMA HandlerMoves ==
  ASSUME FinishTerms, MeshInv, NEW n \in Node, UNCHANGED <<queue, inhand, left, rpc>>,
         \A m \in Node \ {n} : /\ cfg'[m] = cfg[m] /\ task'[m] = task[m]
                               /\ up'[m] = up[m] /\ down'[m] = down[m],
         Acts(n),
         cfg[n].name = TheFirmware => Got(n) \subseteq Got(n)',
         Pending(n) => Pending(n)'
  PROVE  Moves
<1> DEFINE x == ReportOf(n, cfg'[n])
<1>0. NodeTypeOK
  BY DEF MeshInv, NodeInv
<1>1. up'[n] = up[n] \/ (cfg'[n].name = TheFirmware /\ up'[n] = Append(up[n], x))
  BY DEF Acts
<1>2. x.from = n
  BY DEF ReportOf
<1> HIDE DEF x
<1>3. /\ \A r : Flies(r) => Flies(r)'
      /\ \A r : Flies(r)' => Flies(r) \/ (up'[n] = Append(up[n], x) /\ r = x)
  BY <1>0, <1>1, ReportsUnderWay
<1>4. ASSUME NEW m \in Node, m # n PROVE Grows(m)
  <2>1. Pending(m) => Pending(m)'
    BY <1>3, <1>4 DEF Pending, At
  <2>2. Got(m)' = Got(m)
    BY <1>4 DEF Got, Written, OnWay, At
  <2> QED
    BY <1>4, <2>1, <2>2 DEF Grows
<1>5. Grows(n)
  BY DEF Grows, Acts
<1>6. ASSUME NEW r \in Report, Flies(r)', ~ Flies(r) PROVE Answer(r)
  <2>1. r = x /\ up'[n] = Append(up[n], x)
    BY <1>3, <1>6
  <2>2. up[n] \in Seq(Report)
    BY <1>0 DEF NodeTypeOK
  <2>3. up'[n] # up[n]
    <3>1. Len(Append(up[n], x)) = Len(up[n]) + 1 /\ Len(up[n]) \in Nat
      BY <2>2
    <3> QED
      BY <2>1, <3>1
  <2>4. cfg'[n].name = TheFirmware
    BY <1>1, <2>3
  <2> QED
    BY <1>2, <2>1, <2>4 DEF Answer, x
<1>7. Misses' = Misses /\ Misses' >= Misses
  <2>1. left["lose"] \in Nat /\ left["restart"] \in Nat
        /\ Budget["lose"] \in Nat /\ Budget["restart"] \in Nat
    BY DEF MeshInv, MeshTypeOK
  <2> QED
    BY <2>1 DEF Misses
<1>8. \A m \in RootNode : cfg[m].name = TheFirmware => cfg'[m].name = TheFirmware
  BY DEF Acts
<1> QED
  BY <1>4, <1>5, <1>6, <1>7, <1>8 DEF Moves

-----------------------------------------------------------------------------
(* The steps of devices and mesh.                                          *)
Base ==
  /\ MeshInv /\ Purse /\ RootImage /\ DataFine /\ RootsAsked
  /\ \A n \in Node : Fine(n)

Silent == Quiet /\ queue = <<>>

Steady ==
  /\ Purse' /\ RootImage' /\ DataFine' /\ RootsAsked'
  /\ \A n \in Node : Fine(n)'
  /\ Moves
  /\ Silent => Silent'

LEMMA OthersFine ==
  ASSUME NEW m \in Node, Fine(m), cfg'[m] = cfg[m], nvs'[m] = nvs[m], task'[m] = task[m],
         flash'[m] = flash[m], boot'[m] = boot[m], fin'[m] = fin[m]
  PROVE  Fine(m)'
<1>1. Sound(m) => Sound(m)'
  <2>1. Selected(m) => Selected(m)'
    BY DEF Selected, Whole
  <2>2. NotSelected(m) => NotSelected(m)'
    BY DEF NotSelected, Whole, At
  <2>3. Exact(m) => Exact(m)'
    BY DEF Exact, At
  <2>4. Promised(m) => Promised(m)'
    BY DEF Promised, At
  <2> QED
    BY <2>1, <2>2, <2>3, <2>4 DEF Sound
<1> QED
  BY <1>1 DEF Fine

\* A device that has answered, or is about to, will be heard.
LEMMA ToldIsPending ==
  ASSUME NodeTypeOK, NodeTypeOK', NEW n \in Node, Told(n)
  PROVE  Pending(n)'
<1> DEFINE x == ReportOf(n, cfg'[n])
<1>1. x.from = n
  BY DEF ReportOf
<1> HIDE DEF x
<1>2. CASE task'[n].step = "begun"
  BY <1>2 DEF Pending, At
<1>3. CASE up'[n] = Append(up[n], x)
  <2>1. up[n] \in Seq(Report) /\ up'[n] \in Seq(Report)
    BY DEF NodeTypeOK
  <2>2. Len(up[n]) + 1 \in 1 .. Len(up'[n]) /\ up'[n][Len(up[n]) + 1] = x
    BY <1>3, <2>1
  <2>3. PICK y \in Report : y = up'[n][Len(up[n]) + 1] /\ y.from = n
    BY <1>1, <2>1, <2>2
  <2>4. Flies(y)'
    BY <2>2, <2>3 DEF Flies
  <2> QED
    BY <2>3, <2>4 DEF Pending
<1> QED
  BY <1>2, <1>3 DEF Told, x

\* What a message taken leaves.
LEMMA TakenFromWay ==
  ASSUME MeshTypeOK, NEW n \in Node, down[n] # <<>>, down' = [down EXCEPT ![n] = Tail(@)]
  PROVE  /\ \A m \in Node \ {n} : down'[m] = down[m]
         /\ \E j \in 1 .. Len(down[n]) : Head(down[n]) = down[n][j]
         /\ \A i \in 1 .. Len(down'[n]) : \E j \in 1 .. Len(down[n]) : down'[n][i] = down[n][j]
         /\ \A j \in 1 .. Len(down[n]) :
              down[n][j] = Head(down[n]) \/ \E i \in 1 .. Len(down'[n]) : down'[n][i] = down[n][j]
<1>1. down \in [Node -> Seq(Message)]
  BY DEF MeshTypeOK
<1>2. down[n] \in Seq(Message)
      /\ down'[n] = Tail(down[n]) /\ \A m \in Node \ {n} : down'[m] = down[m]
  BY <1>1
<1>3. /\ \E j \in 1 .. Len(down[n]) : Head(down[n]) = down[n][j]
      /\ \A i \in 1 .. Len(Tail(down[n])) :
           \E j \in 1 .. Len(down[n]) : Tail(down[n])[i] = down[n][j]
      /\ \A j \in 1 .. Len(down[n]) :
           \/ down[n][j] = Head(down[n])
           \/ \E i \in 1 .. Len(Tail(down[n])) : Tail(down[n])[i] = down[n][j]
  BY <1>2, HeadOrTail
<1>4. down'[n] = Tail(down[n])
  BY <1>2
<1>5. \A i \in 1 .. Len(down'[n]) : \E j \in 1 .. Len(down[n]) : down'[n][i] = down[n][j]
  BY ONLY <1>3, <1>4
<1>6. \A j \in 1 .. Len(down[n]) :
        down[n][j] = Head(down[n]) \/ \E i \in 1 .. Len(down'[n]) : down'[n][i] = down[n][j]
  BY ONLY <1>3, <1>4
<1> QED
  BY <1>2, <1>3, <1>5, <1>6

LEMMA ReceiveMoves ==
  ASSUME FinishTerms, Base, NodeInv', NEW n \in Node, Receive(n)
  PROVE  Steady
<1> DEFINE m == Head(down[n])
<1>0. /\ NodeInv /\ NodeTypeOK /\ NodeTypeOK' /\ MeshTypeOK /\ Places /\ MeshInv
      /\ TheFirmware \in Firmware /\ TheFirmware # NoName /\ OneFirmware
      /\ \A f \in Firmware : f = TheFirmware
      /\ Everything \subseteq Packet
  BY OnlyFirmware DEF Base, MeshInv, NodeInv
<1>1. m \in Message /\ down[n] # <<>> /\ down' = [down EXCEPT ![n] = Tail(@)]
      /\ UNCHANGED <<rootVars, left>>
      /\ IF m.type = "status" THEN Status(n, m.name) ELSE Data(n, m.name, m.seq)
  BY <1>0, MessageTaken DEF Receive
<1>2. m.type \in {"status", "data"} /\ m.name = TheFirmware /\ m.seq \in Packet
  BY <1>0, <1>1 DEF Message
<1>3. /\ \A k \in Node \ {n} : down'[k] = down[k]
      /\ \E j \in 1 .. Len(down[n]) : m = down[n][j]
      /\ \A i \in 1 .. Len(down'[n]) : \E j \in 1 .. Len(down[n]) : down'[n][i] = down[n][j]
      /\ \A j \in 1 .. Len(down[n]) :
              down[n][j] = m \/ \E i \in 1 .. Len(down'[n]) : down'[n][i] = down[n][j]
  BY <1>0, <1>1, TakenFromWay
<1> HIDE DEF m
<1>h. Handles(n)
  BY <1>0, MessageIsHandled
<1>5. ASSUME NEW k \in Node, k # n
      PROVE  /\ cfg'[k] = cfg[k] /\ nvs'[k] = nvs[k] /\ task'[k] = task[k]
             /\ flash'[k] = flash[k] /\ boot'[k] = boot[k] /\ fin'[k] = fin[k]
             /\ up'[k] = up[k] /\ down'[k] = down[k]
  <2>1. NodeInv /\ down'[k] = down[k]
    BY <1>0, <1>3, <1>5
  <2>2. CASE \E g \in Firmware : Status(n, g)
    BY <1>5, <2>1, <2>2, OthersUntouched
  <2>3. CASE \E g \in Firmware : \E p \in Packet : Data(n, g, p)
    BY <1>5, <2>1, <2>3, OthersUntouched
  <2> QED
    BY <1>h, <2>2, <2>3 DEF Handles
<1>6. Fine(n)' /\ Acts(n) /\ (cfg[n].name = TheFirmware => Got(n) \subseteq Got(n)')
      /\ (Pending(n) => Pending(n)')
  <2>1. CASE m.type = "status"
    <3>1. n \in RootNode /\ cfg[n] = Empty => Whole(n, TheFirmware)
      <4> SUFFICES ASSUME n \in RootNode, cfg[n] = Empty PROVE Whole(n, TheFirmware)
        OBVIOUS
      <4>1. rpc = "collect"
        BY <1>3, <2>1 DEF Base, RootsAsked
      <4>2. image.state = "finish" /\ image.name \in Firmware
        BY <1>0, <4>1 DEF Places
      <4> QED
        BY <1>0, <4>2 DEF Base, RootImage
    <3>2. Status(n, TheFirmware) /\ Fine(n)
      BY <1>1, <1>2, <2>1 DEF Base
    <3>3. Fine(n)' /\ Acts(n) /\ Told(n)
      BY <1>0, <3>1, <3>2, StatusActs
    <3>4. Pending(n)'
      BY <1>0, <3>3, ToldIsPending
    <3>5. OnWay(n) \subseteq OnWay(n)'
      <4> SUFFICES ASSUME NEW p \in Packet, NEW j \in 1 .. Len(down[n]),
                          down[n][j] = PacketOf(TheFirmware, p)
                   PROVE  p \in OnWay(n)'
        BY DEF OnWay
      <4>1. down[n][j] # m
        BY <2>1 DEF PacketOf
      <4> QED
        BY <1>3, <4>1 DEF OnWay
    <3>6. cfg[n].name = TheFirmware => Got(n) \subseteq Got(n)'
      BY <3>3, <3>5 DEF Got, Acts
    <3> QED
      BY <3>3, <3>4, <3>6
  <2>2. CASE m.type = "data"
    <3>1. m.seq \in Everything
      BY <1>3, <2>2 DEF Base, DataFine
    <3>2. Data(n, TheFirmware, m.seq) /\ Fine(n)
      BY <1>1, <1>2, <2>2 DEF Base
    <3>3. /\ Fine(n)' /\ Acts(n) /\ up' = up /\ At(n, "idle")
          /\ cfg[n].name = TheFirmware => m.seq \in cfg'[n].bits \union Written(n)'
      BY <1>0, <3>1, <3>2, DataActs
    <3>4. ASSUME Pending(n) PROVE Pending(n)'
      <4>1. ~ At(n, "begun")
        BY <3>3 DEF At
      <4>2. CASE \E j \in 1 .. Len(down[n]) : down[n][j].type = "status"
        <5>1. PICK j \in 1 .. Len(down[n]) : down[n][j].type = "status"
          BY <4>2
        <5>2. down[n][j] # m
          BY <2>2, <5>1
        <5> QED
          BY <1>3, <5>1, <5>2 DEF Pending
      <4>3. CASE \E r \in Report : Flies(r) /\ r.from = n
        <5>1. \A r : Flies(r)' = Flies(r)
          BY <1>1, <3>3 DEF Flies, rootVars
        <5> QED
          BY <4>3, <5>1 DEF Pending
      <4> QED
        BY <3>4, <4>1, <4>2, <4>3 DEF Pending
    <3>5. ASSUME cfg[n].name = TheFirmware, NEW p \in OnWay(n)
          PROVE  p \in Got(n)'
      <4>1. PICK j \in 1 .. Len(down[n]) : down[n][j] = PacketOf(TheFirmware, p)
        BY DEF OnWay
      <4>2. p \in Packet
        BY DEF OnWay
      <4>3. CASE down[n][j] = m
        <5>1. m.seq = p
          BY <4>1, <4>3 DEF PacketOf
        <5> QED
          BY <3>3, <3>5, <5>1 DEF Got
      <4>4. CASE down[n][j] # m
        <5>1. p \in OnWay(n)'
          BY <1>3, <4>1, <4>2, <4>4 DEF OnWay
        <5> QED
          BY <5>1 DEF Got
      <4> QED
        BY <4>3, <4>4
    <3>6. cfg[n].name = TheFirmware => Got(n) \subseteq Got(n)'
      BY <3>3, <3>5 DEF Got, Acts
    <3> QED
      BY <3>3, <3>4, <3>6
  <2> QED
    BY <1>2, <2>1, <2>2
<1>7. Moves
  <2>1. UNCHANGED <<queue, inhand, left, rpc>>
    BY <1>1 DEF rootVars
  <2> QED
    BY <1>0, <1>5, <1>6, <2>1, HandlerMoves
<1>8. \A k \in Node : Fine(k)'
  <2> SUFFICES ASSUME NEW k \in Node, k # n PROVE Fine(k)'
    BY <1>6
  <2> QED
    BY <1>5, OthersFine DEF Base
<1>9. RootImage'
  <2> SUFFICES ASSUME NEW k \in RootNode, image'.state = "finish" PROVE Whole(k, image.name)'
    BY DEF RootImage
  <2>1. image' = image /\ image.name \in Firmware /\ k \in Node
    BY <1>0, <1>1 DEF rootVars, Places
  <2>2. PICK f \in Firmware : f = image.name
    BY <2>1
  <2>3. Whole(k, f)
    BY <2>1, <2>2 DEF Base, RootImage
  <2>4. Whole(k, f)'
    <3>1. CASE k = n
      BY <1>0, <1>h, <2>3, <3>1, DeviceKeepsImage
    <3>2. CASE k # n
      BY <1>5, <2>1, <2>3, <3>2 DEF Whole
    <3> QED
      BY <3>1, <3>2
  <2> QED
    BY <2>1, <2>2, <2>4 DEF Whole
<1>10. DataFine'
  <2> SUFFICES ASSUME NEW k \in Node, NEW i \in 1 .. Len(down'[k]), down'[k][i].type = "data"
               PROVE  down'[k][i].seq \in Everything
    BY DEF DataFine, Everything
  <2>1. \E j \in 1 .. Len(down[k]) : down'[k][i] = down[k][j]
    <3>1. CASE k = n
      BY <1>3, <3>1
    <3>2. CASE k # n
      BY <1>3, <3>2
    <3> QED
      BY <3>1, <3>2
  <2> QED
    BY <2>1 DEF Base, DataFine
<1>11. RootsAsked'
  <2> SUFFICES ASSUME NEW k \in RootNode, NEW i \in 1 .. Len(down'[k]), cfg'[k] = Empty,
                      down'[k][i].type = "status"
               PROVE  rpc' = "collect" /\ k \in asking'
    BY DEF RootsAsked
  <2>1. \E j \in 1 .. Len(down[k]) : down'[k][i] = down[k][j]
    <3>1. CASE k = n
      BY <1>3, <3>1
    <3>2. CASE k # n
      BY <1>3, <3>2
    <3> QED
      BY <3>1, <3>2
  <2>2. cfg[k] = Empty
    <3>1. cfg[k] \in {Empty, RootConfig}
      BY DEF Base, Fine
    <3>2. RootConfig.name = TheFirmware /\ Empty.name = NoName
      BY DEF RootConfig, Progress, Fresh, Empty
    <3>3. CASE k = n
      BY <1>0, <1>6, <3>1, <3>2, <3>3 DEF Acts
    <3>4. CASE k # n
      BY <1>5, <3>4
    <3> QED
      BY <3>3, <3>4
  <2>3. rpc = "collect" /\ k \in asking
    BY <2>1, <2>2 DEF Base, RootsAsked
  <2> QED
    BY <1>1, <2>3 DEF rootVars
<1>12. Purse'
  BY <1>1 DEF Base, Purse
<1>13. ~ Silent
  BY <1>1 DEF Silent, Quiet
<1> QED
  BY <1>7, <1>8, <1>9, <1>10, <1>11, <1>12, <1>13 DEF Steady

\* What a step leaves that changes no device of the root but by its handlers.
LEMMA ImageStays ==
  ASSUME FinishTerms, Base, image' = image,
         \A k \in RootNode :
           flash'[k] = flash[k] \/ Handles(k) \/ Continue(k) \/ NodeStop(k) \/ TakeReport(k)
  PROVE  RootImage'
<1> SUFFICES ASSUME NEW k \in RootNode, image'.state = "finish" PROVE Whole(k, image.name)'
  BY DEF RootImage
<1>1. image.name \in Firmware /\ k \in Node /\ NodeTypeOK /\ OneFirmware
  BY OnlyFirmware DEF Base, MeshInv, NodeInv, Places
<1>2. PICK f \in Firmware : f = image.name
  BY <1>1
<1>3. Whole(k, f)
  BY <1>1, <1>2 DEF Base, RootImage
<1>4. Whole(k, f)'
  <2>1. CASE flash'[k] = flash[k]
    BY <1>3, <2>1 DEF Whole
  <2>2. CASE Handles(k) \/ Continue(k) \/ NodeStop(k) \/ TakeReport(k)
    BY <1>1, <1>3, <2>2, DeviceKeepsImage
  <2> QED
    BY <2>1, <2>2
<1> QED
  BY <1>1, <1>2, <1>4 DEF Whole

LEMMA ContinueMoves ==
  ASSUME FinishTerms, Base, NodeInv', NEW n \in Node, DeviceContinues(n)
  PROVE  Steady
<1>0. /\ NodeInv /\ NodeTypeOK /\ NodeTypeOK' /\ MeshTypeOK /\ MeshInv
      /\ TheFirmware # NoName
  BY OnlyFirmware DEF Base, MeshInv, NodeInv
<1>1. Continue(n) /\ UNCHANGED <<rootVars, down, left>>
  BY DEF DeviceContinues
<1>2. Fine(n)' /\ Acts(n) /\ (At(n, "begun") => Told(n)) /\ ~ At(n, "idle")
  BY <1>0, <1>1, ContinueActs DEF Base
<1>3. ASSUME NEW k \in Node, k # n
      PROVE  /\ cfg'[k] = cfg[k] /\ nvs'[k] = nvs[k] /\ task'[k] = task[k]
             /\ flash'[k] = flash[k] /\ boot'[k] = boot[k] /\ fin'[k] = fin[k]
             /\ up'[k] = up[k] /\ down'[k] = down[k]
  BY <1>0, <1>1, <1>3, OthersUntouched
<1>4. cfg[n].name = TheFirmware => Got(n) \subseteq Got(n)'
  <2>1. OnWay(n)' = OnWay(n)
    BY <1>1 DEF OnWay
  <2> QED
    BY <1>2, <2>1 DEF Got, Acts
<1>5. ASSUME Pending(n) PROVE Pending(n)'
  <2>1. CASE At(n, "begun")
    BY <1>0, <1>2, <2>1, ToldIsPending
  <2>2. CASE \E i \in 1 .. Len(down[n]) : down[n][i].type = "status"
    BY <1>1, <2>2 DEF Pending
  <2>3. CASE \E r \in Report : Flies(r) /\ r.from = n
    <3>1. PICK r \in Report : Flies(r) /\ r.from = n
      BY <2>3
    <3>2. UNCHANGED <<queue, inhand>>
      BY <1>1 DEF rootVars
    <3>3. PICK x : up'[n] = up[n] \/ up'[n] = Append(up[n], x)
      BY <1>2 DEF Acts
    <3>4. Flies(r)'
      BY <1>0, <1>3, <3>1, <3>2, <3>3, ReportsUnderWay
    <3> QED
      BY <3>1, <3>4 DEF Pending
  <2> QED
    BY <1>5, <2>1, <2>2, <2>3 DEF Pending
<1>6. Moves
  <2>1. UNCHANGED <<queue, inhand, left, rpc>>
    BY <1>1 DEF rootVars
  <2> QED
    BY <1>0, <1>2, <1>3, <1>4, <1>5, <2>1, HandlerMoves
<1>7. \A k \in Node : Fine(k)'
  <2> SUFFICES ASSUME NEW k \in Node, k # n PROVE Fine(k)'
    BY <1>2
  <2> QED
    BY <1>3, OthersFine DEF Base
<1>8. RootImage'
  <2>1. image' = image
    BY <1>1 DEF rootVars
  <2>2. \A k \in RootNode : flash'[k] = flash[k] \/ Continue(k)
    BY <1>1, <1>3
  <2> QED
    BY <2>1, <2>2, ImageStays
<1>9. RootsAsked'
  <2> SUFFICES ASSUME NEW k \in RootNode, NEW i \in 1 .. Len(down'[k]), cfg'[k] = Empty,
                      down'[k][i].type = "status"
               PROVE  rpc' = "collect" /\ k \in asking'
    BY DEF RootsAsked
  <2>1. k # n
    <3>1. n \notin RootNode
      BY <1>2 DEF Base, Fine, At, Idle, Doing
    <3> QED
      BY <3>1
  <2>2. rpc = "collect" /\ k \in asking
    BY <1>1, <1>3, <2>1 DEF Base, RootsAsked
  <2> QED
    BY <1>1, <2>2 DEF rootVars
<1>10. Purse' /\ DataFine'
  BY <1>1 DEF Base, Purse, DataFine, Everything
<1>11. ~ Silent
  BY <1>2 DEF Silent, Quiet
<1> QED
  BY <1>6, <1>7, <1>8, <1>9, <1>10, <1>11 DEF Steady

LEMMA RestartMoves ==
  ASSUME FinishTerms, Base, NodeInv', NEW n \in Node, DeviceRestarts(n)
  PROVE  Steady /\ left'.send = left.send
<1>0. /\ NodeInv /\ NodeTypeOK /\ MeshTypeOK /\ MeshInv /\ TheFirmware # NoName
      /\ OneFirmware /\ ErasesWork /\ RecordIsWhole
  BY OnlyFirmware DEF Base, MeshInv, NodeInv, FinishTerms
<1>1. /\ n \notin RootNode /\ left["restart"] > 0 /\ Spend("restart", 1) /\ Restart(n)
      /\ down' = [down EXCEPT ![n] = <<>>] /\ UNCHANGED rootVars /\ up' = up
  BY DEF DeviceRestarts, Restart
<1>2. Purse' /\ Misses' = Misses + 1 /\ left'.send = left.send
  BY <1>0, <1>1, SpendMisses DEF Base
<1>3. ASSUME NEW k \in Node, k # n
      PROVE  /\ cfg'[k] = cfg[k] /\ nvs'[k] = nvs[k] /\ task'[k] = task[k]
             /\ flash'[k] = flash[k] /\ boot'[k] = boot[k] /\ fin'[k] = fin[k]
  BY <1>0, <1>1, <1>3, OthersUntouched
<1>4. down'[n] = <<>> /\ \A k \in Node \ {n} : down'[k] = down[k]
  BY <1>0, <1>1 DEF MeshTypeOK
<1>5. Fine(n)'
  <2>1. NodeStep(n)
    BY <1>1 DEF NodeStep
  <2>2. Sound(n)'
    BY <1>0, <1>1, <2>1, SoundStep DEF Base, Fine
  <2>3. cfg'[n] = Empty /\ nvs' = nvs /\ ~ Empty.stop
    BY <1>0, <1>1 DEF Restart, Empty, NodeTypeOK
  <2> QED
    BY <1>1, <2>2, <2>3 DEF Base, Fine
<1>6. \A k \in Node : Fine(k)'
  <2> SUFFICES ASSUME NEW k \in Node, k # n PROVE Fine(k)'
    BY <1>5
  <2> QED
    BY <1>3, OthersFine DEF Base
<1>7. Moves
  <2>1. Misses' > Misses /\ Misses' >= Misses
    BY <1>0, <1>2, MissesType DEF Base
  <2>2. \A r \in Report : Flies(r)' => Flies(r)
    BY <1>1 DEF Flies, rootVars
  <2>3. \A m \in RootNode : cfg'[m] = cfg[m]
    BY <1>1, <1>3
  <2> QED
    BY <2>1, <2>2, <2>3 DEF Moves
<1>8. RootImage'
  <2>1. image' = image /\ \A k \in RootNode : flash'[k] = flash[k]
    BY <1>1, <1>3 DEF rootVars
  <2> QED
    BY <2>1, ImageStays
<1>9. DataFine'
  <2> SUFFICES ASSUME NEW k \in Node, NEW i \in 1 .. Len(down'[k]), down'[k][i].type = "data"
               PROVE  down'[k][i].seq \in Everything
    BY DEF DataFine, Everything
  <2>1. k # n
    BY <1>4
  <2> QED
    BY <1>4, <2>1 DEF Base, DataFine
<1>10. RootsAsked'
  <2> SUFFICES ASSUME NEW k \in RootNode, NEW i \in 1 .. Len(down'[k]), cfg'[k] = Empty,
                      down'[k][i].type = "status"
               PROVE  rpc' = "collect" /\ k \in asking'
    BY DEF RootsAsked
  <2>1. k # n
    BY <1>1
  <2>2. rpc = "collect" /\ k \in asking
    BY <1>3, <1>4, <2>1 DEF Base, RootsAsked
  <2> QED
    BY <1>1, <2>2 DEF rootVars
<1>11. Silent => Silent'
  <2> SUFFICES ASSUME Silent PROVE Silent'
    OBVIOUS
  <2>1. UNCHANGED <<inhand, queue>>
    BY <1>1 DEF rootVars
  <2>2. ASSUME NEW k \in Node PROVE down'[k] = <<>> /\ up'[k] = <<>> /\ At(k, "idle")'
    <3>1. down[k] = <<>> /\ up[k] = <<>> /\ At(k, "idle")
      BY DEF Silent, Quiet
    <3>2. CASE k = n
      <4>1. task'[n] = Idle
        BY <1>0, <1>1 DEF Restart, NodeTypeOK
      <4> QED
        BY <1>1, <1>4, <3>1, <3>2, <4>1 DEF At, Idle, Doing
    <3>3. CASE k # n
      BY <1>1, <1>3, <1>4, <3>1, <3>3 DEF At
    <3> QED
      BY <3>2, <3>3
  <2> QED
    BY <2>1, <2>2 DEF Silent, Quiet
<1> QED
  BY <1>2, <1>6, <1>7, <1>8, <1>9, <1>10, <1>11 DEF Steady

LEMMA FewerReports ==
  ASSUME NodeTypeOK, NEW n \in Node, up[n] # <<>>, up' = [up EXCEPT ![n] = Tail(@)]
  PROVE  /\ Head(up[n]) \in Report
         /\ \E j \in 1 .. Len(up[n]) : Head(up[n]) = up[n][j]
         /\ \A m \in Node : \A i \in 1 .. Len(up'[m]) :
               \E j \in 1 .. Len(up[m]) : up'[m][i] = up[m][j]
         /\ \A m \in Node : \A j \in 1 .. Len(up[m]) :
              \/ m = n /\ up[m][j] = Head(up[n])
              \/ \E i \in 1 .. Len(up'[m]) : up'[m][i] = up[m][j]
<1>1. up[n] \in Seq(Report) /\ up'[n] = Tail(up[n]) /\ \A m \in Node \ {n} : up'[m] = up[m]
  BY DEF NodeTypeOK
<1>2. /\ Head(up[n]) \in Report
      /\ \E j \in 1 .. Len(up[n]) : Head(up[n]) = up[n][j]
      /\ \A i \in 1 .. Len(Tail(up[n])) : \E j \in 1 .. Len(up[n]) : Tail(up[n])[i] = up[n][j]
      /\ \A j \in 1 .. Len(up[n]) :
           up[n][j] = Head(up[n]) \/ \E i \in 1 .. Len(Tail(up[n])) : Tail(up[n])[i] = up[n][j]
  BY <1>1, HeadOrTail
<1>2a. \A j \in 1 .. Len(up[n]) :
        up[n][j] = Head(up[n]) \/ \E i \in 1 .. Len(up'[n]) : up'[n][i] = up[n][j]
  BY ONLY <1>1, <1>2
<1>3. ASSUME NEW m \in Node, NEW i \in 1 .. Len(up'[m])
      PROVE  \E j \in 1 .. Len(up[m]) : up'[m][i] = up[m][j]
  <2>1. CASE m = n
    BY <1>1, <1>2, <2>1
  <2>2. CASE m # n
    BY <1>1, <2>2
  <2> QED
    BY <2>1, <2>2
<1>4. ASSUME NEW m \in Node, NEW j \in 1 .. Len(up[m])
      PROVE  \/ m = n /\ up[m][j] = Head(up[n])
             \/ \E i \in 1 .. Len(up'[m]) : up'[m][i] = up[m][j]
  <2>1. CASE m = n
    BY <1>2a, <2>1
  <2>2. CASE m # n
    BY <1>1, <2>2
  <2> QED
    BY <2>1, <2>2
<1> QED
  BY <1>2, <1>3, <1>4

LEMMA LoseMoves ==
  ASSUME FinishTerms, Base, NEW n \in Node, LoseReport(n)
  PROVE  Steady /\ left'.send = left.send
<1>0. NodeTypeOK /\ MeshTypeOK
  BY DEF Base, MeshInv, NodeInv
<1>1. /\ left["lose"] > 0 /\ Spend("lose", 1) /\ up[n] # <<>>
      /\ up' = [up EXCEPT ![n] = Tail(@)] /\ UNCHANGED <<rootVars, down>>
      /\ UNCHANGED <<cfg, nvs, flash, boot, version, fin, next, task>>
  BY DEF LoseReport
<1>2. Purse' /\ Misses' = Misses + 1 /\ left'.send = left.send
  BY <1>0, <1>1, SpendMisses DEF Base
<1>3. \A k \in Node : Fine(k)'
  BY <1>1, OthersFine DEF Base
<1>4. Moves
  <2>1. Misses' > Misses /\ Misses' >= Misses
    BY <1>0, <1>2, MissesType DEF Base
  <2>2. \A m \in Node : \A i \in 1 .. Len(up'[m]) :
               \E j \in 1 .. Len(up[m]) : up'[m][i] = up[m][j]
    BY <1>0, <1>1, FewerReports
  <2>3. \A r \in Report : Flies(r)' => Flies(r)
    BY <1>1, <2>2 DEF Flies, rootVars
  <2> QED
    BY <1>1, <2>1, <2>3 DEF Moves
<1>5. RootImage'
  BY <1>1, ImageStays DEF rootVars
<1>6. DataFine' /\ RootsAsked'
  BY <1>1 DEF Base, DataFine, RootsAsked, rootVars, Everything
<1>7. ~ Silent
  BY <1>1 DEF Silent, Quiet
<1> QED
  BY <1>2, <1>3, <1>4, <1>5, <1>6, <1>7 DEF Steady

LEMMA DeviceMoves ==
  ASSUME FinishTerms, Base, NodeInv', NEW n \in Node,
         Device(n) \/ DeviceRestarts(n) \/ DeviceStops(n) \/ LoseReport(n)
  PROVE  Steady /\ left'.send = left.send /\ UNCHANGED rootVars
<1>1. CASE Receive(n)
  BY <1>1, ReceiveMoves DEF Receive
<1>2. CASE DeviceContinues(n)
  BY <1>2, ContinueMoves DEF DeviceContinues
<1>3. CASE DeviceRestarts(n)
  BY <1>3, RestartMoves DEF DeviceRestarts
<1>4. CASE LoseReport(n)
  BY <1>4, LoseMoves DEF LoseReport
<1>5. ~ DeviceStops(n)
  BY DEF DeviceStops, Base, Purse
<1> QED
  BY <1>1, <1>2, <1>3, <1>4, <1>5 DEF Device

-----------------------------------------------------------------------------
(* The root's other tasks.                                                 *)

\* What the sending task has set up.
Calling ==
  /\ spc = "none"
  /\ rpc # "idle" => queueState = "live"
  /\ running <=> rpc \notin {"idle", "flush", "signal"}

LEMMA NoReportIsNone == \A r \in Report : r # NoReport
<1> SUFFICES ASSUME NEW r \in Report, r = NoReport PROVE FALSE
  OBVIOUS
<1>1. DOMAIN r = {"from", "name", "stop", "written", "bits"}
  BY DEF Report
<1>2. DOMAIN NoReport = {"from"}
  BY DEF NoReport
<1> QED
  BY <1>1, <1>2

\* A step that leaves the devices and what is sent to them alone.
LEMMA RootMoves ==
  ASSUME FinishTerms, Base, UNCHANGED <<cfg, nvs, boot, fin, task, down, left, rpc, asking>>,
         \A k \in Node \ RootNode : flash'[k] = flash[k],
         \A r \in Report : Flies(r)' => Flies(r),
         rpc = "collect" => \A r \in Report : Flies(r) => Flies(r)',
         RootImage', Silent => Silent'
  PROVE  Steady
<1>1. \A k \in Node : Fine(k)'
  <2> SUFFICES ASSUME NEW k \in Node PROVE Fine(k)'
    OBVIOUS
  <2>1. CASE k \in RootNode
    BY <2>1 DEF Base, Fine
  <2>2. CASE k \notin RootNode
    BY <2>2, OthersFine DEF Base
  <2> QED
    BY <2>1, <2>2
<1>2. Misses' = Misses /\ Misses' >= Misses
  <2>1. MeshTypeOK /\ Purse
    BY DEF Base, MeshInv
  <2>2. Misses \in Nat
    BY <2>1, MissesType
  <2> QED
    BY <2>2 DEF Misses
<1>3. \A m \in Node : Grows(m)
  <2> SUFFICES ASSUME NEW m \in Node PROVE Grows(m)
    OBVIOUS
  <2>1. Got(m)' = Got(m)
    BY DEF Got, Written, OnWay, At
  <2>2. rpc = "collect" /\ Pending(m) => Pending(m)'
    BY DEF Pending, At
  <2> QED
    BY <2>1, <2>2 DEF Grows
<1>4. Moves
  BY <1>2, <1>3 DEF Moves
<1>5. DataFine' /\ RootsAsked' /\ Purse'
  BY DEF Base, DataFine, RootsAsked, Purse, Everything
<1> QED
  BY <1>1, <1>4, <1>5 DEF Steady

LEMMA ReceiverMoves ==
  ASSUME FinishTerms, Base, Calling, Receiver
  PROVE  Steady /\ left' = left /\ UNCHANGED <<rpc, locals, running, spc, queueState, image>>
<1>0. NodeTypeOK /\ MeshTypeOK /\ queue \in Seq(Report)
  BY DEF Base, MeshInv, NodeInv, MeshTypeOK
<1>1. /\ UNCHANGED <<cfg, nvs, flash, boot, version, fin, next, task, down, left>>
      /\ UNCHANGED <<rpc, locals, running, spc, queueState, image>>
  BY DEF Receiver, RootAccept, RootEnqueue, RootGiveUp, nodeVars
<1>2. RootImage'
  BY <1>1, ImageStays
<1>3. ~ Silent
  BY DEF Receiver, RootAccept, RootEnqueue, RootGiveUp, Silent, Quiet
<1>4. (\A r \in Report : Flies(r)' => Flies(r))
      /\ (rpc = "collect" => \A r \in Report : Flies(r) => Flies(r)')
  <2>1. ASSUME NEW n \in Node, RootAccept(n)
        PROVE  /\ \A r \in Report : Flies(r)' => Flies(r)
               /\ rpc = "collect" => \A r \in Report : Flies(r) => Flies(r)'
    <3>1. up[n] # <<>> /\ up' = [up EXCEPT ![n] = Tail(@)] /\ queue' = queue /\ inhand = NoReport
          /\ inhand' = IF queueState # "none" /\ running THEN Head(up[n]) ELSE NoReport
      BY <2>1 DEF RootAccept
    <3>2. /\ \E j \in 1 .. Len(up[n]) : Head(up[n]) = up[n][j]
          /\ \A m \in Node : \A i \in 1 .. Len(up'[m]) :
               \E j \in 1 .. Len(up[m]) : up'[m][i] = up[m][j]
          /\ \A m \in Node : \A j \in 1 .. Len(up[m]) :
              \/ m = n /\ up[m][j] = Head(up[n])
              \/ \E i \in 1 .. Len(up'[m]) : up'[m][i] = up[m][j]
      BY <1>0, <3>1, FewerReports
    <3>3. ASSUME NEW r \in Report, Flies(r)' PROVE Flies(r)
      <4>1. r # NoReport
        BY NoReportIsNone
      <4>2. CASE r = inhand'
        BY <3>1, <3>2, <4>1, <4>2 DEF Flies
      <4>3. CASE \E m \in Node : \E i \in 1 .. Len(up'[m]) : r = up'[m][i]
        BY <3>2, <4>3 DEF Flies
      <4> QED
        BY <3>1, <3>3, <4>2, <4>3 DEF Flies
    <3>4. ASSUME rpc = "collect", NEW r \in Report, Flies(r) PROVE Flies(r)'
      <4>1. r # NoReport /\ inhand' = Head(up[n])
        BY <3>1, <3>4, NoReportIsNone DEF Calling
      <4>2. CASE \E m \in Node : \E j \in 1 .. Len(up[m]) : r = up[m][j]
        <5>1. PICK m \in Node : \E j \in 1 .. Len(up[m]) : r = up[m][j]
          BY <4>2
        <5>2. PICK j \in 1 .. Len(up[m]) : r = up[m][j]
          BY <5>1
        <5>3. \/ up[m][j] = Head(up[n])
              \/ \E i \in 1 .. Len(up'[m]) : up'[m][i] = up[m][j]
          BY <3>2
        <5> QED
          BY <4>1, <5>2, <5>3 DEF Flies
      <4> QED
        BY <3>1, <3>4, <4>1, <4>2 DEF Flies
    <3> QED
      BY <3>3, <3>4
  <2>2. ASSUME RootEnqueue
        PROVE  \A r \in Report : Flies(r)' = Flies(r)
    <3>1. inhand # NoReport /\ queue' = Append(queue, inhand) /\ inhand' = NoReport /\ up' = up
      BY <2>2 DEF RootEnqueue, nodeVars
    <3>2. /\ Len(queue') = Len(queue) + 1 /\ queue'[Len(queue) + 1] = inhand
          /\ Len(queue) + 1 \in 1 .. Len(queue')
          /\ \A i \in 1 .. Len(queue) : i \in 1 .. Len(queue') /\ queue'[i] = queue[i]
          /\ \A i \in 1 .. Len(queue') : i \in 1 .. Len(queue) \/ i = Len(queue) + 1
      BY <1>0, <3>1
    <3>3. \A r \in Report : r # NoReport
      BY NoReportIsNone
    <3>4. ASSUME NEW r \in Report, Flies(r)' PROVE Flies(r)
      BY <3>1, <3>2, <3>3, <3>4 DEF Flies
    <3>5. ASSUME NEW r \in Report, Flies(r) PROVE Flies(r)'
      BY <3>1, <3>2, <3>3, <3>5 DEF Flies
    <3> QED
      BY <3>4, <3>5 DEF Flies
  <2>3. CASE RootGiveUp
    <3>1. inhand' = NoReport /\ UNCHANGED <<up, queue>> /\ rpc # "collect"
      BY <2>3 DEF RootGiveUp, nodeVars, FinishTerms
    <3> QED
      BY <3>1, NoReportIsNone DEF Flies
  <2> QED
    BY <2>1, <2>2, <2>3 DEF Receiver
<1> QED
  BY <1>1, <1>2, <1>3, <1>4, RootMoves DEF locals

LEMMA DownloadMoves ==
  ASSUME FinishTerms, Base, (\E f \in Firmware : FirmwareInit(f)) \/ FirmwareDownload
  PROVE  /\ Steady /\ left' = left /\ UNCHANGED <<rpc, locals, running, spc>>
         /\ rpc = "idle"
<1>1. /\ UNCHANGED <<cfg, nvs, boot, version, fin, next, task, up, down, left>>
      /\ UNCHANGED <<rpc, locals, running, spc, queue, inhand>>
  BY DEF FirmwareInit, FirmwareDownload
<1>2. \A k \in Node \ RootNode : flash'[k] = flash[k]
  BY DEF FirmwareInit, FirmwareDownload, RootHolds
<1>3. RootImage'
  <2>1. Spent
    <3>1. left["restart"] \in Nat /\ left["restart"] =< Budget["restart"] /\ left["halt"] = 0
      BY DEF Base, MeshInv, MeshTypeOK, Purse
    <3> QED
      BY <3>1 DEF Spent
  <2>2. MeshInv /\ RootImage
    BY DEF Base
  <2>3. RootCall
    BY DEF RootCall
  <2> QED
    BY <2>1, <2>2, <2>3, RootCallImage
<1>4. \A r \in Report : Flies(r)' = Flies(r)
  BY <1>1 DEF Flies
<1>5. Silent => Silent'
  BY <1>1 DEF Silent, Quiet, At
<1>6. rpc = "idle"
  BY DEF FirmwareInit, FirmwareDownload, Base, MeshInv, Places
<1> QED
  BY <1>1, <1>2, <1>3, <1>4, <1>5, <1>6, RootMoves DEF locals

-----------------------------------------------------------------------------
(* The rounds.                                                             *)

\* The packets of the round that are not sent yet.
Ahead ==
  IF rpc \in {"send", "poll"} THEN {p \in Packet : p >= seq /\ p \notin progress} ELSE {}

\* A device that will have every packet when the round has sent what it has to, and one that
\* has those the round leaves out.
Coming(n) ==
  n \notin RootNode /\ cfg[n].name = TheFirmware /\ Everything \subseteq Got(n) \union Ahead
Needy(n) ==
  n \notin RootNode /\ cfg[n].name = TheFirmware /\ progress \subseteq cfg[n].bits

\* A report that a device lacks packets does not come from before the round, unless
\* something was lost in this one.
Timely(r) ==
  ~ Finished(r) /\ r.from \in unfinished =>
    \/ Misses >= round + 1
    \/ /\ Misses >= round
       /\ cfg[r.from].name = TheFirmware /\ r.bits \subseteq cfg[r.from].bits

(* The bound.  After each round of sending, what is missing is paid for: as *)
(* many misses as rounds, or one fewer and the round has brought everything *)
(* there was to bring, so that the next one only hears of it.  Within a     *)
(* round each attempt costs a miss too, since whoever was asked is Pending  *)
(* until it is heard.                                                       *)
Prepared ==
  rpc \in {"round", "drain"} =>
    Misses >= round \/ (Misses + 1 >= round /\ \A n \in unfinished : Coming(n))

Answering ==
  /\ Misses >= round \/ (Misses + 1 >= round /\ \A n \in unfinished : Complete(n))
  /\ asking # {} => Misses + 1 >= round + attempt
  /\ rpc = "collect" => \A n \in asking : Pending(n) \/ Misses >= round + attempt
  /\ \A r \in Report : Flies(r) => Timely(r)
  /\ unfinished = asking \union requested
  /\ \A n \in requested : Misses >= round + 1 \/ (Misses >= round /\ Needy(n))
  /\ requested # {} <=> progress # Packet
  /\ rpc = "ask" /\ asking # {} => Silent

Asked == rpc \in {"ask", "collect"} => Answering

Sent ==
  rpc \in {"send", "poll"} =>
    \/ Misses >= round + 1
    \/ Misses >= round /\ \A n \in unfinished : n \in requested /\ Coming(n)

Results ==
  /\ rpc \in {"exit", "flush", "signal"} => unfinished = {}
  /\ rpc # "idle" => unfinished \union successed # {}
  /\ rpc = "idle" => left.send = Budget.send \/ (unfinished = {} /\ successed # {})
  /\ rpc \notin {"send", "poll", "exit"} => seq = 0

Rounds == Prepared /\ Asked /\ Sent /\ Results

Sayings == \A r \in Report : Flies(r) => Says(r)

FinishInv == Base /\ ListInv /\ Calling /\ Sayings /\ Rounds

\* What the configuration of a fine device says.
LEMMA ConfigSays ==
  ASSUME FinishTerms, NEW n \in Node, NEW c, NEW cells, c.name = TheFirmware,
         n \in RootNode => c \in {Empty, RootConfig},
         n \notin RootNode => Holds(cells, c) /\ c.written = Cardinality(c.bits)
  PROVE  /\ c.written = PacketNum[TheFirmware] <=> Everything \subseteq c.bits
         /\ n \in RootNode => Everything \subseteq c.bits
<1>1. CASE n \in RootNode
  <2>1. c = RootConfig
    BY <1>1, OnlyFirmware DEF Empty
  <2>2. c.bits = Packet /\ c.written = PacketNum[TheFirmware]
    BY <2>1 DEF RootConfig, Progress
  <2> QED
    BY <1>1, <2>2, OnlyFirmware
<1>2. CASE n \notin RootNode
  <2>1. c.bits \subseteq Everything
    BY <1>2 DEF Holds, Everything
  <2>2. c.written = PacketNum[TheFirmware] <=> Everything \subseteq c.bits
    BY <1>2, <2>1, AllBits, OnlyFirmware DEF Everything
  <2> QED
    BY <1>2, <2>2
<1> QED
  BY <1>1, <1>2

LEMMA AnswerSays ==
  ASSUME FinishTerms, NEW r, NEW n \in Node, r.from = n, Fine(n)', Answer(r)
  PROVE  /\ Says(r)' /\ r.bits \subseteq cfg'[n].bits
         /\ Finished(r) <=> Everything \subseteq cfg'[n].bits
<1>1. PICK c : c = cfg'[n]
  OBVIOUS
<1>2. c.name = TheFirmware /\ r = ReportOf(n, c)
  BY <1>1 DEF Answer
<1>3. ~ c.stop /\ (n \in RootNode => c \in {Empty, RootConfig})
  BY <1>1 DEF Fine
<1>4. PICK cells : cells = flash'[n]
  OBVIOUS
<1>5. n \notin RootNode => Holds(cells, c) /\ c.written = Cardinality(c.bits)
  BY <1>1, <1>3, <1>4 DEF Fine, Sound, Promised, Exact
<1>6. /\ c.written = PacketNum[TheFirmware] <=> Everything \subseteq c.bits
      /\ n \in RootNode => Everything \subseteq c.bits
  BY <1>2, <1>3, <1>5, ConfigSays
<1>7. /\ r.from = n /\ r.name = TheFirmware /\ ~ r.stop /\ r.written = c.written
      /\ r.bits \subseteq c.bits
  BY <1>2, <1>3 DEF ReportOf
<1>8. Finished(r) <=> Everything \subseteq c.bits
  BY <1>6, <1>7 DEF Finished
<1>9. Says(r)'
  <2>1. n \in RootNode => Finished(r) /\ cfg'[n].name = TheFirmware
    BY <1>1, <1>2, <1>6, <1>8
  <2>2. ~ Finished(r) => ~ (Everything \subseteq r.bits)
    BY <1>7, <1>8
  <2> QED
    BY <1>7, <2>1, <2>2 DEF Says, Everything, TheFirmware, Finished
<1> QED
  BY <1>1, <1>7, <1>8, <1>9

LEMMA SayingsStay ==
  ASSUME FinishTerms, Sayings, Steady
  PROVE  Sayings'
<1> SUFFICES ASSUME NEW r \in Report, Flies(r)' PROVE Says(r)'
  BY DEF Sayings
<1>1. r.from \in Node
  BY DEF Report
<1>2. CASE Flies(r)
  <2>1. Says(r)
    BY <1>2 DEF Sayings
  <2>2. r.from \in RootNode => cfg'[r.from].name = TheFirmware
    BY <2>1 DEF Says, Steady, Moves
  <2> QED
    BY <2>1, <2>2 DEF Says, Everything, TheFirmware, Finished
<1>3. CASE Answer(r)
  BY <1>1, <1>3, AnswerSays DEF Steady
<1> QED
  BY <1>2, <1>3 DEF Steady, Moves

\* A step that is not the sending task's.
LEMMA Calm ==
  ASSUME FinishTerms, FinishInv, MeshTypeOK', Steady, UNCHANGED <<rpc, locals>>,
         left'.send = left.send
  PROVE  Rounds'
<1>0. /\ Misses \in Nat /\ Misses' \in Int /\ Misses' >= Misses
      /\ round \in Nat /\ attempt \in Nat
      /\ unfinished \subseteq Node /\ asking \subseteq Node /\ requested \subseteq Node
  <2>1. Misses \in Nat
    BY MissesType DEF FinishInv, Base, MeshInv
  <2>2. left'["lose"] \in Nat /\ left'["restart"] \in Nat
        /\ Budget["lose"] \in Nat /\ Budget["restart"] \in Nat
    BY DEF MeshTypeOK
  <2>3. Misses' \in Int
    BY <2>2 DEF Misses
  <2> QED
    BY <2>1, <2>3 DEF FinishInv, Base, MeshInv, ListTypeOK, Steady, Moves
<1>1. UNCHANGED <<unfinished, successed, requested, asking, progress, round, attempt, seq>>
  BY DEF locals
<1>2. Misses' >= Misses + 1 \/ (Misses' = Misses /\ \A m \in Node : Grows(m))
  BY <1>0 DEF Steady, Moves
<1>3. ASSUME NEW n \in Node, Coming(n), Misses' = Misses PROVE Coming(n)'
  <2>1. Ahead' = Ahead
    BY <1>1 DEF Ahead
  <2>2. cfg'[n].name = TheFirmware /\ Got(n) \subseteq Got(n)'
    BY <1>0, <1>2, <1>3 DEF Coming, Grows
  <2> QED
    BY <1>3, <2>1, <2>2 DEF Coming, Everything, TheFirmware
<1>4. Prepared'
  <2> SUFFICES ASSUME rpc \in {"round", "drain"}
               PROVE  Misses' >= round \/ (Misses' + 1 >= round /\ \A n \in unfinished : Coming(n)')
    BY <1>1 DEF Prepared
  <2>1. Misses >= round \/ (Misses + 1 >= round /\ \A n \in unfinished : Coming(n))
    BY DEF FinishInv, Rounds, Prepared
  <2>2. CASE Misses' >= Misses + 1
    BY <1>0, <2>1, <2>2
  <2>3. CASE Misses' = Misses
    BY <1>0, <1>3, <2>1, <2>3
  <2> QED
    BY <1>2, <2>2, <2>3
<1>5. Sent'
  <2> SUFFICES ASSUME rpc \in {"send", "poll"}
               PROVE  \/ Misses' >= round + 1
                      \/ Misses' >= round /\ \A n \in unfinished : n \in requested /\ Coming(n)'
    BY <1>1 DEF Sent
  <2>1. \/ Misses >= round + 1
        \/ Misses >= round /\ \A n \in unfinished : n \in requested /\ Coming(n)
    BY DEF FinishInv, Rounds, Sent
  <2>2. CASE Misses' >= Misses + 1
    BY <1>0, <2>1, <2>2
  <2>3. CASE Misses' = Misses
    BY <1>0, <1>3, <2>1, <2>3
  <2> QED
    BY <1>2, <2>2, <2>3
<1>6. Results'
  BY <1>1 DEF FinishInv, Rounds, Results
<1>7. Asked'
  <2> SUFFICES ASSUME rpc \in {"ask", "collect"} PROVE Answering'
    BY DEF Asked
  <2>0. Answering
    BY DEF FinishInv, Rounds, Asked
  <2>1. ASSUME NEW n \in Node, Complete(n), Misses' = Misses PROVE Complete(n)'
    BY <1>0, <1>2, <2>1 DEF Complete, Grows, Everything, TheFirmware
  <2>2. Misses' >= round \/ (Misses' + 1 >= round /\ \A n \in unfinished : Complete(n)')
    <3>1. Misses >= round \/ (Misses + 1 >= round /\ \A n \in unfinished : Complete(n))
      BY <2>0 DEF Answering
    <3>2. CASE Misses' >= Misses + 1
      BY <1>0, <3>1, <3>2
    <3>3. CASE Misses' = Misses
      BY <1>0, <2>1, <3>1, <3>3
    <3> QED
      BY <1>2, <3>2, <3>3
  <2>3. ASSUME asking # {} PROVE Misses' + 1 >= round + attempt
    <3>1. Misses + 1 >= round + attempt
      BY <2>0, <2>3 DEF Answering
    <3>2. Misses \in Int /\ Misses' \in Int /\ Misses' >= Misses /\ round \in Int /\ attempt \in Int
      BY <1>0
    <3>3. PICK a \in Int : a = Misses
      BY <3>2
    <3>4. PICK b \in Int : b = Misses'
      BY <3>2
    <3>5. PICK c \in Int : c = round + attempt
      BY <3>2
    <3>6. a + 1 >= c /\ b >= a
      BY <3>1, <3>2, <3>3, <3>4, <3>5
    <3> QED
      BY <3>4, <3>5, <3>6
  <2>4. ASSUME rpc = "collect", NEW n \in asking PROVE Pending(n)' \/ Misses' >= round + attempt
    <3>1. /\ Misses + 1 >= round + attempt
          /\ Pending(n) \/ Misses >= round + attempt
      BY <2>0, <2>4 DEF Answering
    <3>2. CASE Misses' >= Misses + 1
      BY <1>0, <3>1, <3>2
    <3>3. CASE Misses' = Misses
      <4>1. Pending(n) => Pending(n)'
        BY <1>0, <1>2, <2>4, <3>3 DEF Grows
      <4> QED
        BY <1>0, <3>1, <3>3, <4>1
    <3> QED
      BY <1>2, <3>2, <3>3
  <2>5. ASSUME NEW r \in Report, Flies(r)', ~ Finished(r), r.from \in unfinished
        PROVE  \/ Misses' >= round + 1
               \/ /\ Misses' >= round
                  /\ cfg'[r.from].name = TheFirmware /\ r.bits \subseteq cfg'[r.from].bits
    <3>0. r.from \in Node
      BY DEF Report
    <3>1. CASE Flies(r)
      <4>1. \/ Misses >= round + 1
            \/ /\ Misses >= round
               /\ cfg[r.from].name = TheFirmware /\ r.bits \subseteq cfg[r.from].bits
        BY <2>0, <2>5, <3>1 DEF Answering, Timely
      <4>2. CASE Misses' >= Misses + 1
        BY <1>0, <4>1, <4>2
      <4>3. CASE Misses' = Misses
        <5>1. cfg[r.from].name = TheFirmware =>
                cfg'[r.from].name = TheFirmware /\ cfg[r.from].bits \subseteq cfg'[r.from].bits
          BY <1>0, <1>2, <3>0, <4>3 DEF Grows
        <5> QED
          BY <1>0, <4>1, <4>3, <5>1
      <4> QED
        BY <1>2, <4>2, <4>3
    <3>2. CASE Answer(r)
      <4>1. /\ r.bits \subseteq cfg'[r.from].bits
            /\ Finished(r) <=> Everything \subseteq cfg'[r.from].bits
        BY <3>0, <3>2, AnswerSays DEF Steady
      <4>2. cfg'[r.from].name = TheFirmware
        BY <3>2 DEF Answer
      <4>3. ~ Complete(r.from)'
        BY <2>5, <4>1 DEF Complete, Everything, TheFirmware
      <4>4. Misses' >= round
        BY <2>2, <2>5, <4>3
      <4> QED
        BY <4>1, <4>2, <4>4
    <3> QED
      BY <2>5, <3>1, <3>2 DEF Steady, Moves
  <2>6. ASSUME NEW n \in requested PROVE Misses' >= round + 1 \/ (Misses' >= round /\ Needy(n)')
    <3>1. Misses >= round + 1 \/ (Misses >= round /\ Needy(n))
      BY <2>0, <2>6 DEF Answering
    <3>2. CASE Misses' >= Misses + 1
      BY <1>0, <3>1, <3>2
    <3>3. CASE Misses' = Misses
      <4>1. Needy(n) => Needy(n)'
        BY <1>0, <1>1, <1>2, <2>6, <3>3 DEF Needy, Grows, TheFirmware
      <4> QED
        BY <1>0, <3>1, <3>3, <4>1
    <3> QED
      BY <1>2, <3>2, <3>3
  <2>7. rpc = "ask" /\ asking # {} => Silent'
    BY <2>0 DEF Answering, Steady
  <2>8. /\ unfinished = asking \union requested
        /\ requested # {} <=> progress # Packet
    BY <2>0 DEF Answering
  <2>9. \A r \in Report : Flies(r)' => Timely(r)'
    BY <1>1, <2>5 DEF Timely, TheFirmware, Finished
  <2> QED
    BY <1>1, <2>2, <2>3, <2>4, <2>6, <2>7, <2>8, <2>9 DEF Answering
<1> QED
  BY <1>4, <1>5, <1>6, <1>7 DEF Rounds

-----------------------------------------------------------------------------
(* The sending task.                                                       *)

\* What a message to several does: all of them get it, or one loss is spent.
Delivered(dests, m) ==
  \A n \in dests : \E i \in 1 .. Len(down'[n]) : down'[n][i] = m
Stay(n) ==
  \A i \in 1 .. Len(down[n]) : \E j \in 1 .. Len(down'[n]) : down'[n][j] = down[n][i]
Came(dests, m, n) ==
  \A j \in 1 .. Len(down'[n]) :
    \/ \E i \in 1 .. Len(down[n]) : down'[n][j] = down[n][i]
    \/ n \in dests /\ down'[n][j] = m

\* Each is still there, and what is new is m.
Joined(s, t, m) ==
  /\ \A i \in 1 .. Len(s) : \E j \in 1 .. Len(s \o t) : (s \o t)[j] = s[i]
  /\ \A j \in 1 .. Len(s \o t) : (s \o t)[j] = m \/ \E i \in 1 .. Len(s) : (s \o t)[j] = s[i]
  /\ t # <<>> => \E j \in 1 .. Len(s \o t) : (s \o t)[j] = m
  /\ t = <<>> => s \o t = s

LEMMA Appended ==
  ASSUME NEW S, NEW s \in Seq(S), NEW m \in S, NEW t \in {<<>>, <<m>>, <<m, m>>}
  PROVE  Joined(s, t, m)
<1>0. t \in Seq(S)
  <2>1. <<>> \in Seq(S) /\ <<m>> \in Seq(S) /\ <<m, m>> \in Seq(S)
    OBVIOUS
  <2> QED
    BY <2>1
<1>1. Len(s) \in Nat /\ t \in Seq(S) /\ s \o t \in Seq(S)
  BY <1>0
<1>2. Len(s \o t) = Len(s) + Len(t) /\ Len(t) \in 0 .. 2
  OBVIOUS
<1>3. ASSUME NEW i \in 1 .. Len(s) PROVE i \in 1 .. Len(s \o t) /\ (s \o t)[i] = s[i]
  BY <1>1, <1>2
<1>4. ASSUME NEW j \in 1 .. Len(s \o t), j > Len(s) PROVE (s \o t)[j] = m
  <2>1. (s \o t)[j] = t[j - Len(s)] /\ j - Len(s) \in 1 .. Len(t)
    BY <1>1, <1>2, <1>4
  <2>2. \A k \in 1 .. Len(t) : t[k] = m
    OBVIOUS
  <2> QED
    BY <2>1, <2>2
<1>5. ASSUME NEW j \in 1 .. Len(s \o t)
      PROVE  (s \o t)[j] = m \/ \E i \in 1 .. Len(s) : (s \o t)[j] = s[i]
  <2>1. CASE j > Len(s)
    BY <1>4, <2>1
  <2>2. CASE j \in 1 .. Len(s)
    BY <1>3, <2>2
  <2> QED
    BY <1>1, <2>1, <2>2
<1>6. ASSUME t # <<>> PROVE \E j \in 1 .. Len(s \o t) : (s \o t)[j] = m
  <2>1. Len(t) >= 1
    BY <1>6
  <2>2. Len(s) + 1 \in 1 .. Len(s \o t)
    BY <1>1, <1>2, <2>1
  <2>3. PICK k \in 1 .. Len(s \o t) : k = Len(s) + 1
    BY <2>2
  <2>4. k > Len(s)
    BY <1>1, <2>3
  <2> QED
    BY <1>4, <2>4
<1> QED
  BY <1>1, <1>3, <1>5, <1>6 DEF Joined

LEMMA MulticastDoes ==
  ASSUME MeshTypeOK, Purse, NEW dests \in SUBSET Node, NEW m \in Message, Multicast(dests, m)
  PROVE  /\ Purse' /\ left'.send = left.send
         /\ Misses' \in Int
         /\ Misses' >= Misses + 1 \/ (Misses' = Misses /\ Delivered(dests, m))
         /\ \A n \in Node : Stay(n) /\ Came(dests, m, n)
<1> DEFINE cost(lost, twice) ==
             [what \in DOMAIN Budget |->
                IF what = "lose" THEN Cardinality(lost)
                ELSE IF what = "repeat" THEN Cardinality(twice) ELSE 0]
           copies(lost, twice, n) ==
             IF n \in twice THEN <<m, m>>
             ELSE IF n \in dests \ lost THEN <<m>> ELSE <<>>
<1>0. PICK lost \in SUBSET dests : \E twice \in SUBSET (dests \ lost) :
        /\ \A what \in DOMAIN Budget : cost(lost, twice)[what] =< left[what]
        /\ left' = [what \in DOMAIN Budget |-> left[what] - cost(lost, twice)[what]]
        /\ down' = [n \in Node |-> down[n] \o copies(lost, twice, n)]
  BY DEF Multicast
<1>1. PICK twice \in SUBSET (dests \ lost) :
        /\ \A what \in DOMAIN Budget : cost(lost, twice)[what] =< left[what]
        /\ left' = [what \in DOMAIN Budget |-> left[what] - cost(lost, twice)[what]]
        /\ down' = [n \in Node |-> down[n] \o copies(lost, twice, n)]
  BY <1>0
<1>2. Cardinality(lost) \in Nat /\ (lost # {} => Cardinality(lost) >= 1)
  <2>1. IsFiniteSet(lost)
    BY FS_Subset
  <2> QED
    BY <2>1, FS_CardinalityType, FS_EmptySet
<1>3. /\ left["lose"] \in Nat /\ left["restart"] \in Nat
      /\ Budget["lose"] \in Nat /\ Budget["restart"] \in Nat
      /\ left["halt"] = 0 /\ left["stop"] = 0 /\ left["send"] \in Nat
      /\ left["lose"] =< Budget["lose"] /\ left["restart"] =< Budget["restart"]
  BY DEF MeshTypeOK, Purse
<1>4. /\ left'["lose"] = left["lose"] - Cardinality(lost)
      /\ left'["restart"] = left["restart"] /\ left'["halt"] = left["halt"]
      /\ left'["stop"] = left["stop"] /\ left'["send"] = left["send"]
  <2>1. /\ left'["lose"] = left["lose"] - Cardinality(lost)
        /\ left'["restart"] = left["restart"] - 0 /\ left'["halt"] = left["halt"] - 0
        /\ left'["stop"] = left["stop"] - 0 /\ left'["send"] = left["send"] - 0
    BY <1>1
  <2> QED
    BY <1>3, <2>1
<1>5. Purse' /\ left'.send = left.send /\ Misses' = Misses + Cardinality(lost)
      /\ Misses \in Nat
  <2>1. Purse' /\ left'.send = left.send
    BY <1>2, <1>3, <1>4 DEF Purse
  <2>2. Misses' = Misses + Cardinality(lost) /\ Misses \in Nat
    BY <1>2, <1>3, <1>4 DEF Misses
  <2> QED
    BY <2>1, <2>2
<1> HIDE DEF cost
<1>6. ASSUME NEW n \in Node
      PROVE  /\ Stay(n) /\ Came(dests, m, n)
             /\ n \in dests \ lost => \E i \in 1 .. Len(down'[n]) : down'[n][i] = m
  <2>1. down[n] \in Seq(Message)
    BY DEF MeshTypeOK
  <2>2. copies(lost, twice, n) \in {<<>>, <<m>>, <<m, m>>}
        /\ (n \in dests \ lost => copies(lost, twice, n) # <<>>)
        /\ (n \notin dests => copies(lost, twice, n) = <<>>)
    OBVIOUS
  <2> HIDE DEF copies
  <2>3. PICK t \in {<<>>, <<m>>, <<m, m>>} : t = copies(lost, twice, n)
    BY <2>2
  <2>4. PICK s \in Seq(Message) : s = down[n]
    BY <2>1
  <2>5. down'[n] = s \o t
    BY <1>1, <2>3, <2>4
  <2>6. Joined(s, t, m)
    <3>1. s \in Seq(Message) /\ m \in Message /\ t \in {<<>>, <<m>>, <<m, m>>}
      BY <2>3, <2>4
    <3> QED
      BY ONLY <3>1, Appended
  <2>7. Stay(n)
    <3>1. \A i \in 1 .. Len(s) : \E j \in 1 .. Len(s \o t) : (s \o t)[j] = s[i]
      BY <2>6 DEF Joined
    <3> QED
      BY ONLY <2>4, <2>5, <3>1 DEF Stay
  <2>8. Came(dests, m, n)
    <3>1. CASE n \in dests
      <4>1. \A j \in 1 .. Len(s \o t) :
              (s \o t)[j] = m \/ \E i \in 1 .. Len(s) : (s \o t)[j] = s[i]
        BY <2>6 DEF Joined
      <4> QED
        BY ONLY <2>4, <2>5, <3>1, <4>1 DEF Came
    <3>2. CASE n \notin dests
      <4>1. down'[n] = down[n]
        BY <2>2, <2>3, <2>4, <2>5, <2>6, <3>2 DEF Joined
      <4> QED
        BY <4>1 DEF Came
    <3> QED
      BY <3>1, <3>2
  <2>9. n \in dests \ lost => \E i \in 1 .. Len(down'[n]) : down'[n][i] = m
    BY <2>2, <2>3, <2>5, <2>6 DEF Joined
  <2> QED
    BY <2>7, <2>8, <2>9
<1>7. Misses' \in Int /\ (Misses' >= Misses + 1 \/ (Misses' = Misses /\ Delivered(dests, m)))
  <2>1. CASE lost = {}
    <3>1. Cardinality(lost) = 0
      BY <2>1, FS_EmptySet
    <3>2. Delivered(dests, m)
      BY <1>6, <2>1 DEF Delivered
    <3> QED
      BY <1>5, <3>1, <3>2
  <2>2. CASE lost # {}
    BY <1>2, <1>5, <2>2
  <2> QED
    BY <2>1, <2>2
<1> QED
  BY <1>5, <1>6, <1>7

\* What every step of the sending task starts from.
LEMMA SenderStarts ==
  ASSUME FinishTerms, FinishInv
  PROVE  /\ Misses \in Nat /\ Misses + 1 < Retry /\ Retry \in Nat
         /\ round \in 0 .. Retry /\ attempt \in 0 .. Attempts /\ seq \in Nat
         /\ unfinished \subseteq Node /\ asking \subseteq Node /\ requested \subseteq Node
         /\ successed \subseteq Node /\ progress \subseteq Packet
         /\ rpc # "idle" => image.name = TheFirmware
         /\ queue \in Seq(Report) /\ NodeTypeOK /\ MeshTypeOK
<1>1. Misses \in Nat /\ Misses =< Budget.lose + Budget.restart
  BY MissesType DEF FinishInv, Base, MeshInv
<1>2. Budget["lose"] + Budget["restart"] + 1 < Retry /\ Retry \in Nat
      /\ Budget["lose"] \in Nat /\ Budget["restart"] \in Nat
  BY DEF FinishTerms
<1>3. Misses + 1 < Retry
  BY <1>1, <1>2
<1>4. ListTypeOK /\ MeshTypeOK /\ NodeTypeOK /\ Places
  BY DEF FinishInv, Base, MeshInv, NodeInv
<1>5. rpc # "idle" => image.name = TheFirmware
  BY <1>4, OnlyFirmware DEF Places
<1> QED
  BY <1>1, <1>2, <1>3, <1>4, <1>5 DEF ListTypeOK, MeshTypeOK

\* A step of it that sends nothing.
Still ==
  /\ UNCHANGED <<cfg, nvs, flash, boot, fin, task, up, down, left, image, inhand, spc, queueState>>
  /\ queue' = queue \/ queue' = <<>> \/ (queue # <<>> /\ queue' = Tail(queue))

LEMMA FewerFly ==
  ASSUME queue \in Seq(Report), Still, NEW r, Flies(r)'
  PROVE  Flies(r)
<1>1. CASE queue' = queue \/ queue' = <<>>
  BY <1>1 DEF Still, Flies
<1>2. CASE queue # <<>> /\ queue' = Tail(queue)
  <2>1. \A i \in 1 .. Len(Tail(queue)) : \E j \in 1 .. Len(queue) : Tail(queue)[i] = queue[j]
    BY <1>2, HeadOrTail
  <2> QED
    BY <1>2, <2>1 DEF Still, Flies
<1> QED
  BY <1>1, <1>2 DEF Still

LEMMA StillKeeps ==
  ASSUME FinishTerms, FinishInv, Still
  PROVE  /\ Purse' /\ RootImage' /\ DataFine' /\ Sayings'
         /\ \A n \in Node : Fine(n)'
         /\ Misses' = Misses
<1>1. \A n \in Node : Fine(n)'
  BY OthersFine DEF Still, FinishInv, Base
<1>2. Purse' /\ RootImage' /\ DataFine' /\ Misses' = Misses
  BY DEF Still, FinishInv, Base, Purse, RootImage, Whole, DataFine, Everything, Misses
<1>3. Sayings'
  <2> SUFFICES ASSUME NEW r \in Report, Flies(r)' PROVE Says(r)'
    BY DEF Sayings
  <2>1. Flies(r)
    BY SenderStarts, FewerFly
  <2>2. Says(r)
    BY <2>1 DEF FinishInv, Sayings
  <2> QED
    BY <2>2 DEF Says, Still, Everything, TheFirmware, Finished
<1> QED
  BY <1>1, <1>2, <1>3

\* The report at the head of the queue is a true one.
LEMMA HeadSays ==
  ASSUME FinishTerms, FinishInv, queue # <<>>
  PROVE  /\ Head(queue) \in Report /\ Head(queue).from \in Node
         /\ Flies(Head(queue)) /\ Says(Head(queue)) /\ ~ Head(queue).stop
<1>1. queue \in Seq(Report)
  BY SenderStarts
<1>2. Head(queue) \in Report /\ \E j \in 1 .. Len(queue) : Head(queue) = queue[j]
  BY <1>1, HeadOrTail
<1>3. Flies(Head(queue)) /\ Head(queue).from \in Node
  BY <1>2 DEF Flies, Report
<1>4. Says(Head(queue))
  BY <1>2, <1>3 DEF FinishInv, Sayings
<1> QED
  BY <1>2, <1>3, <1>4 DEF Says

LEMMA ComingStays ==
  ASSUME UNCHANGED <<cfg, task, down>>, NEW n \in Node, Coming(n),
         Ahead \intersect Everything \subseteq Ahead'
  PROVE  Coming(n)'
<1>1. Got(n)' = Got(n)
  BY DEF Got, Written, OnWay, At
<1> QED
  BY <1>1 DEF Coming, Everything, TheFirmware

Turns == Calling' /\ RootsAsked' /\ Rounds'

LEMMA RoundBeginTurns ==
  ASSUME FinishTerms, FinishInv, RoundBegin
  PROVE  Still /\ Turns
<1>1. /\ rpc = "round" /\ running /\ spc = "none" /\ Misses \in Nat /\ Misses + 1 < Retry
      /\ Retry \in Nat /\ round \in 0 .. Retry /\ unfinished \subseteq Node
  BY SenderStarts DEF RoundBegin, FinishInv, Calling
<1>2. /\ Still /\ UNCHANGED <<cfg, task, down, left, asking, unfinished, successed,
                            round, seq, running>>
  BY DEF RoundBegin, Still, nodeVars
<1>3. Misses >= round \/ (Misses + 1 >= round /\ \A n \in unfinished : Coming(n))
  BY <1>1 DEF FinishInv, Rounds, Prepared
<1>4. rpc' = IF unfinished # {} THEN "drain" ELSE "exit"
  BY <1>1, <1>3 DEF RoundBegin
<1>5. Misses' = Misses
  BY <1>2, StillKeeps
<1>6. Ahead = {} /\ Ahead' = {}
  BY <1>1, <1>4 DEF Ahead
<1>7. \A n \in unfinished : Coming(n) => Coming(n)'
  BY <1>1, <1>2, <1>6, ComingStays
<1>8. Prepared'
  BY <1>2, <1>3, <1>5, <1>7 DEF Prepared
<1>9. Results'
  BY <1>1, <1>2, <1>4 DEF FinishInv, Rounds, Results
<1>10. Asked' /\ Sent'
  BY <1>4 DEF Asked, Sent
<1>11. Calling' /\ RootsAsked'
  BY <1>1, <1>2, <1>4 DEF FinishInv, Base, Calling, RootsAsked, Still
<1> QED
  BY <1>2, <1>8, <1>9, <1>10, <1>11 DEF Turns, Rounds

LEMMA DrainReportTurns ==
  ASSUME FinishTerms, FinishInv, DrainReport
  PROVE  Still /\ Turns
<1> DEFINE r == Head(queue)
<1>1. /\ rpc = "drain" /\ running /\ spc = "none" /\ Misses \in Nat /\ unfinished \subseteq Node
      /\ queueState = "live"
  BY SenderStarts DEF DrainReport, FinishInv, Calling
<1>2. /\ Still /\ UNCHANGED <<cfg, task, down, left, asking, round, seq, running>>
      /\ queue # <<>>
  BY DEF DrainReport, Still, nodeVars
<1>3. ~ r.stop
  BY <1>2, HeadSays
<1>4. /\ unfinished' = IF Finished(r) THEN unfinished \ {r.from} ELSE unfinished
      /\ successed' = IF Finished(r) /\ r.from \in unfinished
                     THEN successed \union {r.from} ELSE successed
      /\ rpc' = IF unfinished' = {} THEN "exit" ELSE "drain"
  BY <1>3 DEF DrainReport
<1> HIDE DEF r
<1>5. Misses' = Misses
  BY <1>2, StillKeeps
<1>6. Ahead = {} /\ Ahead' = {}
  BY <1>1, <1>4 DEF Ahead
<1>7. \A n \in unfinished' : Coming(n) => Coming(n)'
  BY <1>1, <1>2, <1>4, <1>6, ComingStays
<1>8. Misses >= round \/ (Misses + 1 >= round /\ \A n \in unfinished : Coming(n))
  BY <1>1 DEF FinishInv, Rounds, Prepared
<1>9. unfinished' \subseteq unfinished
  BY <1>4
<1>10. Prepared'
  BY <1>2, <1>5, <1>7, <1>8, <1>9 DEF Prepared
<1>11. Results'
  <2>1. unfinished \union successed # {} /\ seq = 0
    BY <1>1 DEF FinishInv, Rounds, Results
  <2>2. unfinished' \union successed' # {}
    BY <1>4, <2>1
  <2> QED
    BY <1>2, <1>4, <2>1, <2>2 DEF Results
<1>12. Asked' /\ Sent'
  BY <1>4 DEF Asked, Sent
<1>13. Calling' /\ RootsAsked'
  BY <1>1, <1>2, <1>4 DEF FinishInv, Base, Calling, RootsAsked, Still
<1> QED
  BY <1>2, <1>10, <1>11, <1>12, <1>13 DEF Turns, Rounds

\* Nothing is under way when a wait has timed out.
LEMMA SilenceAtTimeout ==
  ASSUME FinishTerms, FinishInv, TimesOut
  PROVE  /\ Silent
         /\ \A r \in Report : ~ Flies(r)
         /\ \A n \in Node : ~ Pending(n) /\ Got(n) = cfg[n].bits
<1>1. Silent
  BY DEF TimesOut, Silent, FinishTerms
<1>2. /\ inhand = NoReport /\ Len(queue) = 0
      /\ \A n \in Node : Len(down[n]) = 0 /\ Len(up[n]) = 0 /\ task[n].step = "idle"
  BY <1>1 DEF Silent, Quiet, At
<1>3. \A r \in Report : ~ Flies(r)
  BY <1>2, NoReportIsNone DEF Flies
<1>4. ASSUME NEW n \in Node PROVE ~ Pending(n) /\ Got(n) = cfg[n].bits
  <2>1. ~ Pending(n)
    BY <1>2, <1>3 DEF Pending, At
  <2>2. Written(n) = {} /\ OnWay(n) = {}
    BY <1>2 DEF Written, OnWay, At
  <2> QED
    BY <2>1, <2>2 DEF Got
<1> QED
  BY <1>1, <1>3, <1>4

LEMMA DrainTimeoutTurns ==
  ASSUME FinishTerms, FinishInv, DrainTimeout
  PROVE  Still /\ Turns
<1>1. /\ rpc = "drain" /\ running /\ spc = "none" /\ Misses \in Nat /\ unfinished \subseteq Node
      /\ queueState = "live" /\ TimesOut /\ round \in Nat /\ requested = {}
  BY SenderStarts DEF DrainTimeout, FinishInv, Calling, ListInv
<1>2. /\ Still /\ UNCHANGED <<cfg, task, up, down, left, inhand, queue, round, seq, running, unfinished,
                             successed, requested>>
      /\ asking' = unfinished /\ progress' = Packet /\ attempt' = 0 /\ rpc' = "ask"
  BY DEF DrainTimeout, Still, nodeVars
<1>3. /\ Silent
      /\ \A r \in Report : ~ Flies(r)
      /\ \A n \in Node : Got(n) = cfg[n].bits
  BY <1>1, SilenceAtTimeout
<1>4. Misses' = Misses
  BY <1>2, StillKeeps
<1>5. Misses >= round \/ (Misses + 1 >= round /\ \A n \in unfinished : Coming(n))
  BY <1>1 DEF FinishInv, Rounds, Prepared
<1>6. \A n \in unfinished : Coming(n) => Complete(n)'
  <2> SUFFICES ASSUME NEW n \in unfinished, Coming(n) PROVE Complete(n)'
    OBVIOUS
  <2>1. Ahead = {} /\ Got(n) = cfg[n].bits
    BY <1>1, <1>3 DEF Ahead
  <2> QED
    BY <1>2, <2>1 DEF Coming, Complete, Everything, TheFirmware
<1>7. Silent' /\ \A r \in Report : ~ Flies(r)'
  BY <1>2, <1>3 DEF Silent, Quiet, At, Flies
<1>8. Answering'
  <2>1. Misses' >= round' \/ (Misses' + 1 >= round' /\ \A n \in unfinished' : Complete(n)')
    BY <1>2, <1>4, <1>5, <1>6
  <2>2. Misses' + 1 >= round' + attempt'
    BY <1>1, <1>2, <1>4, <1>5
  <2>3. \A r \in Report : Flies(r)' => Timely(r)'
    BY <1>7
  <2> QED
    BY <1>1, <1>2, <1>7, <2>1, <2>2, <2>3 DEF Answering
<1>9. Prepared' /\ Asked' /\ Sent'
  BY <1>2, <1>8 DEF Prepared, Asked, Sent
<1>10. Results'
  BY <1>1, <1>2 DEF FinishInv, Rounds, Results
<1>11. Calling' /\ RootsAsked'
  BY <1>1, <1>2 DEF FinishInv, Base, Calling, RootsAsked, Still
<1> QED
  BY <1>2, <1>9, <1>10, <1>11 DEF Turns, Rounds

LEMMA CollectReportTurns ==
  ASSUME FinishTerms, FinishInv, CollectReport
  PROVE  Still /\ Turns
<1> DEFINE r == Head(queue)
           n == r.from
<1>1. /\ rpc = "collect" /\ running /\ spc = "none"
      /\ Misses \in Nat /\ round \in Nat /\ attempt \in Nat
      /\ unfinished \subseteq Node /\ asking \subseteq Node /\ requested \subseteq Node
      /\ queueState = "live" /\ progress \subseteq Packet /\ queue \in Seq(Report)
      /\ asking \intersect requested = {} /\ asking \subseteq unfinished
  <2>1. rpc = "collect"
    BY DEF CollectReport
  <2>2. running /\ spc = "none" /\ queueState = "live"
    BY <2>1 DEF FinishInv, Calling
  <2>3. asking \intersect requested = {} /\ asking \subseteq unfinished
    BY DEF FinishInv, ListInv, ListsAgree
  <2> QED
    BY <2>1, <2>2, <2>3, SenderStarts
<1>2. /\ Still /\ UNCHANGED <<cfg, task, down, up, inhand, left, round, seq, running, attempt, rpc>>
      /\ queue # <<>> /\ queue' = Tail(queue)
  BY DEF CollectReport, Still, nodeVars
<1>3. r \in Report /\ n \in Node /\ Flies(r) /\ Says(r) /\ ~ r.stop
  BY <1>2, HeadSays
<1>4. /\ asking' = asking \ {n}
      /\ unfinished' = IF n \in asking /\ Finished(r) THEN unfinished \ {n} ELSE unfinished
      /\ successed' = IF n \in asking /\ Finished(r) THEN successed \union {n} ELSE successed
      /\ requested' = IF n \in asking /\ ~ Finished(r) THEN requested \union {n} ELSE requested
      /\ progress' = IF n \in asking /\ ~ Finished(r) THEN progress \intersect r.bits ELSE progress
  <2> HIDE DEF r
  <2>1. n \in asking => n \in unfinished
    BY <1>1
  <2> QED
    BY <1>3, <2>1 DEF CollectReport, AskingAfter, ProgressAfter, r
<1>5. \A i \in 1 .. Len(queue) : queue[i] = r \/ \E j \in 1 .. Len(queue') : queue'[j] = queue[i]
  <2>1. \A i \in 1 .. Len(queue) :
          queue[i] = Head(queue) \/ \E j \in 1 .. Len(Tail(queue)) : Tail(queue)[j] = queue[i]
    BY <1>1, <1>2, HeadOrTail
  <2> QED
    BY <1>2, <2>1
<1> HIDE DEF r
<1>6. Misses' = Misses
  BY <1>2, StillKeeps
<1>7. Answering
  BY <1>1 DEF FinishInv, Rounds, Asked
<1>8. Misses >= round \/ (Misses + 1 >= round /\ \A m \in unfinished' : Complete(m)')
  <2>1. \A m \in Node : Complete(m)' = Complete(m)
    BY <1>2 DEF Complete, Everything, TheFirmware
  <2>2. unfinished' \subseteq unfinished
    BY <1>4
  <2> QED
    BY <1>1, <1>7, <2>1, <2>2 DEF Answering
<1>9. asking' # {} => Misses + 1 >= round + attempt
  BY <1>4, <1>7 DEF Answering
<1>10. ASSUME NEW m \in asking' PROVE Pending(m)' \/ Misses >= round + attempt
  <2>1. m \in asking /\ m # n
    BY <1>4, <1>10
  <2>2. ASSUME Pending(m) PROVE Pending(m)'
    <3>1. ASSUME NEW q \in Report, Flies(q), q.from = m PROVE Flies(q)'
      <4>1. q # r
        BY <2>1, <3>1
      <4> QED
        BY <1>2, <1>5, <3>1, <4>1 DEF Flies
    <3> QED
      BY <1>2, <2>2, <3>1 DEF Pending, At
  <2> QED
    BY <1>1, <1>7, <2>1, <2>2 DEF Answering
<1>11. ASSUME NEW q \in Report, Flies(q)' PROVE Timely(q)'
  <2>1. Flies(q)
    BY <1>1, <1>2, <1>11, FewerFly
  <2>2. Timely(q)
    BY <1>7, <2>1 DEF Answering
  <2>3. unfinished' \subseteq unfinished
    BY <1>4
  <2> QED
    BY <1>2, <1>6, <2>2, <2>3 DEF Timely, Finished, TheFirmware
<1>12. unfinished' = asking' \union requested'
  <2>1. unfinished = asking \union requested
    BY <1>7 DEF Answering
  <2> QED
    BY <1>1, <1>4, <2>1
<1>13. ASSUME NEW m \in requested' PROVE Misses >= round + 1 \/ (Misses >= round /\ Needy(m)')
  <2>1. CASE m \in requested
    <3>1. Misses >= round + 1 \/ (Misses >= round /\ Needy(m))
      BY <1>7, <2>1 DEF Answering
    <3>2. progress' \subseteq progress
      BY <1>4
    <3> QED
      BY <1>2, <3>1, <3>2 DEF Needy, TheFirmware
  <2>2. CASE m \notin requested
    <3>1. m = n /\ n \in asking /\ ~ Finished(r) /\ progress' \subseteq r.bits
      BY <1>4, <1>13, <2>2
    <3>2. \/ Misses >= round + 1
          \/ /\ Misses >= round
             /\ cfg[n].name = TheFirmware /\ r.bits \subseteq cfg[n].bits
      BY <1>1, <1>3, <1>7, <3>1 DEF Answering, Timely
    <3>3. n \notin RootNode
      BY <1>3, <3>1 DEF Says
    <3> QED
      BY <1>2, <3>1, <3>2, <3>3 DEF Needy, TheFirmware
  <2> QED
    BY <2>1, <2>2
<1>14. requested' # {} <=> progress' # Packet
  <2>1. requested # {} <=> progress # Packet
    BY <1>7 DEF Answering
  <2>2. CASE n \in asking /\ ~ Finished(r)
    <3>1. ~ (Everything \subseteq r.bits) /\ Everything \subseteq Packet
      BY <1>3, <2>2, OnlyFirmware DEF Says
    <3>2. progress' # Packet
      BY <1>4, <2>2, <3>1
    <3> QED
      BY <1>4, <2>2, <3>2
  <2> QED
    BY <1>4, <2>1, <2>2
<1>15. Answering'
  BY <1>1, <1>2, <1>6, <1>8, <1>9, <1>10, <1>11, <1>12, <1>13, <1>14 DEF Answering
<1>16. Results'
  <2>1. unfinished \union successed # {} /\ seq = 0
    BY <1>1 DEF FinishInv, Rounds, Results
  <2>2. unfinished' \union successed' # {}
    BY <1>4, <2>1
  <2> QED
    BY <1>1, <1>2, <2>1, <2>2 DEF Results
<1>17. Prepared' /\ Asked' /\ Sent'
  BY <1>1, <1>2, <1>15 DEF Prepared, Asked, Sent
<1>18. Calling'
  BY <1>1, <1>2 DEF FinishInv, Calling, Still
<1>19. RootsAsked'
  <2> SUFFICES ASSUME NEW k \in RootNode, NEW i \in 1 .. Len(down[k]), cfg[k] = Empty,
                      down[k][i].type = "status"
               PROVE  k \in asking'
    BY <1>1, <1>2 DEF RootsAsked
  <2>1. k \in asking
    BY DEF FinishInv, Base, RootsAsked
  <2>2. k # n
    BY <1>3, OnlyFirmware DEF Says, Empty
  <2> QED
    BY <1>4, <2>1, <2>2
<1> QED
  BY <1>2, <1>16, <1>17, <1>18, <1>19 DEF Turns, Rounds

LEMMA CollectEndTurns ==
  ASSUME FinishTerms, FinishInv, CollectEnd
  PROVE  Still /\ Turns
<1>1. /\ rpc = "collect" /\ running /\ spc = "none"
      /\ Misses \in Nat /\ round \in Nat /\ attempt \in Nat
      /\ unfinished \subseteq Node /\ asking \subseteq Node /\ requested \subseteq Node
      /\ queueState = "live" /\ queue \in Seq(Report) /\ (asking = {} \/ TimesOut)
  BY SenderStarts DEF CollectEnd, FinishInv, Calling
<1>2. /\ Still /\ UNCHANGED <<cfg, task, down, up, inhand, queue, left, round, seq, running, asking,
                             unfinished, successed, requested, progress>>
      /\ rpc' = "ask" /\ attempt' = attempt + 1
  BY DEF CollectEnd, Still, nodeVars
<1>3. Misses' = Misses
  BY <1>2, StillKeeps
<1>4. Answering
  BY <1>1 DEF FinishInv, Rounds, Asked
<1>5. asking # {} => Silent /\ Misses >= round + attempt
  <2> SUFFICES ASSUME asking # {} PROVE Silent /\ Misses >= round + attempt
    OBVIOUS
  <2>1. Silent /\ \A n \in Node : ~ Pending(n)
    BY <1>1, SilenceAtTimeout
  <2>2. PICK n \in Node : n \in asking
    BY <1>1
  <2>3. Misses >= round + attempt
    BY <1>1, <1>4, <2>1, <2>2 DEF Answering
  <2> QED
    BY <2>1, <2>3
<1>6. Answering'
  <2>1. Misses >= round \/ (Misses + 1 >= round /\ \A n \in unfinished : Complete(n)')
    BY <1>2, <1>4 DEF Answering, Complete, Everything, TheFirmware
  <2>2. asking # {} => Misses + 1 >= round + (attempt + 1)
    BY <1>1, <1>5
  <2>3. \A r \in Report : Flies(r)' => Timely(r)'
    BY <1>1, <1>2, <1>3, <1>4, FewerFly DEF Answering, Timely, Finished, TheFirmware
  <2>4. asking # {} => Silent'
    BY <1>2, <1>5 DEF Silent, Quiet, At
  <2>5. \A n \in requested : Misses >= round + 1 \/ (Misses >= round /\ Needy(n)')
    BY <1>2, <1>4 DEF Answering, Needy, TheFirmware
  <2>6. /\ unfinished = asking \union requested
        /\ requested # {} <=> progress # Packet
    BY <1>4 DEF Answering
  <2> QED
    BY <1>2, <1>3, <2>1, <2>2, <2>3, <2>4, <2>5, <2>6 DEF Answering
<1>7. Prepared' /\ Asked' /\ Sent'
  BY <1>2, <1>6 DEF Prepared, Asked, Sent
<1>8. Results'
  BY <1>1, <1>2 DEF FinishInv, Rounds, Results
<1>9. Calling'
  BY <1>1, <1>2 DEF FinishInv, Calling, Still
<1>10. RootsAsked'
  <2> SUFFICES ASSUME NEW k \in RootNode, NEW i \in 1 .. Len(down[k]), cfg[k] = Empty,
                      down[k][i].type = "status"
               PROVE  FALSE
    BY <1>2 DEF RootsAsked
  <2>1. k \in asking /\ k \in Node
    BY DEF FinishInv, Base, RootsAsked
  <2>2. down[k] = <<>>
    BY <1>5, <2>1 DEF Silent, Quiet
  <2> QED
    BY <2>2
<1> QED
  BY <1>2, <1>7, <1>8, <1>9, <1>10 DEF Turns, Rounds

LEMMA AskEndTurns ==
  ASSUME FinishTerms, FinishInv, AskEnd
  PROVE  Still /\ Turns
<1>1. /\ rpc = "ask" /\ running /\ spc = "none"
      /\ Misses \in Nat /\ round \in Nat /\ attempt \in Nat
      /\ unfinished \subseteq Node /\ asking \subseteq Node /\ requested \subseteq Node
      /\ queueState = "live" /\ (asking = {} \/ attempt = Attempts) /\ seq = 0
      /\ progress \subseteq Packet
  BY SenderStarts DEF AskEnd, FinishInv, Calling, Rounds, Results
<1>2. /\ Still /\ UNCHANGED <<cfg, task, down, up, inhand, queue, left, round, seq, running,
                             unfinished, successed, requested, progress>>
      /\ rpc' = IF asking = {} /\ progress = Packet THEN "exit" ELSE "send"
      /\ asking' = {}
  BY DEF AskEnd, Still, nodeVars
<1>3. Misses' = Misses
  BY <1>2, StillKeeps
<1>4. Answering
  BY <1>1 DEF FinishInv, Rounds, Asked
<1>5. unfinished = asking \union requested /\ (requested # {} <=> progress # Packet)
  BY <1>4 DEF Answering
<1>6. Results'
  <2>1. rpc' = "exit" => unfinished = {}
    BY <1>2, <1>5
  <2> QED
    BY <1>1, <1>2, <2>1 DEF FinishInv, Rounds, Results
<1>7. Sent'
  <2> SUFFICES ASSUME rpc' = "send"
               PROVE  \/ Misses >= round + 1
                      \/ Misses >= round /\ \A n \in unfinished : n \in requested /\ Coming(n)'
    BY <1>2, <1>3 DEF Sent
  <2>1. CASE asking # {}
    <3>1. Misses + 1 >= round + attempt
      BY <1>4, <2>1 DEF Answering
    <3>2. attempt >= 2
      BY <1>1, <2>1 DEF FinishTerms
    <3> QED
      BY <1>1, <3>1, <3>2
  <2>2. CASE asking = {}
    <3>1. unfinished = requested /\ requested # {}
      BY <1>2, <1>5, <2>2
    <3>2. \A n \in requested : Misses >= round + 1 \/ (Misses >= round /\ Needy(n))
      BY <1>4 DEF Answering
    <3>3. ASSUME NEW n \in requested, Needy(n) PROVE Coming(n)'
      <4>1. /\ n \notin RootNode /\ cfg'[n].name = TheFirmware /\ progress \subseteq cfg[n].bits
        BY <1>2, <3>3 DEF Needy
      <4>2. Ahead' = Packet \ progress
        <5>1. Ahead' = {p \in Packet : p >= 0 /\ p \notin progress}
          BY <1>1, <1>2 DEF Ahead
        <5> QED
          BY <5>1 DEF Packet
      <4>3. Everything \subseteq cfg[n].bits \union Ahead'
        BY <4>1, <4>2, OnlyFirmware
      <4>4. cfg[n].bits \subseteq Got(n)'
        BY <1>2 DEF Got
      <4>5. Everything \subseteq Got(n)' \union Ahead'
        BY <4>3, <4>4
      <4> QED
        BY <4>1, <4>5 DEF Coming, Everything, TheFirmware
    <3> QED
      BY <3>1, <3>2, <3>3
  <2> QED
    BY <2>1, <2>2
<1>8. Prepared' /\ Asked'
  BY <1>2 DEF Prepared, Asked
<1>9. Calling' /\ RootsAsked'
  BY <1>1, <1>2 DEF FinishInv, Base, Calling, RootsAsked, Still
<1> QED
  BY <1>2, <1>6, <1>7, <1>8, <1>9 DEF Turns, Rounds

LEMMA SendStepTurns ==
  ASSUME FinishTerms, FinishInv, SendEnd \/ SendSkip \/ SendPoll \/ PollReport \/ SendReadFails
  PROVE  Still /\ Turns
<1>1. /\ rpc \in {"send", "poll"} /\ running /\ spc = "none" /\ Misses \in Nat /\ round \in Nat
      /\ unfinished \subseteq Node /\ queueState = "live" /\ seq \in Nat
      /\ image.name = TheFirmware
  BY SenderStarts DEF SendEnd, SendSkip, SendPoll, PollReport, SendReadFails, FinishInv, Calling
<1>2. Still /\ UNCHANGED <<cfg, task, down, left, running, asking, successed, unfinished>>
      /\ (rpc' \in {"send", "poll"} => round' = round /\ requested' = requested)
      /\ (rpc' = "exit" => unfinished = {})
      /\ (rpc' \in {"send", "poll"} => Ahead' = Ahead)
      /\ (rpc' \notin {"send", "poll", "exit"} => SendEnd)
      /\ rpc' \in {"send", "poll", "exit", "round"}
  <2>1. CASE SendEnd
    BY <2>1 DEF SendEnd, Still, nodeVars
  <2>2. CASE SendSkip
    <3>1. rpc' = rpc /\ seq' = seq + 1 /\ seq \in progress /\ progress' = progress
      BY <2>2 DEF SendSkip
    <3>2. Ahead' = Ahead
      <4>1. Ahead = {p \in Packet : p >= seq /\ p \notin progress}
        BY <1>1 DEF Ahead
      <4>2. Ahead' = {p \in Packet : p >= seq + 1 /\ p \notin progress}
        BY <1>1, <3>1 DEF Ahead
      <4>3. \A p \in Packet : p \notin progress => (p >= seq <=> p >= seq + 1)
        BY <1>1, <3>1 DEF Packet
      <4> QED
        BY <4>1, <4>2, <4>3
    <3> QED
      BY <1>1, <2>2, <3>1, <3>2 DEF SendSkip, Still, nodeVars
  <2>3. CASE SendPoll
    BY <1>1, <2>3 DEF SendPoll, Still, nodeVars, locals, Ahead
  <2>4. CASE PollReport
    <3> DEFINE r == Head(queue)
    <3>1. queue # <<>>
      BY <2>4 DEF PollReport
    <3>2. r \in Report /\ ~ r.stop
      BY <3>1, HeadSays
    <3> HIDE DEF r
    <3>3. ~ DoneInPoll(r)
      BY <3>2, PollFindsNobody
    <3>4. /\ unfinished' = unfinished /\ requested' = requested /\ successed' = successed
          /\ rpc = "poll" /\ rpc' = IF unfinished = {} THEN "exit" ELSE "poll"
      BY <2>4, <3>2, <3>3 DEF PollReport, r
    <3>5. rpc' = "poll" => Ahead' = Ahead
      BY <2>4, <3>4 DEF PollReport, Ahead
    <3> QED
      BY <2>4, <3>1, <3>4, <3>5 DEF PollReport, Still, nodeVars
  <2>5. CASE SendReadFails
    BY <2>5 DEF SendReadFails, May, FinishTerms
  <2> QED
    BY <2>1, <2>2, <2>3, <2>4, <2>5
<1>3. Misses' = Misses
  BY <1>2, StillKeeps
<1>4. \/ Misses >= round + 1
      \/ Misses >= round /\ \A n \in unfinished : n \in requested /\ Coming(n)
  BY <1>1 DEF FinishInv, Rounds, Sent
<1>5. Sent'
  <2> SUFFICES ASSUME rpc' \in {"send", "poll"}
               PROVE  \/ Misses >= round + 1
                      \/ Misses >= round /\ \A n \in unfinished : n \in requested /\ Coming(n)'
    BY <1>2, <1>3 DEF Sent
  <2>1. \A n \in unfinished : Coming(n) => Coming(n)'
    BY <1>1, <1>2, ComingStays
  <2> QED
    BY <1>4, <2>1
<1>6. Prepared'
  <2> SUFFICES ASSUME rpc' \in {"round", "drain"}
               PROVE  Misses >= round' \/ (Misses + 1 >= round' /\ \A n \in unfinished : Coming(n)')
    BY <1>2, <1>3 DEF Prepared
  <2>1. SendEnd /\ round' = round + 1
    BY <1>2 DEF SendEnd
  <2>2. CASE Misses >= round + 1
    BY <2>1, <2>2
  <2>3. CASE Misses >= round /\ \A n \in unfinished : n \in requested /\ Coming(n)
    <3>1. Misses + 1 >= round'
      BY <1>1, <2>1, <2>3
    <3>2. ASSUME NEW n \in unfinished PROVE Coming(n)'
      <4>1. n \in requested /\ Coming(n) /\ n \in Node
        BY <1>1, <2>3
      <4>2. ~ (seq < PacketNum[TheFirmware])
        BY <1>1, <2>1, <4>1 DEF SendEnd, Sending
      <4>3. Ahead \intersect Everything = {}
        <5> SUFFICES ASSUME NEW p \in Ahead, p \in Everything PROVE FALSE
          OBVIOUS
        <5>1. p \in Nat /\ p < PacketNum[TheFirmware] /\ PacketNum[TheFirmware] \in Nat
          BY OnlyFirmware DEF Everything, PacketsOf
        <5>2. p >= seq
          BY <1>1 DEF Ahead
        <5> QED
          BY <1>1, <4>2, <5>1, <5>2
      <4> QED
        BY <1>2, <4>1, <4>3, ComingStays
    <3> QED
      BY <3>1, <3>2
  <2> QED
    BY <1>4, <2>2, <2>3
<1>7. Asked'
  BY <1>2 DEF Asked
<1>8. Results'
  <2>1. unfinished \union successed # {}
    BY <1>1 DEF FinishInv, Rounds, Results
  <2>2. rpc' = "round" => seq' = 0
    BY <1>2 DEF SendEnd
  <2> QED
    BY <1>2, <2>1, <2>2 DEF Results
<1>9. Calling' /\ RootsAsked'
  BY <1>1, <1>2 DEF FinishInv, Base, Calling, RootsAsked, Still
<1> QED
  BY <1>2, <1>5, <1>6, <1>7, <1>8, <1>9 DEF Turns, Rounds

LEMMA SendExitTurns ==
  ASSUME FinishTerms, FinishInv, Exit \/ Flush \/ Signal
  PROVE  Still /\ Turns
<1>1. /\ Still /\ UNCHANGED <<cfg, down, left, unfinished, successed>>
      /\ \/ rpc = "exit" /\ rpc' = "flush" /\ running' = FALSE /\ asking' = {} /\ seq' = 0
         \/ /\ rpc = "flush" /\ rpc' = "signal"
            /\ UNCHANGED <<running, asking, seq>>
         \/ /\ rpc = "signal" /\ rpc' = "idle"
            /\ UNCHANGED <<running, asking, seq>>
  BY DEF Exit, Flush, Signal, Still, nodeVars, locals
<1>2. unfinished = {} /\ successed # {} /\ (rpc # "exit" => seq = 0)
  BY <1>1 DEF FinishInv, Rounds, Results
<1>3. Results'
  BY <1>1, <1>2 DEF Results
<1>4. Prepared' /\ Asked' /\ Sent'
  BY <1>1 DEF Prepared, Asked, Sent
<1>5. Calling' /\ RootsAsked'
  BY <1>1 DEF FinishInv, Base, Calling, RootsAsked, Still
<1> QED
  BY <1>1, <1>3, <1>4, <1>5 DEF Turns, Rounds

\* What is sent to several is on its way to each of them, or a loss is spent.
LEMMA MulticastGrows ==
  ASSUME FinishTerms, FinishInv, NEW dests \in SUBSET Node, NEW m \in Message,
         Multicast(dests, m), UNCHANGED <<nodeVars, image, queue, inhand>>
  PROVE  /\ Purse' /\ RootImage' /\ Sayings'
         /\ \A n \in Node : Fine(n)'
         /\ Misses' \in Int /\ left'.send = left.send
         /\ Misses' >= Misses + 1 \/ (Misses' = Misses /\ Delivered(dests, m))
         /\ \A n \in Node : /\ Stay(n) /\ Came(dests, m, n)
                            /\ Got(n) \subseteq Got(n)'
         /\ \A r : Flies(r)' = Flies(r)
<1>1. MeshTypeOK /\ Purse
  BY DEF FinishInv, Base, MeshInv
<1>2. /\ Purse' /\ left'.send = left.send
      /\ Misses' \in Int
      /\ Misses' >= Misses + 1 \/ (Misses' = Misses /\ Delivered(dests, m))
      /\ \A n \in Node : Stay(n) /\ Came(dests, m, n)
  BY <1>1, MulticastDoes
<1>3. \A n \in Node : Fine(n)'
  BY OthersFine DEF nodeVars, FinishInv, Base
<1>4. RootImage'
  BY DEF nodeVars, FinishInv, Base, RootImage, Whole
<1>5. \A r : Flies(r)' = Flies(r)
  BY DEF nodeVars, Flies
<1>6. Sayings'
  <2> SUFFICES ASSUME NEW r \in Report, Flies(r) PROVE Says(r)'
    BY <1>5 DEF Sayings
  <2>1. Says(r)
    BY DEF FinishInv, Sayings
  <2> QED
    BY <2>1 DEF Says, nodeVars, Everything, TheFirmware, Finished
<1>7. ASSUME NEW n \in Node PROVE Got(n) \subseteq Got(n)'
  <2>1. OnWay(n) \subseteq OnWay(n)'
    <3> SUFFICES ASSUME NEW p \in Packet, NEW i \in 1 .. Len(down[n]),
                        down[n][i] = PacketOf(TheFirmware, p)
                 PROVE  p \in OnWay(n)'
      BY DEF OnWay
    <3>1. \E j \in 1 .. Len(down'[n]) : down'[n][j] = down[n][i]
      BY <1>2 DEF Stay
    <3> QED
      BY <3>1 DEF OnWay, PacketOf, TheFirmware
  <2> QED
    BY <2>1 DEF nodeVars, Got, Written, At
<1> QED
  BY <1>2, <1>3, <1>4, <1>5, <1>6, <1>7

LEMMA AskTurns ==
  ASSUME FinishTerms, FinishInv, Ask
  PROVE  Purse' /\ RootImage' /\ Sayings' /\ DataFine' /\ Turns /\ \A n \in Node : Fine(n)'
<1> DEFINE m == StatusOf(image.name)
<1>1. /\ rpc = "ask" /\ running /\ spc = "none"
      /\ Misses \in Nat /\ round \in Nat /\ attempt \in Nat
      /\ unfinished \subseteq Node /\ asking \subseteq Node /\ requested \subseteq Node
      /\ queueState = "live" /\ asking # {} /\ seq = 0 /\ image.name = TheFirmware
  BY SenderStarts DEF Ask, FinishInv, Calling, Rounds, Results
<1>2. /\ Multicast(asking, m) /\ rpc' = "collect"
      /\ UNCHANGED <<nodeVars, image, queueState, queue, running, spc, inhand>>
      /\ UNCHANGED <<unfinished, successed, requested, asking, progress, round, attempt, seq>>
  BY DEF Ask, locals
<1>3. m \in Message /\ m.type = "status"
  <2>1. 0 \in Packet
    BY DEF Packet
  <2> QED
    BY <1>1, <2>1, OnlyFirmware DEF StatusOf, Message
<1> HIDE DEF m
<1>4. /\ Purse' /\ RootImage' /\ Sayings'
      /\ \A n \in Node : Fine(n)'
      /\ Misses' \in Int /\ left'.send = left.send
      /\ Misses' >= Misses + 1 \/ (Misses' = Misses /\ Delivered(asking, m))
      /\ \A n \in Node : Stay(n) /\ Came(asking, m, n)
      /\ \A r : Flies(r)' = Flies(r)
  BY <1>1, <1>2, <1>3, MulticastGrows
<1>5. Answering /\ Misses' >= Misses
  BY <1>1, <1>4 DEF FinishInv, Rounds, Asked
<1>6. Answering'
  <2>1. Misses' >= round \/ (Misses' + 1 >= round /\ \A n \in unfinished : Complete(n)')
    <3>1. Misses >= round \/ (Misses + 1 >= round /\ \A n \in unfinished : Complete(n))
      BY <1>5 DEF Answering
    <3>2. \A n \in unfinished : Complete(n) => Complete(n)'
      BY <1>2 DEF Complete, nodeVars, Everything, TheFirmware
    <3>3. round' = round /\ unfinished' = unfinished
      BY <1>2
    <3>4. PICK a \in Int, b \in Int, c \in Int : a = Misses /\ b = Misses' /\ c = round
      BY <1>1, <1>4
    <3>5. b >= a
      BY <1>5, <3>4
    <3>6. CASE Misses >= round
      <4>1. b >= c
        BY <3>4, <3>5, <3>6
      <4> QED
        BY <3>4, <4>1
    <3>7. CASE Misses + 1 >= round /\ \A n \in unfinished : Complete(n)
      <4>0. Misses + 1 >= round
        BY <3>7
      <4>1. a + 1 >= c
        BY <3>4, <4>0
      <4>2. a \in Int /\ b \in Int /\ c \in Int
        BY <3>4
      <4>3. b + 1 >= c
        BY ONLY <3>5, <4>1, <4>2
      <4>4. Misses' + 1 >= round
        BY <3>4, <4>3
      <4>5. \A n \in unfinished : Complete(n)'
        BY <3>2, <3>7
      <4> QED
        BY <4>4, <4>5
    <3> QED
      BY <3>1, <3>6, <3>7
  <2>2. Misses + 1 >= round + attempt
    BY <1>1, <1>5 DEF Answering
  <2>3. Misses' + 1 >= round + attempt
    BY <1>1, <1>4, <1>5, <2>2
  <2>4. ASSUME NEW n \in asking PROVE Pending(n)' \/ Misses' >= round + attempt
    <3>1. CASE Misses' >= Misses + 1
      BY <1>1, <1>4, <2>2, <3>1
    <3>2. CASE Delivered(asking, m)
      <4>1. \E i \in 1 .. Len(down'[n]) : down'[n][i].type = "status"
        BY <1>3, <3>2 DEF Delivered
      <4> QED
        BY <4>1 DEF Pending
    <3> QED
      BY <1>4, <3>1, <3>2
  <2>5. ASSUME NEW r \in Report, Flies(r)' PROVE Timely(r)'
    <3>1. Timely(r)
      BY <1>4, <1>5, <2>5 DEF Answering
    <3>2. cfg' = cfg
      BY <1>2 DEF nodeVars
    <3> QED
      BY <1>1, <1>2, <1>4, <1>5, <3>1, <3>2 DEF Timely, Finished, TheFirmware
  <2>6. ASSUME NEW n \in requested PROVE Misses' >= round + 1 \/ (Misses' >= round /\ Needy(n)')
    <3>1. Misses >= round + 1 \/ (Misses >= round /\ Needy(n))
      BY <1>5 DEF Answering
    <3>2. Needy(n) => Needy(n)'
      BY <1>2 DEF Needy, nodeVars, TheFirmware
    <3> QED
      BY <1>1, <1>4, <1>5, <3>1, <3>2
  <2>7. /\ unfinished = asking \union requested
        /\ requested # {} <=> progress # Packet
    BY <1>5 DEF Answering
  <2> QED
    BY <1>2, <2>1, <2>3, <2>4, <2>5, <2>6, <2>7 DEF Answering
<1>7. Prepared' /\ Asked' /\ Sent'
  BY <1>2, <1>6 DEF Prepared, Asked, Sent
<1>8. Results'
  BY <1>1, <1>2 DEF FinishInv, Rounds, Results
<1>9. Calling'
  BY <1>1, <1>2 DEF FinishInv, Calling
<1>10. RootsAsked'
  <2> SUFFICES ASSUME NEW k \in RootNode, NEW i \in 1 .. Len(down'[k]), cfg[k] = Empty,
                      down'[k][i].type = "status"
               PROVE  k \in asking
    BY <1>2 DEF RootsAsked, nodeVars
  <2>1. Came(asking, m, k)
    BY <1>4
  <2>2. ASSUME NEW j \in 1 .. Len(down[k]), down'[k][i] = down[k][j] PROVE FALSE
    BY <1>1, <2>2 DEF FinishInv, Base, RootsAsked
  <2> QED
    BY <2>1, <2>2 DEF Came
<1>11. DataFine'
  <2> SUFFICES ASSUME NEW k \in Node, NEW i \in 1 .. Len(down'[k]), down'[k][i].type = "data"
               PROVE  down'[k][i].seq \in Everything
    BY DEF DataFine, Everything
  <2>1. Came(asking, m, k)
    BY <1>4
  <2>2. \E j \in 1 .. Len(down[k]) : down'[k][i] = down[k][j]
    BY <1>3, <2>1 DEF Came
  <2> QED
    BY <2>2 DEF FinishInv, Base, DataFine
<1> QED
  BY <1>4, <1>7, <1>8, <1>9, <1>10, <1>11 DEF Turns, Rounds

LEMMA SendPacketTurns ==
  ASSUME FinishTerms, FinishInv, SendPacket
  PROVE  Purse' /\ RootImage' /\ Sayings' /\ DataFine' /\ Turns /\ \A n \in Node : Fine(n)'
<1> DEFINE m == PacketOf(image.name, seq)
<1>1. /\ rpc = "poll" /\ running /\ spc = "none" /\ Misses \in Nat /\ round \in Nat
      /\ unfinished \subseteq Node /\ requested \subseteq Node /\ successed \subseteq Node
      /\ queueState = "live" /\ seq \in Nat /\ image.name = TheFirmware
  BY SenderStarts DEF SendPacket, FinishInv, Calling
<1>2. /\ Multicast(Targets, m) /\ rpc' = "send" /\ seq' = seq + 1
      /\ UNCHANGED <<nodeVars, image, queueState, queue, running, spc, inhand>>
      /\ UNCHANGED <<unfinished, successed, requested, asking, progress, round, attempt>>
  BY DEF SendPacket
<1>3. Targets \in SUBSET Node /\ \A n \in requested : n \notin RootNode => n \in Targets
  BY <1>1 DEF Targets
<1>4. seq \in Everything /\ Everything \subseteq Packet
  <2>1. seq < PacketNum[TheFirmware]
    BY <1>1 DEF FinishInv, Base, MeshInv, Places
  <2> QED
    BY <1>1, <2>1, OnlyFirmware DEF Everything, PacketsOf
<1>5. m \in Message /\ m.type = "data" /\ m.seq = seq /\ m = PacketOf(TheFirmware, seq)
  BY <1>1, <1>4, OnlyFirmware DEF PacketOf, Message
<1> HIDE DEF m
<1>6. /\ Purse' /\ RootImage' /\ Sayings'
      /\ \A n \in Node : Fine(n)'
      /\ Misses' \in Int
      /\ Misses' >= Misses + 1 \/ (Misses' = Misses /\ Delivered(Targets, m))
      /\ \A n \in Node : Came(Targets, m, n) /\ Got(n) \subseteq Got(n)'
  <2>1. PICK dests \in SUBSET Node : dests = Targets
    BY <1>3
  <2>2. Multicast(dests, m)
    BY <1>2, <2>1
  <2>3. UNCHANGED <<nodeVars, image, queue, inhand>>
    BY <1>2
  <2>4. /\ Purse' /\ RootImage' /\ Sayings'
        /\ \A n \in Node : Fine(n)'
        /\ Misses' \in Int
        /\ Misses' >= Misses + 1 \/ (Misses' = Misses /\ Delivered(dests, m))
        /\ \A n \in Node : Came(dests, m, n) /\ Got(n) \subseteq Got(n)'
    BY <1>5, <2>2, <2>3, MulticastGrows
  <2> QED
    BY <2>1, <2>4
<1>7. \/ Misses >= round + 1
      \/ Misses >= round /\ \A n \in unfinished : n \in requested /\ Coming(n)
  BY <1>1 DEF FinishInv, Rounds, Sent
<1>8. ASSUME Delivered(Targets, m), NEW n \in unfinished, n \in requested, Coming(n)
      PROVE  Coming(n)'
  <2>1. n \notin RootNode /\ cfg[n].name = TheFirmware /\ Everything \subseteq Got(n) \union Ahead
        /\ cfg' = cfg /\ n \in Node
    BY <1>1, <1>2, <1>8 DEF Coming, nodeVars
  <2>2. seq \in OnWay(n)'
    <3>1. \E i \in 1 .. Len(down'[n]) : down'[n][i] = PacketOf(TheFirmware, seq)
      BY <1>3, <1>5, <1>8, <2>1 DEF Delivered
    <3>2. PICK p \in Packet : p = seq
      BY <1>4
    <3>3. p \in OnWay(n)'
      BY <3>1, <3>2 DEF OnWay, PacketOf, TheFirmware
    <3> QED
      BY <3>2, <3>3
  <2>3. Ahead = {p \in Packet : p >= seq /\ p \notin progress}
    BY <1>1 DEF Ahead
  <2>4. Ahead' = {p \in Packet : p >= seq + 1 /\ p \notin progress}
    BY <1>2 DEF Ahead
  <2>5. \A p \in Ahead : p = seq \/ p \in Ahead'
    <3>1. \A p \in Packet : p >= seq => p = seq \/ p >= seq + 1
      BY <1>1 DEF Packet
    <3> QED
      BY <2>3, <2>4, <3>1
  <2>6. seq \in Got(n)'
    BY <2>2 DEF Got
  <2>7. Everything \subseteq Got(n)' \union Ahead'
    BY <1>6, <2>1, <2>5, <2>6
  <2> QED
    BY <2>1, <2>7 DEF Coming, Everything, TheFirmware
<1>9. Sent'
  <2> SUFFICES \/ Misses' >= round + 1
               \/ Misses' >= round /\ \A n \in unfinished : n \in requested /\ Coming(n)'
    BY <1>2 DEF Sent
  <2>1. CASE Misses' >= Misses + 1
    BY <1>1, <1>6, <1>7, <2>1
  <2>2. CASE Misses' = Misses /\ Delivered(Targets, m)
    BY <1>7, <1>8, <2>2
  <2> QED
    BY <1>6, <2>1, <2>2
<1>10. Prepared' /\ Asked'
  BY <1>2 DEF Prepared, Asked
<1>11. Results'
  BY <1>1, <1>2 DEF FinishInv, Rounds, Results
<1>12. Calling'
  BY <1>1, <1>2 DEF FinishInv, Calling
<1>13. RootsAsked'
  <2> SUFFICES ASSUME NEW k \in RootNode, NEW i \in 1 .. Len(down'[k]), cfg[k] = Empty,
                      down'[k][i].type = "status"
               PROVE  FALSE
    BY <1>2 DEF RootsAsked, nodeVars
  <2>1. Came(Targets, m, k)
    BY <1>6
  <2>2. \E j \in 1 .. Len(down[k]) : down'[k][i] = down[k][j]
    BY <1>5, <2>1 DEF Came
  <2> QED
    BY <1>1, <2>2 DEF FinishInv, Base, RootsAsked
<1>14. DataFine'
  <2> SUFFICES ASSUME NEW k \in Node, NEW i \in 1 .. Len(down'[k]), down'[k][i].type = "data"
               PROVE  down'[k][i].seq \in Everything
    BY DEF DataFine, Everything
  <2>1. Came(Targets, m, k)
    BY <1>6
  <2>2. CASE \E j \in 1 .. Len(down[k]) : down'[k][i] = down[k][j]
    BY <2>2 DEF FinishInv, Base, DataFine
  <2>3. CASE down'[k][i] = m
    BY <1>4, <1>5, <2>3
  <2> QED
    BY <2>1, <2>2, <2>3 DEF Came
<1> QED
  BY <1>6, <1>9, <1>10, <1>11, <1>12, <1>13, <1>14 DEF Turns, Rounds

\* A send begins with no round behind it.
LEMMA SendStartTurns ==
  ASSUME FinishTerms, FinishInv, NEW m \in Modes, NEW dests \in Destinations(m), SendStart(m, dests)
  PROVE  /\ Purse' /\ RootImage' /\ Sayings' /\ DataFine' /\ Turns
         /\ \A n \in Node : Fine(n)'
<1>1. /\ rpc = "idle" /\ queueState = "live" /\ left' = [left EXCEPT !["send"] = @ - 1]
      /\ running' /\ unfinished' = dests /\ round' = 0 /\ rpc' = "round"
      /\ UNCHANGED <<nodeVars, image, queueState, queue, asking, progress, attempt, seq, spc,
                     inhand, down>>
  BY DEF SendStart, Spend
<1>2. dests # {}
  BY DEF Destinations, FinishTerms
<1>3. Misses \in Nat /\ MeshTypeOK
  BY SenderStarts
<1>4. left'.lose = left.lose /\ left'.restart = left.restart
      /\ left'.halt = left.halt /\ left'.stop = left.stop
  BY <1>1, <1>3 DEF MeshTypeOK
<1>5. Misses' = Misses
  BY <1>4 DEF Misses
<1>6. Purse' /\ RootImage' /\ DataFine'
  BY <1>1, <1>4 DEF FinishInv, Base, Purse, RootImage, Whole, DataFine, Everything, nodeVars
<1>7. \A n \in Node : Fine(n)'
  BY <1>1, OthersFine DEF FinishInv, Base, nodeVars
<1>8. Sayings'
  <2> SUFFICES ASSUME NEW r \in Report, Flies(r)' PROVE Says(r)'
    BY DEF Sayings
  <2>1. Flies(r)
    BY <1>1 DEF Flies, nodeVars
  <2>2. Says(r)
    BY <2>1 DEF FinishInv, Sayings
  <2> QED
    BY <1>1, <2>2 DEF Says, nodeVars, Everything, TheFirmware, Finished
<1>9. Calling' /\ RootsAsked'
  <2>1. Calling'
    BY <1>1 DEF FinishInv, Calling
  <2>2. RootsAsked'
    BY <1>1 DEF FinishInv, Base, RootsAsked, nodeVars
  <2> QED
    BY <2>1, <2>2
<1>10. Rounds'
  <2>1. Misses' >= round'
    BY <1>1, <1>3, <1>5
  <2>2. Prepared'
    BY <2>1 DEF Prepared
  <2>3. Asked' /\ Sent'
    BY <1>1 DEF Asked, Sent
  <2>4. seq = 0
    BY <1>1 DEF FinishInv, Rounds, Results
  <2>5. Results'
    BY <1>1, <1>2, <2>4 DEF Results
  <2> QED
    BY <2>2, <2>3, <2>5 DEF Rounds
<1> QED
  BY <1>6, <1>7, <1>8, <1>9, <1>10 DEF Turns

\* The sending task, step by step.
LEMMA SenderTurns ==
  ASSUME FinishTerms, FinishInv, Sender
  PROVE  /\ Purse' /\ RootImage' /\ Sayings' /\ DataFine' /\ Turns
         /\ \A n \in Node : Fine(n)'
<1>1. ASSUME Still /\ Turns
      PROVE  /\ Purse' /\ RootImage' /\ Sayings' /\ DataFine' /\ Turns
             /\ \A n \in Node : Fine(n)'
  BY <1>1, StillKeeps
<1>2. CASE RoundBegin
  BY <1>1, <1>2, RoundBeginTurns
<1>3. CASE DrainReport
  BY <1>1, <1>3, DrainReportTurns
<1>4. CASE DrainTimeout
  BY <1>1, <1>4, DrainTimeoutTurns
<1>5. CASE Ask
  BY <1>5, AskTurns
<1>6. CASE CollectReport
  BY <1>1, <1>6, CollectReportTurns
<1>7. CASE CollectEnd
  BY <1>1, <1>7, CollectEndTurns
<1>8. CASE AskEnd
  BY <1>1, <1>8, AskEndTurns
<1>9. CASE SendEnd \/ SendSkip \/ SendPoll \/ PollReport \/ SendReadFails
  BY <1>1, <1>9, SendStepTurns
<1>10. CASE SendPacket
  BY <1>10, SendPacketTurns
<1>11. CASE Exit \/ Flush \/ Signal
  BY <1>1, <1>11, SendExitTurns
<1> QED
  BY <1>2, <1>3, <1>4, <1>5, <1>6, <1>7, <1>8, <1>9, <1>10, <1>11 DEF Sender

\* What the other tasks do while the loop of the sender stands where it is.
LEMMA OtherTurns ==
  ASSUME FinishTerms, FinishInv, MeshTypeOK', Steady, Calling', left'.send = left.send,
         UNCHANGED <<rpc, locals>>
  PROVE  /\ Purse' /\ RootImage' /\ Sayings' /\ DataFine' /\ Turns
         /\ \A n \in Node : Fine(n)'
<1>1. Sayings'
  BY SayingsStay DEF FinishInv
<1>2. Rounds'
  BY Calm
<1> QED
  BY <1>1, <1>2 DEF Steady, Turns

\* Nobody calls mupgrade_firmware_stop.
LEMMA NoStopper ==
  ASSUME FinishTerms, FinishInv
  PROVE  ~ Stopper /\ ~ StopCheck
<1>1. spc = "none" /\ left.stop = 0
  BY DEF FinishInv, Base, Calling, Purse
<1> QED
  BY <1>1 DEF Stopper, StopCreate, StopClear, StopTake, StopCheck

LEMMA FinishInvStep ==
  ASSUME FinishTerms
  PROVE  FinishInv /\ [Next]_vars => FinishInv'
<1> SUFFICES ASSUME FinishInv, [Next]_vars PROVE FinishInv'
  OBVIOUS
<1>1. MeshInv' /\ ListInv'
  BY MeshInvStep, ListInvStep DEF FinishInv, Base
<1>2. NodeInv' /\ MeshTypeOK'
  BY <1>1 DEF MeshInv
<1>3. SUFFICES /\ Purse' /\ RootImage' /\ Sayings' /\ DataFine' /\ Turns
               /\ \A n \in Node : Fine(n)'
  BY <1>1, <1>3 DEF FinishInv, Base, Turns
<1>4. CASE UNCHANGED vars
  <2>1. Still /\ UNCHANGED <<rpc, locals, running>>
    BY <1>4 DEF vars, rootVars, nodeVars, locals, Still
  <2>2. Steady
    BY <1>4, RootMoves DEF FinishInv, Base, vars, rootVars, nodeVars, Flies, RootImage,
                           Whole, Silent, Quiet, At
  <2>3. Calling' /\ left'.send = left.send
    BY <2>1 DEF FinishInv, Calling, Still
  <2> QED
    BY <1>2, <2>1, <2>2, <2>3, OtherTurns
<1>5. CASE Sender
  BY <1>5, SenderTurns
<1>6. CASE Receiver
  <2>1. Steady /\ left' = left /\ UNCHANGED <<rpc, locals, running, spc, queueState, image>>
    BY <1>6, ReceiverMoves DEF FinishInv
  <2>2. Calling' /\ left'.send = left.send
    BY <2>1 DEF FinishInv, Calling
  <2> QED
    BY <1>2, <2>1, <2>2, OtherTurns
<1>7. CASE (\E f \in Firmware : FirmwareInit(f)) \/ FirmwareDownload
  <2>1. Steady /\ left' = left /\ UNCHANGED <<rpc, locals, running, spc>> /\ rpc = "idle"
    BY <1>7, DownloadMoves DEF FinishInv
  <2>2. Calling' /\ left'.send = left.send
    BY <2>1 DEF FinishInv, Calling
  <2> QED
    BY <1>2, <2>1, <2>2, OtherTurns
<1>8. CASE \E m \in Modes : \E dests \in Destinations(m) : SendStart(m, dests)
  BY <1>8, SendStartTurns
<1>9. ASSUME NEW n \in Node, Device(n) \/ DeviceRestarts(n) \/ DeviceStops(n) \/ LoseReport(n)
      PROVE  /\ Purse' /\ RootImage' /\ Sayings' /\ DataFine' /\ Turns
             /\ \A k \in Node : Fine(k)'
  <2>1. Steady /\ left'.send = left.send /\ UNCHANGED rootVars
    BY <1>2, <1>9, DeviceMoves DEF FinishInv
  <2>2. Calling' /\ UNCHANGED <<rpc, locals>>
    BY <2>1 DEF FinishInv, Calling, rootVars, locals
  <2> QED
    BY <1>2, <2>1, <2>2, OtherTurns
<1> QED
  BY <1>4, <1>5, <1>6, <1>7, <1>8, <1>9, NoStopper DEF Next, Environment

LEMMA FinishInvInit ==
  ASSUME FinishTerms
  PROVE  Init => FinishInv
<1> SUFFICES ASSUME Init PROVE FinishInv
  OBVIOUS
<1>1. MeshInv /\ ListInv /\ NodeInit
  BY MeshInvInit, ListInvInit DEF Init
<1>2. Purse
  BY DEF Init, Purse, FinishTerms
<1>3. RootImage /\ DataFine /\ RootsAsked
  BY DEF Init, RootImage, DataFine, RootsAsked
<1>4. ASSUME NEW n \in Node PROVE Fine(n)
  <2>1. cfg[n] = Empty /\ nvs[n] = Empty /\ task[n] = Idle
    BY <1>1 DEF NodeInit
  <2>2. n \notin RootNode => Sound(n)
    BY <1>1, FlashInvInit DEF FlashInv, StopInv, BootInv, CountInv, Sound
  <2> QED
    BY <2>1, <2>2 DEF Fine, Empty
<1>5. \A r \in Report : ~ Flies(r)
  BY NoReportIsNone DEF Init, NodeInit, Flies
<1>6. Sayings
  BY <1>5 DEF Sayings
<1>7. Calling
  BY DEF Init, Calling
<1>8. Rounds
  BY DEF Init, Rounds, Prepared, Asked, Sent, Results
<1> QED
  BY <1>1, <1>2, <1>3, <1>4, <1>6, <1>7, <1>8 DEF FinishInv, Base

\* A send that has more rounds than the mesh loses messages and devices are reset ends with
\* every device counted as succeeded: of one firmware, in any of its modes, for any number
\* of devices, packets, attempts and repeated messages, when answers come in time, calls do
\* not fail and nobody stops the upgrade.
THEOREM EveryDeviceIsUpgraded == FinishTerms => (Spec => []EveryDeviceFinishes)
<1> SUFFICES ASSUME FinishTerms PROVE Spec => []EveryDeviceFinishes
  OBVIOUS
<1>1. FinishInv => EveryDeviceFinishes
  <2> SUFFICES ASSUME FinishInv, left.send = 0, rpc = "idle"
               PROVE  unfinished = {} /\ successed # {}
    BY DEF EveryDeviceFinishes
  <2>1. Budget["send"] # 0
    BY DEF FinishTerms
  <2> QED
    BY <2>1 DEF FinishInv, Rounds, Results
<1> QED
  BY <1>1, FinishInvInit, FinishInvStep, PTL DEF Spec
=============================================================================
