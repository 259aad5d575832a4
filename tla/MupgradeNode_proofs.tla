------------------------ MODULE MupgradeNode_proofs ------------------------
(***************************************************************************)
(* What holds of a receiving device for every set of devices and firmware, *)
(* every size and every fault: its type invariant, and, when the record is *)
(* stored whole and mupgrade_stop does not interrupt a handler, that       *)
(* written_size counts the bits of the progress array.                     *)
(***************************************************************************)
EXTENDS MupgradeNode, FiniteSetTheorems, TLAPS

USE ConstantsAssumption DEF Calls

(* A handler that is under way knows the firmware it works for.            *)
BusyKnowsName == \A n \in Node : ~ At(n, "idle") => cfg[n].name # NoName

NodeInv == NodeTypeOK /\ BusyKnowsName

-----------------------------------------------------------------------------
(* The values the handlers compute.                                        *)

LEMMA ConfigTypes ==
  /\ Empty \in Config
  /\ \A f \in Firmware : Fresh(f) \in Config /\ Fresh(f).name = f
  /\ Idle \in Task
  /\ \A step \in Step : Doing(step) \in Task
BY DEF Empty, Fresh, Config, Name, Idle, Doing, Task, Step, Packet

LEMMA LoadedType ==
  ASSUME NodeTypeOK, NEW n \in Node
  PROVE  Loaded(n) \in Config
BY DEF NodeTypeOK, Loaded

\* What the handlers change of a configuration.
LEMMA ChangedType ==
  ASSUME NEW c \in Config
  PROVE  /\ \A w \in Nat, b \in SUBSET Packet :
              Progress(c, w, b) \in Config /\ Progress(c, w, b).name = c.name
         /\ Stopped(c) \in Config /\ Stopped(c).name = c.name
         /\ c.written + 1 \in Nat
BY DEF Config, Progress, Stopped

LEMMA SavedType == ASSUME NEW c \in Config PROVE Saved(c) \in Config
BY DEF Saved, Progress, Config

LEMMA ReportType ==
  ASSUME NEW n \in Node, NEW c \in Config, c.name # NoName
  PROVE  ReportOf(n, c) \in Report
BY DEF ReportOf, Report, Config, Name

LEMMA RespondType ==
  ASSUME NodeTypeOK, NEW n \in Node, NEW c \in Config, c.name # NoName,
         Respond(n, c)
  PROVE  up' \in [Node -> Seq(Report)]
<1>1. ReportOf(n, c) \in Report
  BY ReportType
<1>2. Append(up[n], ReportOf(n, c)) \in Seq(Report)
  BY <1>1 DEF NodeTypeOK
<1> QED
  BY <1>2 DEF NodeTypeOK, Respond

LEMMA SaveRecordType ==
  ASSUME NodeTypeOK, NEW n \in Node, NEW c \in Config, SaveRecord(n, c)
  PROVE  nvs' \in [Node -> Config]
BY SavedType DEF NodeTypeOK, SaveRecord

LEMMA EraseRecordType ==
  ASSUME NodeTypeOK, NEW n \in Node, EraseRecord(n)
  PROVE  nvs' \in [Node -> Config]
BY ConfigTypes DEF NodeTypeOK, EraseRecord

LEMMA ImageType == \A f \in Name : ImageOf(f) \in [Packet -> Cell]
BY DEF ImageOf, Cell, Name

LEMMA ErasedType == Erased \in [Packet -> Cell]
BY DEF Erased, Cell

LEMMA QuotientType ==
  ASSUME NEW a \in Nat, NEW b \in Nat \ {0} PROVE a \div b \in Nat
BY SMT

LEMMA PercentType ==
  ASSUME NEW c \in Config, c.name # NoName PROVE Percent(c) \in Nat
<1>1. PacketNum[c.name] \in Nat \ {0} /\ c.written * 100 \in Nat
  BY DEF Config, Name
<1> QED
  BY <1>1, QuotientType DEF Percent

-----------------------------------------------------------------------------
(* Every handler keeps the invariant.                                      *)

LEMMA StatusKeeps ==
  ASSUME NodeInv, NEW n \in Node, NEW f \in Firmware, Status(n, f)
  PROVE  NodeInv'
<1> USE ConfigTypes DEF NodeInv, BusyKnowsName, At
<1>0. f # NoName /\ Loaded(n) \in Config
  BY LoadedType
<1>1. CASE StatusKnown(n, f)
  <2>1. Loaded(n).name = f
    BY <1>1 DEF StatusKnown, New
  <2>2. up' \in [Node -> Seq(Report)]
    BY <1>0, <1>1, <2>1, RespondType DEF StatusKnown
  <2> QED
    BY <1>0, <1>1, <2>1, <2>2 DEF StatusKnown, NodeTypeOK
<1>2. CASE StatusRoot(n, f)
  <2> DEFINE c == Progress(Fresh(f), PacketNum[f], Packet)
  <2>1. c \in Config /\ c.name = f
    <3>1. PacketNum[f] \in Nat
      OBVIOUS
    <3> QED
      BY <3>1, ChangedType, Packet \in SUBSET Packet, Fresh(f) \in Config
  <2>2. up' \in [Node -> Seq(Report)]
    BY <1>0, <1>2, <2>1, RespondType DEF StatusRoot
  <2>3. cfg' \in [Node -> Config] /\ cfg'[n].name = f
    BY <1>2, <2>1 DEF StatusRoot, NodeTypeOK
  <2>4. boot' \in [Node -> Name]
    BY <1>2 DEF StatusRoot, NodeTypeOK, Name
  <2> QED
    BY <1>0, <1>2, <2>2, <2>3, <2>4 DEF StatusRoot, NodeTypeOK
<1>3. CASE StatusRootFails(n, f)
  <2>1. up' \in [Node -> Seq(Report)]
    BY <1>0, <1>3, RespondType DEF StatusRootFails
  <2> QED
    BY <1>0, <1>3, <2>1 DEF StatusRootFails, NodeTypeOK
<1>4. CASE StatusBegin(n, f)
  BY <1>0, <1>4, ErasedType DEF StatusBegin, NodeTypeOK, Step
<1>5. CASE StatusBeginFails(n, f)
  <2>1. up' \in [Node -> Seq(Report)]
    BY <1>0, <1>5, RespondType DEF StatusBeginFails
  <2> QED
    BY <1>0, <1>5, <2>1 DEF StatusBeginFails, NodeTypeOK
<1> QED
  BY <1>1, <1>2, <1>3, <1>4, <1>5 DEF Status

LEMMA DataKeeps ==
  ASSUME NodeInv, NEW n \in Node, NEW f \in Firmware, NEW p \in Packet,
         Data(n, f, p)
  PROVE  NodeInv'
<1> USE DEF NodeInv, BusyKnowsName, At
<1>0. Loaded(n) \in Config
  BY LoadedType
<1>1. CASE WriteNotInit(n)
  BY <1>1 DEF WriteNotInit, nodeVars, NodeTypeOK
<1>2. CASE WriteRefused(n)
  <2> DEFINE c == Progress(Loaded(n), 0, {})
  <2>1. c \in Config /\ c.name = Loaded(n).name
    BY <1>0, ChangedType, 0 \in Nat, {} \in SUBSET Packet
  <2>2. up' \in [Node -> Seq(Report)]
    BY <1>2, <2>1, RespondType DEF WriteRefused
  <2>3. nvs' \in [Node -> Config]
    BY <1>2, EraseRecordType DEF WriteRefused
  <2>4. cfg' \in [Node -> Config]
    BY <1>2, <2>1 DEF WriteRefused, NodeTypeOK
  <2>5. \A m \in Node : cfg[m].name # NoName => cfg'[m].name # NoName
    BY <1>2, <2>1 DEF WriteRefused, NodeTypeOK
  <2> QED
    BY <1>2, <2>2, <2>3, <2>4, <2>5 DEF WriteRefused, NodeTypeOK
<1>3. CASE WriteIgnored(n, p)
  BY <1>0, <1>3 DEF WriteIgnored, Writable, NodeTypeOK
<1>4. CASE WriteFlash(n, f, p)
  <2>1. \A cell \in Cell : Programmed(cell, f) \in Cell
    BY DEF Programmed, Cell
  <2>2. flash' \in [Node -> [Packet -> Cell]]
    BY <1>4, <2>1 DEF WriteFlash, NodeTypeOK
  <2>3. Writing(p) \in Task
    BY DEF Writing, Task, Step
  <2> QED
    BY <1>0, <1>4, <2>2, <2>3 DEF WriteFlash, Writable, NodeTypeOK
<1> QED
  BY <1>1, <1>2, <1>3, <1>4 DEF Data

LEMMA ContinueKeeps ==
  ASSUME NodeInv, NEW n \in Node, Continue(n)
  PROVE  NodeInv'
<1> USE ConfigTypes DEF NodeInv, BusyKnowsName, At
<1>0. cfg[n] \in Config /\ cfg[n].name # NoName
  BY DEF Continue, StatusSave, WriteAccount, WriteErase, WriteSwitch,
         WriteSwitchFails, NodeTypeOK
<1>1. CASE StatusSave(n)
  <2>1. up' \in [Node -> Seq(Report)]
    BY <1>0, <1>1, RespondType DEF StatusSave
  <2>2. nvs' \in [Node -> Config]
    BY <1>0, <1>1, SaveRecordType DEF StatusSave
  <2> QED
    BY <1>1, <2>1, <2>2 DEF StatusSave, NodeTypeOK
<1>2. CASE WriteAccount(n)
  <2> DEFINE c == Progress(cfg[n], cfg[n].written + 1,
                          cfg[n].bits \union {task[n].seq})
             percent == Percent(c)
  <2>1. c \in Config /\ c.name = cfg[n].name
    <3>1. cfg[n].bits \union {task[n].seq} \in SUBSET Packet
      BY <1>0 DEF Config, NodeTypeOK, Task
    <3>2. cfg[n].written + 1 \in Nat
      BY <1>0, ChangedType
    <3> QED
      BY <1>0, <3>1, <3>2, ChangedType
  <2>2. percent \in Nat
    BY <1>0, <2>1, PercentType
  <2>3. Interval \in Nat \ {0} /\ percent \div Interval \in Nat
    BY <2>2, QuotientType
  <2>4. next' \in [Node -> Nat]
    <3>1. next'[n] \in Nat /\ next' = [next EXCEPT ![n] = next'[n]]
      BY <1>2, <2>2, <2>3 DEF WriteAccount, NodeTypeOK
    <3> QED
      BY <3>1 DEF NodeTypeOK
  <2>5. nvs' \in [Node -> Config]
    BY <1>2, <2>1, SaveRecordType DEF WriteAccount, NodeTypeOK
  <2>6. task' \in [Node -> Task]
    BY <1>2 DEF WriteAccount, NodeTypeOK, Step
  <2>7. cfg' \in [Node -> Config] /\ \A m \in Node : cfg'[m].name = cfg[m].name
    BY <1>2, <2>1 DEF WriteAccount, NodeTypeOK
  <2>8. \A m \in Node : m # n => task'[m] = task[m]
    BY <1>2 DEF WriteAccount, NodeTypeOK
  <2>9. UNCHANGED <<flash, boot, version, fin, up>>
    BY <1>2 DEF WriteAccount
  <2> QED
    BY <1>0, <2>4, <2>5, <2>6, <2>7, <2>8, <2>9 DEF NodeTypeOK
<1>3. CASE WriteErase(n)
  <2>1. nvs' \in [Node -> Config]
    BY <1>3, EraseRecordType DEF WriteErase
  <2> QED
    BY <1>0, <1>3, <2>1 DEF WriteErase, NodeTypeOK, Step
<1>4. CASE WriteSwitch(n)
  <2>1. up' \in [Node -> Seq(Report)]
    BY <1>0, <1>4, RespondType DEF WriteSwitch
  <2>2. boot' \in [Node -> Name]
    BY <1>4 DEF WriteSwitch, NodeTypeOK, Name
  <2> QED
    BY <1>4, <2>1, <2>2 DEF WriteSwitch, NodeTypeOK
<1>5. CASE WriteSwitchFails(n)
  <2>1. [name |-> cfg[n].name, stop |-> TRUE, written |-> 0, bits |-> cfg[n].bits]
          \in Config
    BY <1>0 DEF Config
  <2>3. cfg' \in [Node -> Config] /\ \A m \in Node : m # n => cfg'[m] = cfg[m]
    BY <1>5, <2>1 DEF WriteSwitchFails, NodeTypeOK
  <2>4. task' = [task EXCEPT ![n] = Idle]
    BY <1>5 DEF WriteSwitchFails
  <2>5. UNCHANGED <<nvs, flash, boot, version, fin, next, up>>
    BY <1>5 DEF WriteSwitchFails
  <2>6. Idle.step = "idle"
    BY DEF Idle, Doing
  <2> QED
    BY <2>3, <2>4, <2>5, <2>6 DEF NodeTypeOK
<1> QED
  BY <1>1, <1>2, <1>3, <1>4, <1>5 DEF Continue

LEMMA NodeStopKeeps ==
  ASSUME NodeInv, NEW n \in Node, NodeStop(n)
  PROVE  NodeInv'
<1> USE DEF NodeInv, BusyKnowsName, At
<1> DEFINE c == Stopped(cfg[n])
<1>1. c \in Config /\ c.name = cfg[n].name /\ c.name # NoName
  <2>1. cfg[n] \in Config /\ cfg[n].name # NoName
    BY DEF NodeStop, NodeTypeOK
  <2> QED
    BY <2>1, ChangedType
<1>2. up' \in [Node -> Seq(Report)]
  BY <1>1, RespondType DEF NodeStop
<1>3. nvs' \in [Node -> Config]
  BY EraseRecordType DEF NodeStop
<1>4. cfg' \in [Node -> Config] /\ \A m \in Node : cfg'[m].name = cfg[m].name
  BY <1>1 DEF NodeStop, NodeTypeOK
<1>5. boot' \in [Node -> Name]
  BY DEF NodeStop, NodeTypeOK, BootAfterStop, Name
<1> QED
  BY <1>2, <1>3, <1>4, <1>5 DEF NodeStop, NodeTypeOK

LEMMA RestartKeeps ==
  ASSUME NodeInv, NEW n \in Node, Restart(n)
  PROVE  NodeInv'
<1> USE DEF NodeInv, BusyKnowsName, At
<1>1. version[n] \in Name /\ NoName \in Name /\ boot[n] \in Name /\ Interval \in Nat
  BY DEF NodeTypeOK, Name
<1>2. ImageOf(version[n]) \in [Packet -> Cell]
  BY <1>1, ImageType
<1>3. flash' \in [Node -> [Packet -> Cell]]
  BY <1>2 DEF Restart, NodeTypeOK
<1>4. version' \in [Node -> Name] /\ boot' \in [Node -> Name]
  BY <1>1 DEF Restart, NodeTypeOK
<1>5. cfg' \in [Node -> Config] /\ task' \in [Node -> Task]
  BY ConfigTypes DEF Restart, NodeTypeOK
<1>6. Idle.step = "idle"
  BY DEF Idle, Doing
<1> QED
  BY <1>1, <1>3, <1>4, <1>5, <1>6 DEF Restart, NodeTypeOK

LEMMA TakeReportKeeps ==
  ASSUME NodeInv, NEW n \in Node, TakeReport(n)
  PROVE  NodeInv'
BY DEF NodeInv, BusyKnowsName, At, TakeReport, NodeTypeOK

LEMMA NodeInitHolds == NodeInit => NodeInv
<1> SUFFICES ASSUME NodeInit PROVE NodeInv
  OBVIOUS
<1>1. flash \in [Node -> [Packet -> Cell]]
  BY ImageType DEF NodeInit
<1>2. <<>> \in Seq(Report) /\ NoName \in Name /\ Interval \in Nat
  BY DEF Name
<1>3. Idle.step = "idle"
  BY DEF Idle, Doing
<1> QED
  BY <1>1, <1>2, <1>3, ConfigTypes
  DEF NodeInit, NodeInv, NodeTypeOK, BusyKnowsName, At

LEMMA NodeInvStep == NodeInv /\ [NodeNext]_nodeVars => NodeInv'
<1> SUFFICES ASSUME NodeInv, [NodeNext]_nodeVars PROVE NodeInv'
  OBVIOUS
<1>1. CASE UNCHANGED nodeVars
  BY <1>1 DEF nodeVars, NodeInv, NodeTypeOK, BusyKnowsName, At
<1>2. CASE NodeNext
  <2>1. PICK n \in Node :
          \/ \E f \in Firmware : Status(n, f)
          \/ \E f \in Firmware : \E p \in PacketsOf(f) : Data(n, f, p)
          \/ Continue(n) \/ NodeStop(n) \/ Restart(n) \/ TakeReport(n)
    BY <1>2 DEF NodeNext
  <2>2. \A f \in Firmware : PacketsOf(f) \subseteq Packet
    BY DEF PacketsOf, Packet
  <2> QED
    BY <2>1, <2>2, StatusKeeps, DataKeeps, ContinueKeeps, NodeStopKeeps,
       RestartKeeps, TakeReportKeeps
<1> QED
  BY <1>1, <1>2

\* Whatever is asked, delivered, stopped, reset or fails, the state of the devices
\* has its type, and a handler that is under way has a firmware to work for.
THEOREM NodeTypeCorrect == NodeSpec => []NodeTypeOK
<1>1. NodeInv => NodeTypeOK
  BY DEF NodeInv
<1> QED
  BY <1>1, NodeInitHolds, NodeInvStep, PTL DEF NodeSpec

-----------------------------------------------------------------------------
(* written_size counts the bits.  CountMatchesBits is not inductive: a      *)
(* handler under way must still find the configuration it left, not stopped *)
(* and without the bit it is about to set.                                  *)
Exact(n) ==
  /\ ~ cfg[n].stop => cfg[n].written = Cardinality(cfg[n].bits)
  /\ nvs[n].written = Cardinality(nvs[n].bits)
  /\ ~ At(n, "idle") => ~ cfg[n].stop
  /\ At(n, "written") => task[n].seq \notin cfg[n].bits

CountInv == NodeInv /\ \A n \in Node \ RootNode : Exact(n)

RecordIsWhole == Kept = Packet /\ ~ StopAnyTime

LEMMA NothingCounted == Cardinality({}) = 0 /\ Empty.written = 0 /\ Empty.bits = {}
BY FS_EmptySet DEF Empty

LEMMA PacketFinite == \A b \in SUBSET Packet : IsFiniteSet(b)
<1>1. IsFiniteSet(Packet)
  BY FS_Interval, MaxPacket - 1 \in Int DEF Packet
<1> QED
  BY <1>1, FS_Subset

LEMMA OneMoreBit ==
  ASSUME NEW b \in SUBSET Packet, NEW p \in Packet, p \notin b
  PROVE  Cardinality(b \union {p}) = Cardinality(b) + 1
BY PacketFinite, FS_AddElement

LEMMA SavedWhole ==
  ASSUME RecordIsWhole, NEW c \in Config
  PROVE  Saved(c).written = c.written /\ Saved(c).bits = c.bits
BY DEF RecordIsWhole, Saved, Progress, Config

\* Saving an exact configuration, or erasing it, leaves an exact record.
LEMMA RecordExact ==
  ASSUME NodeInv, RecordIsWhole, NEW n \in Node \ RootNode, Exact(n), NEW c \in Config,
         \/ SaveRecord(n, c) /\ c.written = Cardinality(c.bits)
         \/ EraseRecord(n)
         \/ UNCHANGED nvs
  PROVE  nvs'[n].written = Cardinality(nvs'[n].bits)
<1>1. nvs[n].written = Cardinality(nvs[n].bits)
  BY DEF Exact
<1>2. nvs'[n] \in {nvs[n], Saved(c), Empty}
      /\ (nvs'[n] = Saved(c) => c.written = Cardinality(c.bits) \/ nvs'[n] = nvs[n]
                                 \/ nvs'[n] = Empty)
  BY DEF NodeInv, NodeTypeOK, SaveRecord, EraseRecord
<1> QED
  BY <1>1, <1>2, SavedWhole, NothingCounted

\* A step of one device touches no other device.
LEMMA OthersUntouched ==
  ASSUME NodeInv, NEW n \in Node,
         \/ \E f \in Firmware : Status(n, f)
         \/ \E f \in Firmware : \E p \in Packet : Data(n, f, p)
         \/ Continue(n) \/ NodeStop(n) \/ Restart(n) \/ TakeReport(n),
         NEW m \in Node, m # n
  PROVE  /\ cfg'[m] = cfg[m] /\ nvs'[m] = nvs[m] /\ task'[m] = task[m]
         /\ flash'[m] = flash[m] /\ boot'[m] = boot[m] /\ fin'[m] = fin[m]
         /\ next'[m] = next[m] /\ version'[m] = version[m] /\ up'[m] = up[m]
<1> USE DEF NodeInv, NodeTypeOK, SaveRecord, EraseRecord, Respond
<1>1. CASE \E f \in Firmware : Status(n, f)
  BY <1>1 DEF Status, StatusKnown, StatusRoot, StatusRootFails, StatusBegin,
              StatusBeginFails
<1>2. CASE \E f \in Firmware : \E p \in Packet : Data(n, f, p)
  BY <1>2 DEF Data, WriteNotInit, WriteRefused, WriteIgnored, WriteFlash, nodeVars
<1>3. CASE Continue(n)
  <2>1. CASE WriteAccount(n)
    BY <2>1 DEF WriteAccount
  <2> QED
    BY <1>3, <2>1 DEF Continue, StatusSave, WriteErase, WriteSwitch,
                      WriteSwitchFails
<1>4. CASE NodeStop(n) \/ Restart(n) \/ TakeReport(n)
  BY <1>4 DEF NodeStop, Restart, TakeReport
<1> QED
  BY <1>1, <1>2, <1>3, <1>4

\* The configuration a handler starts from is exact, whether it was in RAM or not.
LEMMA LoadedExact ==
  ASSUME NEW n \in Node \ RootNode, Exact(n)
  PROVE  ~ Loaded(n).stop => Loaded(n).written = Cardinality(Loaded(n).bits)
BY DEF Exact, Loaded

LEMMA StatusExact ==
  ASSUME NodeInv, NEW n \in Node \ RootNode, Exact(n), NEW f \in Firmware, Status(n, f)
  PROVE  Exact(n)'
<1> USE DEF NodeInv, NodeTypeOK, At
<1>1. nvs'[n].written = Cardinality(nvs'[n].bits)
  BY DEF Exact, Status, StatusKnown, StatusRoot, StatusRootFails, StatusBegin,
         StatusBeginFails
<1>2. CASE StatusKnown(n, f)
  <2>1. cfg'[n] = Loaded(n) /\ task'[n].step = "idle"
    BY <1>2 DEF StatusKnown
  <2> QED
    BY <1>1, <2>1, LoadedExact DEF Exact
<1>3. CASE StatusBegin(n, f) \/ StatusBeginFails(n, f)
  <2>1. cfg'[n] = Fresh(f) /\ task'[n].step \in {"idle", "begun"}
    BY <1>3 DEF StatusBegin, StatusBeginFails, Doing
  <2>2. Fresh(f).written = 0 /\ Fresh(f).bits = {} /\ ~ Fresh(f).stop
    BY DEF Fresh
  <2> QED
    BY <1>1, <2>1, <2>2, NothingCounted DEF Exact
<1> QED
  BY <1>2, <1>3 DEF Status, StatusRoot, StatusRootFails

LEMMA DataExact ==
  ASSUME NodeInv, RecordIsWhole, NEW n \in Node \ RootNode, Exact(n), NEW f \in Firmware,
         NEW p \in Packet, Data(n, f, p)
  PROVE  Exact(n)'
<1> USE DEF NodeInv, NodeTypeOK, At
<1>1. nvs'[n].written = Cardinality(nvs'[n].bits)
  <2>1. EraseRecord(n) \/ UNCHANGED nvs
    BY DEF Data, WriteNotInit, WriteRefused, WriteIgnored, WriteFlash, nodeVars
  <2> QED
    BY <2>1, RecordExact, ConfigTypes
<1>2. CASE WriteNotInit(n)
  BY <1>2 DEF WriteNotInit, nodeVars, Exact
<1>3. CASE WriteRefused(n)
  <2>1. cfg'[n] = Progress(Loaded(n), 0, {}) /\ task'[n].step = "idle"
    BY <1>3 DEF WriteRefused
  <2> QED
    BY <1>1, <2>1, NothingCounted DEF Exact, Progress
<1>4. CASE WriteIgnored(n, p)
  <2>1. cfg'[n] = Loaded(n) /\ task'[n].step = "idle"
    BY <1>4 DEF WriteIgnored, Writable
  <2> QED
    BY <1>1, <2>1, LoadedExact DEF Exact
<1>5. CASE WriteFlash(n, f, p)
  <2>1. /\ cfg'[n] = Loaded(n) /\ ~ Loaded(n).stop
        /\ task'[n] = Writing(p) /\ p \notin Loaded(n).bits
    BY <1>5 DEF WriteFlash, Writable, Received
  <2> QED
    BY <1>1, <2>1, LoadedExact DEF Exact, Writing
<1> QED
  BY <1>2, <1>3, <1>4, <1>5 DEF Data

LEMMA ContinueExact ==
  ASSUME NodeInv, RecordIsWhole, NEW n \in Node \ RootNode, Exact(n), Continue(n)
  PROVE  Exact(n)'
<1> USE DEF NodeInv, NodeTypeOK, At
<1>0. /\ ~ cfg[n].stop /\ cfg[n] \in Config
      /\ cfg[n].written = Cardinality(cfg[n].bits)
  BY DEF Exact, Continue, StatusSave, WriteAccount, WriteErase, WriteSwitch,
         WriteSwitchFails
<1>1. CASE WriteAccount(n)
  <2> DEFINE c == Progress(cfg[n], cfg[n].written + 1,
                          cfg[n].bits \union {task[n].seq})
  <2>1. task[n].seq \in Packet /\ task[n].seq \notin cfg[n].bits
        /\ cfg[n].bits \in SUBSET Packet
    BY <1>1 DEF WriteAccount, Exact, Task, Config
  <2>2. c.written = Cardinality(c.bits) /\ c \in Config /\ c.stop = cfg[n].stop
    <3>1. cfg[n].written = Cardinality(cfg[n].bits) /\ cfg[n] \in Config
      BY <1>0, <1>1 DEF WriteAccount, Exact, At
    <3>2. Cardinality(c.bits) = Cardinality(cfg[n].bits) + 1
      BY <2>1, OneMoreBit DEF Progress
    <3>3. cfg[n].written + 1 \in Nat
          /\ cfg[n].bits \union {task[n].seq} \in SUBSET Packet
      BY <3>1, <2>1 DEF Config
    <3>4. c \in Config
      BY <3>1, <3>3, ChangedType
    <3> QED
      BY <3>1, <3>2, <3>4 DEF Progress
  <2>3. cfg'[n] = c /\ (SaveRecord(n, c) \/ UNCHANGED nvs)
        /\ task'[n] \in {Doing("complete"), Idle}
    BY <1>1 DEF WriteAccount
  <2>4. nvs'[n].written = Cardinality(nvs'[n].bits)
    BY <2>2, <2>3, RecordExact
  <2> QED
    BY <1>0, <2>2, <2>3, <2>4 DEF Exact, Doing, Idle
<1>2. CASE WriteSwitchFails(n)
  <2>1. cfg'[n].stop /\ task'[n].step = "idle" /\ nvs'[n] = nvs[n]
    BY <1>2 DEF WriteSwitchFails, Idle, Doing
  <2> QED
    BY <2>1 DEF Exact
<1>3. CASE StatusSave(n) \/ WriteErase(n) \/ WriteSwitch(n)
  <2>1. /\ cfg'[n] = cfg[n]
        /\ task'[n].step \in {"idle", "switch"}
        /\ SaveRecord(n, cfg[n]) \/ EraseRecord(n) \/ UNCHANGED nvs
    BY <1>3 DEF StatusSave, WriteErase, WriteSwitch, Idle, Doing
  <2>2. nvs'[n].written = Cardinality(nvs'[n].bits)
    BY <1>0, <2>1, RecordExact
  <2> QED
    BY <1>0, <2>1, <2>2 DEF Exact
<1> QED
  BY <1>1, <1>2, <1>3 DEF Continue

LEMMA OtherStepExact ==
  ASSUME NodeInv, RecordIsWhole, NEW n \in Node \ RootNode, Exact(n),
         NodeStop(n) \/ Restart(n) \/ TakeReport(n)
  PROVE  Exact(n)'
<1> USE DEF NodeInv, NodeTypeOK, At
<1>1. CASE NodeStop(n)
  <2>1. cfg'[n].stop /\ task'[n].step = "idle" /\ EraseRecord(n)
    BY <1>1 DEF NodeStop, RecordIsWhole, Stopped
  <2>2. nvs'[n].written = Cardinality(nvs'[n].bits)
    BY <2>1, RecordExact, ConfigTypes
  <2> QED
    BY <2>1, <2>2 DEF Exact
<1>2. CASE Restart(n)
  <2>1. cfg'[n] = Empty /\ nvs'[n] = nvs[n] /\ task'[n].step = "idle"
    BY <1>2 DEF Restart, Idle, Doing
  <2> QED
    BY <2>1, NothingCounted DEF Exact
<1>3. CASE TakeReport(n)
  BY <1>3 DEF TakeReport, Exact
<1> QED
  BY <1>1, <1>2, <1>3

LEMMA CountInvInit == NodeInit => CountInv
<1> SUFFICES ASSUME NodeInit PROVE CountInv
  OBVIOUS
<1>1. \A n \in Node : cfg[n] = Empty /\ nvs[n] = Empty /\ task[n].step = "idle"
  BY DEF NodeInit, Idle, Doing
<1> QED
  BY <1>1, NodeInitHolds, NothingCounted DEF CountInv, Exact, At

LEMMA CountInvStep ==
  ASSUME RecordIsWhole
  PROVE  CountInv /\ [NodeNext]_nodeVars => CountInv'
<1> SUFFICES ASSUME CountInv, [NodeNext]_nodeVars PROVE CountInv'
  OBVIOUS
<1>1. NodeInv'
  BY NodeInvStep DEF CountInv
<1>2. CASE UNCHANGED nodeVars
  BY <1>1, <1>2 DEF nodeVars, CountInv, Exact, At
<1>3. CASE NodeNext
  <2>1. \A f \in Firmware : PacketsOf(f) \subseteq Packet
    BY DEF PacketsOf, Packet
  <2>2. PICK n \in Node :
          \/ \E f \in Firmware : Status(n, f)
          \/ \E f \in Firmware : \E p \in Packet : Data(n, f, p)
          \/ Continue(n) \/ NodeStop(n) \/ Restart(n) \/ TakeReport(n)
    BY <1>3, <2>1 DEF NodeNext
  <2>3. n \notin RootNode => Exact(n)'
    <3>1. NodeInv /\ (n \notin RootNode => Exact(n))
      BY DEF CountInv
    <3> QED
      BY <2>2, <3>1, StatusExact, DataExact, ContinueExact, OtherStepExact
  <2>4. ASSUME NEW m \in Node \ RootNode, m # n PROVE Exact(m)'
    <3>1. cfg'[m] = cfg[m] /\ nvs'[m] = nvs[m] /\ task'[m] = task[m]
      BY <2>2, <2>4, OthersUntouched DEF CountInv
    <3> QED
      BY <2>4, <3>1 DEF CountInv, Exact, At
  <2> QED
    BY <1>1, <2>3, <2>4 DEF CountInv
<1> QED
  BY <1>2, <1>3

\* The count that ends an upgrade and the bits that tell what is missing never
\* disagree, in RAM or in the record, across duplicates, packets of another
\* firmware, failing calls and resets: as long as the record is stored whole and
\* mupgrade_stop is called by the task that handles the messages.
THEOREM CountIsExact == RecordIsWhole => (NodeSpec => []CountMatchesBits)
<1> SUFFICES ASSUME RecordIsWhole PROVE NodeSpec => []CountMatchesBits
  OBVIOUS
<1>1. NodeInit => CountInv
  BY CountInvInit
<1>2. CountInv => CountMatchesBits
  BY DEF CountInv, Exact, CountMatchesBits
<1> QED
  BY <1>1, <1>2, CountInvStep, PTL DEF NodeSpec

-----------------------------------------------------------------------------
(* The image that is selected.  A second firmware would erase it while it  *)
(* is (findings), so that these theorems are about devices that are asked  *)
(* for one.                                                                *)
OneFirmware == \A f, g \in Firmware : f = g

NodeStep(n) ==
  \/ \E f \in Firmware : Status(n, f)
  \/ \E f \in Firmware : \E p \in PacketsOf(f) : Data(n, f, p)
  \/ Continue(n) \/ NodeStop(n) \/ Restart(n) \/ TakeReport(n)

LEMMA NodeSteps == NodeNext => \E n \in Node : NodeStep(n)
BY DEF NodeNext, NodeStep

LEMMA OthersStay ==
  ASSUME NodeInv, NEW n \in Node, NodeStep(n), NEW m \in Node, m # n
  PROVE  /\ cfg'[m] = cfg[m] /\ nvs'[m] = nvs[m] /\ task'[m] = task[m]
         /\ flash'[m] = flash[m] /\ boot'[m] = boot[m] /\ fin'[m] = fin[m]
         /\ next'[m] = next[m]
<1>1. \A f \in Firmware : PacketsOf(f) \subseteq Packet
  BY DEF PacketsOf, Packet
<1> QED
  BY <1>1, OthersUntouched DEF NodeStep

\* What a device that is asked for one firmware knows it by.
LEMMA NewMeansUnknown ==
  ASSUME NodeTypeOK, OneFirmware, NEW n \in Node, NEW f \in Firmware, New(n, f)
  PROVE  cfg[n].name = NoName /\ nvs[n].name = NoName
<1>1. cfg[n].name \in Name /\ nvs[n].name \in Name
  BY DEF NodeTypeOK, Config
<1>2. cfg[n].name \in {f, NoName} /\ nvs[n].name \in {f, NoName}
  BY <1>1 DEF OneFirmware, Name
<1>3. Loaded(n).name # f
  BY DEF New
<1> QED
  BY <1>2, <1>3 DEF Loaded

\* The image selected is complete, by a handler that has set the flag for mupgrade_stop.
Selected(n) == boot[n] # NoName => cfg[n].name # NoName /\ fin[n] /\ Whole(n, boot[n])

BootInv == NodeInv /\ \A n \in Node : Selected(n)

LEMMA SelectedStays ==
  ASSUME NodeInv, NEW n \in Node, Selected(n), boot'[n] = boot[n], flash'[n] = flash[n],
         fin'[n] = fin[n], cfg[n].name # NoName => cfg'[n].name # NoName
  PROVE  Selected(n)'
BY DEF Selected, Whole

LEMMA StatusSelects ==
  ASSUME NodeInv, OneFirmware, NEW n \in Node, Selected(n), NEW f \in Firmware, Status(n, f)
  PROVE  Selected(n)'
<1> USE DEF NodeInv
<1>0. NodeTypeOK /\ f # NoName
  OBVIOUS
<1>1. CASE StatusKnown(n, f)
  <2>1. UNCHANGED <<boot, flash, fin>> /\ cfg'[n].name = f
    BY <1>1 DEF StatusKnown, New, NodeTypeOK
  <2> QED
    BY <1>0, <2>1, SelectedStays
<1>2. CASE StatusRoot(n, f)
  <2>1. PICK g \in Firmware : Whole(n, g) /\ boot' = [boot EXCEPT ![n] = g]
    BY <1>2 DEF StatusRoot
  <2>2. cfg'[n] = Progress(Fresh(f), PacketNum[f], Packet) /\ fin'[n] = TRUE /\ flash' = flash
    BY <1>2 DEF StatusRoot, NodeTypeOK
  <2>3. cfg'[n].name = f
    BY <2>2 DEF Progress, Fresh
  <2>4. boot'[n] = g
    BY <2>1 DEF NodeTypeOK
  <2> QED
    BY <1>0, <2>1, <2>2, <2>3, <2>4 DEF Selected, Whole
<1>3. CASE StatusRootFails(n, f)
  <2>1. UNCHANGED <<boot, flash, fin>> /\ cfg'[n] = Fresh(f)
    BY <1>3 DEF StatusRootFails, NodeTypeOK
  <2> QED
    BY <1>0, <2>1, ConfigTypes, SelectedStays
<1>4. CASE StatusBegin(n, f) \/ StatusBeginFails(n, f)
  <2>1. New(n, f) /\ boot' = boot
    BY <1>4 DEF StatusBegin, StatusBeginFails
  <2>2. boot[n] = NoName
    BY <2>1, NewMeansUnknown DEF Selected
  <2> QED
    BY <2>1, <2>2 DEF Selected
<1> QED
  BY <1>1, <1>2, <1>3, <1>4 DEF Status

\* A packet of the firmware leaves a cell that holds it as it is.
LEMMA ProgrammedAgain ==
  ASSUME NodeTypeOK, NEW n \in Node, NEW f \in Firmware, NEW p \in Packet,
         flash' = [flash EXCEPT ![n][p] = Programmed(@, f)], Whole(n, f)
  PROVE  Whole(n, f)'
<1>1. flash[n] \in [Packet -> Cell]
  BY DEF NodeTypeOK
<1>2. PacketsOf(f) \subseteq Packet
  BY DEF PacketsOf, Packet
<1>3. flash'[n] = [flash[n] EXCEPT ![p] = Programmed(flash[n][p], f)]
  BY DEF NodeTypeOK
<1>4. ASSUME NEW q \in PacketsOf(f) PROVE flash'[n][q] = f
  <2>1. flash[n][q] = f
    BY DEF Whole
  <2>2. CASE q = p
    BY <1>1, <1>3, <2>1, <2>2 DEF Programmed
  <2>3. CASE q # p
    BY <1>1, <1>2, <1>3, <2>1, <2>3
  <2> QED
    BY <2>2, <2>3
<1> QED
  BY <1>4 DEF Whole

LEMMA DataSelects ==
  ASSUME NodeInv, OneFirmware, NEW n \in Node, Selected(n), NEW f \in Firmware, NEW p \in Packet,
         Data(n, f, p)
  PROVE  Selected(n)'
<1> USE DEF NodeInv
<1>1. CASE WriteNotInit(n)
  BY <1>1, SelectedStays DEF WriteNotInit, nodeVars
<1>2. CASE WriteRefused(n)
  <2>1. UNCHANGED <<boot, flash, fin>> /\ Loaded(n).name # NoName
        /\ cfg'[n] = Progress(Loaded(n), 0, {})
    BY <1>2 DEF WriteRefused, NodeTypeOK
  <2>2. cfg'[n].name # NoName
    BY <2>1 DEF Progress
  <2> QED
    BY <2>1, <2>2, SelectedStays
<1>3. CASE WriteIgnored(n, p)
  <2>1. UNCHANGED <<boot, flash, fin>> /\ cfg'[n].name # NoName
    BY <1>3 DEF WriteIgnored, Writable, NodeTypeOK
  <2> QED
    BY <2>1, SelectedStays
<1>4. CASE WriteFlash(n, f, p)
  <2>1. UNCHANGED <<boot, fin>> /\ cfg'[n].name # NoName
    BY <1>4 DEF WriteFlash, Writable, NodeTypeOK
  <2>2. flash' = [flash EXCEPT ![n][p] = Programmed(@, f)]
    BY <1>4 DEF WriteFlash
  <2>3. ASSUME boot[n] # NoName PROVE Whole(n, boot[n])'
    <3>1. boot[n] = f
      BY <2>3 DEF NodeTypeOK, Name, OneFirmware
    <3>2. Whole(n, f)'
      BY <2>2, <2>3, <3>1, ProgrammedAgain DEF Selected
    <3> QED
      BY <2>1, <3>1, <3>2
  <2> QED
    BY <2>1, <2>3 DEF Selected
<1> QED
  BY <1>1, <1>2, <1>3, <1>4 DEF Data

LEMMA ContinueSelects ==
  ASSUME NodeInv, NEW n \in Node, Selected(n), Continue(n)
  PROVE  Selected(n)'
<1> USE DEF NodeInv
<1>1. cfg[n].name # NoName
  BY DEF BusyKnowsName, Continue, StatusSave, WriteAccount, WriteErase, WriteSwitch,
         WriteSwitchFails, At
<1>2. CASE StatusSave(n) \/ WriteErase(n) \/ WriteSwitchFails(n)
  <2>1. UNCHANGED <<boot, flash, fin>> /\ cfg'[n].name = cfg[n].name
    BY <1>2 DEF StatusSave, WriteErase, WriteSwitchFails, NodeTypeOK
  <2> QED
    BY <2>1, SelectedStays
<1>3. CASE WriteAccount(n)
  <2>1. UNCHANGED <<boot, flash, fin>>
        /\ cfg'[n] = Progress(cfg[n], cfg[n].written + 1, cfg[n].bits \union {task[n].seq})
    BY <1>3 DEF WriteAccount, NodeTypeOK
  <2>2. cfg'[n].name = cfg[n].name
    BY <2>1 DEF Progress
  <2> QED
    BY <2>1, <2>2, SelectedStays
<1>4. CASE WriteSwitch(n)
  <2>1. PICK f \in Firmware : Whole(n, f) /\ boot' = [boot EXCEPT ![n] = f]
    BY <1>4 DEF WriteSwitch
  <2>2. fin'[n] = TRUE /\ UNCHANGED <<cfg, flash>>
    BY <1>4 DEF WriteSwitch, NodeTypeOK
  <2>3. boot'[n] = f
    BY <2>1 DEF NodeTypeOK
  <2> QED
    BY <1>1, <2>1, <2>2, <2>3 DEF Selected, Whole
<1> QED
  BY <1>2, <1>3, <1>4 DEF Continue

\* A stop deselects what was selected, whenever it comes.
LEMMA StopDeselects ==
  ASSUME NodeInv, NEW n \in Node, Selected(n), NodeStop(n)
  PROVE  boot'[n] = NoName
BY DEF NodeInv, Selected, NodeStop, BootAfterStop, NodeTypeOK

LEMMA BootInvStep ==
  ASSUME OneFirmware
  PROVE  BootInv /\ [NodeNext]_nodeVars => BootInv'
<1> SUFFICES ASSUME BootInv, [NodeNext]_nodeVars PROVE BootInv'
  OBVIOUS
<1>1. NodeInv /\ NodeInv'
  BY NodeInvStep DEF BootInv
<1>2. CASE UNCHANGED nodeVars
  BY <1>1, <1>2 DEF nodeVars, BootInv, Selected, Whole
<1>3. CASE NodeNext
  <2>1. PICK n \in Node : NodeStep(n)
    BY <1>3, NodeSteps
  <2>0. NodeInv /\ Selected(n)
    BY DEF BootInv
  <2>2. Selected(n)'
    <3>1. CASE \E f \in Firmware : \E p \in PacketsOf(f) : Data(n, f, p)
      <4>1. \A f \in Firmware : PacketsOf(f) \subseteq Packet
        BY DEF PacketsOf, Packet
      <4> QED
        BY <2>0, <3>1, <4>1, DataSelects
    <3>2. CASE Restart(n)
      <4>1. boot'[n] = NoName
        BY <1>1, <3>2 DEF Restart, NodeInv, NodeTypeOK
      <4> QED
        BY <4>1 DEF Selected
    <3>3. CASE TakeReport(n)
      BY <2>0, <3>3, SelectedStays DEF TakeReport
    <3>4. CASE NodeStop(n)
      BY <2>0, <3>4, StopDeselects DEF Selected
    <3> QED
      BY <2>0, <2>1, <3>1, <3>2, <3>3, <3>4, StatusSelects, ContinueSelects DEF NodeStep
  <2>3. ASSUME NEW m \in Node, m # n PROVE Selected(m)'
    BY <1>1, <2>1, <2>3, OthersStay DEF BootInv, Selected, Whole
  <2> QED
    BY <1>1, <2>2, <2>3 DEF BootInv
<1> QED
  BY <1>2, <1>3

LEMMA BootInvInit == NodeInit => BootInv
BY NodeInitHolds DEF NodeInit, BootInv, Selected

\* The image selected for the next boot is complete, whatever packets, requests, stops and
\* resets come and whatever call fails, on every device that is asked for one firmware.
THEOREM SelectedIsWhole == OneFirmware => (NodeSpec => []NeverBootsPartial)
<1> SUFFICES ASSUME OneFirmware PROVE NodeSpec => []NeverBootsPartial
  OBVIOUS
<1>1. BootInv => NeverBootsPartial
  BY DEF BootInv, Selected, NeverBootsPartial
<1> QED
  BY <1>1, BootInvInit, BootInvStep, PTL DEF NodeSpec

-----------------------------------------------------------------------------
(* A stop.  Nothing is selected once the device is stopped, and a handler  *)
(* works for an upgrade that goes on: its last step selects an image.      *)
NotSelected(n) ==
  /\ ~ At(n, "idle") => ~ cfg[n].stop
  /\ cfg[n].stop => boot[n] = NoName

StopInv == BootInv /\ \A n \in Node : NotSelected(n)

LEMMA StatusStops ==
  ASSUME NodeInv, OneFirmware, NEW n \in Node, Selected(n), NotSelected(n),
         NEW f \in Firmware, Status(n, f)
  PROVE  NotSelected(n)'
<1> USE DEF NodeInv
<1>1. CASE StatusKnown(n, f)
  <2>1. UNCHANGED <<boot, task>> /\ cfg'[n] = Loaded(n) /\ At(n, "idle")
    BY <1>1 DEF StatusKnown, NodeTypeOK
  <2>2. Loaded(n).stop => boot[n] = NoName
    BY DEF Loaded, NotSelected, Selected
  <2> QED
    BY <2>1, <2>2 DEF NotSelected, At
<1>2. CASE StatusRoot(n, f)
  <2>1. cfg'[n] = Progress(Fresh(f), PacketNum[f], Packet)
    BY <1>2 DEF StatusRoot, NodeTypeOK
  <2>2. ~ cfg'[n].stop
    BY <2>1 DEF Progress, Fresh
  <2> QED
    BY <2>2 DEF NotSelected
<1>3. CASE StatusRootFails(n, f) \/ StatusBegin(n, f) \/ StatusBeginFails(n, f)
  <2>1. cfg'[n] = Fresh(f)
    BY <1>3 DEF StatusRootFails, StatusBegin, StatusBeginFails, NodeTypeOK
  <2>2. ~ cfg'[n].stop
    BY <2>1 DEF Fresh
  <2> QED
    BY <2>2 DEF NotSelected
<1> QED
  BY <1>1, <1>2, <1>3 DEF Status

LEMMA DataStops ==
  ASSUME NodeInv, NEW n \in Node, Selected(n), NotSelected(n), NEW f \in Firmware,
         NEW p \in Packet, Data(n, f, p)
  PROVE  NotSelected(n)'
<1> USE DEF NodeInv
<1>1. Loaded(n).stop => boot[n] = NoName
  BY DEF Loaded, NotSelected, Selected
<1>2. CASE WriteNotInit(n)
  BY <1>2 DEF WriteNotInit, nodeVars, NotSelected, At
<1>3. CASE WriteRefused(n)
  <2>1. UNCHANGED <<boot, task>> /\ Loaded(n).stop /\ At(n, "idle")
    BY <1>3 DEF WriteRefused
  <2> QED
    BY <1>1, <2>1 DEF NotSelected, At
<1>4. CASE WriteIgnored(n, p) \/ WriteFlash(n, f, p)
  <2>1. cfg'[n] = Loaded(n) /\ ~ Loaded(n).stop
    BY <1>4 DEF WriteIgnored, WriteFlash, Writable, NodeTypeOK
  <2> QED
    BY <2>1 DEF NotSelected
<1> QED
  BY <1>2, <1>3, <1>4 DEF Data

LEMMA ContinueStops ==
  ASSUME NodeInv, NEW n \in Node, Selected(n), NotSelected(n), Continue(n)
  PROVE  NotSelected(n)'
<1> USE DEF NodeInv
<1>1. ~ cfg[n].stop
  BY DEF NotSelected, Continue, StatusSave, WriteAccount, WriteErase, WriteSwitch,
         WriteSwitchFails, At
<1>2. CASE StatusSave(n) \/ WriteErase(n) \/ WriteSwitch(n)
  BY <1>1, <1>2 DEF StatusSave, WriteErase, WriteSwitch, NotSelected
<1>3. CASE WriteAccount(n)
  <2>1. cfg'[n] = Progress(cfg[n], cfg[n].written + 1, cfg[n].bits \union {task[n].seq})
    BY <1>3 DEF WriteAccount, NodeTypeOK
  <2>2. ~ cfg'[n].stop
    BY <1>1, <2>1 DEF Progress
  <2> QED
    BY <2>2 DEF NotSelected
\* An image that is selected is complete, and so the one in the partition verifies.
<1>4. CASE WriteSwitchFails(n)
  <2>1. boot[n] = NoName
    <3>1. \A f \in Firmware : ~ Whole(n, f)
      BY <1>4 DEF WriteSwitchFails
    <3>2. boot[n] \in Firmware \union {NoName}
      BY DEF NodeTypeOK, Name
    <3> QED
      BY <3>1, <3>2 DEF Selected
  <2>2. boot'[n] = boot[n] /\ task'[n].step = "idle"
    BY <1>4 DEF WriteSwitchFails, NodeTypeOK, Idle, Doing
  <2> QED
    BY <2>1, <2>2 DEF NotSelected, At
<1> QED
  BY <1>2, <1>3, <1>4 DEF Continue

LEMMA StopInvStep ==
  ASSUME OneFirmware, ~ StopAnyTime
  PROVE  StopInv /\ [NodeNext]_nodeVars => StopInv'
<1> SUFFICES ASSUME StopInv, [NodeNext]_nodeVars PROVE StopInv'
  OBVIOUS
<1>1. BootInv' /\ NodeInv
  BY BootInvStep DEF StopInv, BootInv
<1>2. CASE UNCHANGED nodeVars
  BY <1>1, <1>2 DEF nodeVars, StopInv, NotSelected, At
<1>3. CASE NodeNext
  <2>1. PICK n \in Node : NodeStep(n)
    BY <1>3, NodeSteps
  <2>0. NodeInv /\ Selected(n) /\ NotSelected(n)
    BY DEF StopInv, BootInv
  <2>2. NotSelected(n)'
    <3>1. CASE \E f \in Firmware : \E p \in PacketsOf(f) : Data(n, f, p)
      <4>1. \A f \in Firmware : PacketsOf(f) \subseteq Packet
        BY DEF PacketsOf, Packet
      <4> QED
        BY <2>0, <3>1, <4>1, DataStops
    <3>2. CASE NodeStop(n)
      <4>1. boot'[n] = NoName /\ At(n, "idle") /\ task' = task
        BY <3>2, StopDeselects DEF NodeStop, StopInv, BootInv
      <4> QED
        BY <4>1 DEF NotSelected, At
    <3>3. CASE Restart(n)
      <4>1. cfg'[n] = Empty
        BY <1>1, <3>3 DEF Restart, NodeInv, NodeTypeOK
      <4> QED
        BY <4>1 DEF Empty, NotSelected
    <3>4. CASE TakeReport(n)
      BY <3>4 DEF TakeReport, StopInv, NotSelected, At
    <3> QED
      BY <2>0, <2>1, <3>1, <3>2, <3>3, <3>4, StatusStops, ContinueStops DEF NodeStep
  <2>3. ASSUME NEW m \in Node, m # n PROVE NotSelected(m)'
    BY <1>1, <2>1, <2>3, OthersStay DEF StopInv, NotSelected, At
  <2> QED
    BY <1>1, <2>2, <2>3 DEF StopInv
<1> QED
  BY <1>2, <1>3

LEMMA StopInvInit == NodeInit => StopInv
<1> SUFFICES ASSUME NodeInit PROVE StopInv
  OBVIOUS
<1>1. \A n \in Node : cfg[n] = Empty
  BY DEF NodeInit
<1> QED
  BY <1>1, BootInvInit DEF StopInv, NotSelected, Empty

\* When mupgrade_stop is called by the task that handles the messages, a device that is
\* stopped stays with its image at its next boot, whatever came before, whatever call fails
\* and on which side of the last packet the stop was.
THEOREM StoppedStays ==
  OneFirmware /\ ~ StopAnyTime => (NodeSpec => []StoppedNeverSwitches)
<1> SUFFICES ASSUME OneFirmware, ~ StopAnyTime PROVE NodeSpec => []StoppedNeverSwitches
  OBVIOUS
<1>1. StopInv => StoppedNeverSwitches
  BY DEF StopInv, NotSelected, StoppedNeverSwitches
<1> QED
  BY <1>1, StopInvInit, StopInvStep, PTL DEF NodeSpec

-----------------------------------------------------------------------------
(* What the bits promise.  BitsAreFlashed needs the whole story of an      *)
(* upgrade: that the partition was erased before the first packet, that    *)
(* the record is gone before an image is selected, and that no packet is   *)
(* counted after the last one, since the reset that follows gives the      *)
(* partition to another image.                                             *)

\* The calls that must not fail for it: without the erase the partition keeps what was in
\* it, and a record that stays is loaded when its image runs already.
ErasesWork == "ota_begin" \notin Faults /\ "info_erase" \notin Faults

\* The cells hold nothing but packets of c's firmware, among them those of c's bits.
Holds(cells, c) ==
  /\ c.name = NoName => c.bits = {}
  /\ c.name # NoName => \A p \in Packet : cells[p] \in {Blank, c.name}
  /\ \A p \in c.bits : cells[p] = c.name /\ p \in PacketsOf(c.name)

Promised(n) ==
  /\ Holds(flash[n], cfg[n]) /\ Holds(flash[n], nvs[n])
  /\ At(n, "written") => /\ flash[n][task[n].seq] = cfg[n].name
                         /\ task[n].seq \in PacketsOf(cfg[n].name)
  /\ At(n, "begun") => cfg[n].bits = {}
  /\ At(n, "complete") \/ At(n, "switch") \/ boot[n] # NoName =>
       cfg[n].written = PacketNum[cfg[n].name]
  /\ At(n, "switch") \/ boot[n] # NoName => nvs[n] = Empty

FlashInv == StopInv /\ CountInv /\ \A n \in Node \ RootNode : Promised(n)

\* What the handlers of one device rely on.
Sound(n) == Selected(n) /\ NotSelected(n) /\ Exact(n) /\ Promised(n)

LEMMA HoldsNothing ==
  /\ \A cells : Holds(cells, Empty)
  /\ \A f \in Firmware : Holds(Erased, Fresh(f))
BY DEF Holds, Empty, Fresh, Erased

LEMMA HoldsSaved ==
  ASSUME RecordIsWhole, NEW c \in Config, NEW cells, Holds(cells, c)
  PROVE  Holds(cells, Saved(c))
<1>1. Saved(c).bits = c.bits /\ Saved(c).name = c.name
  BY SavedWhole DEF Saved, Progress
<1> QED
  BY <1>1 DEF Holds

LEMMA HoldsFewer ==
  ASSUME NEW c \in Config, NEW cells, Holds(cells, c)
  PROVE  \A w : Holds(cells, Progress(c, w, {})) /\ Holds(cells, Stopped(c))
BY DEF Holds, Progress, Stopped

\* The record, whether it is saved, erased or neither.
LEMMA RecordHolds ==
  ASSUME NodeTypeOK, RecordIsWhole, NEW n \in Node, NEW c \in Config, NEW cells,
         Holds(cells, nvs[n]), Holds(cells, c),
         SaveRecord(n, c) \/ EraseRecord(n) \/ UNCHANGED nvs
  PROVE  Holds(cells, nvs'[n])
<1>1. nvs'[n] \in {nvs[n], Saved(c), Empty}
  BY DEF NodeTypeOK, SaveRecord, EraseRecord
<1> QED
  BY <1>1, HoldsNothing, HoldsSaved

\* A packet of the firmware that is known.
LEMMA HoldsProgrammed ==
  ASSUME NEW cells \in [Packet -> Cell], NEW f \in Firmware, NEW p \in Packet,
         NEW c \in Config, c.name \in {f, NoName}, Holds(cells, c)
  PROVE  Holds([cells EXCEPT ![p] = Programmed(cells[p], f)], c)
<1> DEFINE new == [cells EXCEPT ![p] = Programmed(cells[p], f)]
<1>1. CASE c.name = NoName
  BY <1>1 DEF Holds
<1>2. CASE c.name = f
  <2>1. \A q \in Packet : cells[q] \in {Blank, f}
    BY <1>2 DEF Holds
  <2>2. new[p] = f /\ \A q \in Packet : q # p => new[q] = cells[q]
    BY <2>1 DEF Programmed
  <2>3. c.bits \subseteq Packet
    BY DEF Config
  <2> HIDE DEF new
  <2>4. \A q \in Packet : new[q] \in {Blank, f}
    BY <2>1, <2>2
  <2>5. \A q \in c.bits : new[q] = f /\ q \in PacketsOf(f)
    BY <1>2, <2>2, <2>3 DEF Holds
  <2>6. Holds(new, c)
    BY <1>2, <2>4, <2>5 DEF Holds
  <2> QED
    BY <2>6 DEF new
<1> QED
  BY <1>1, <1>2

LEMMA CellProgrammed ==
  ASSUME NEW cells \in [Packet -> Cell], NEW f \in Firmware, NEW p \in Packet,
         cells[p] \in {Blank, f}
  PROVE  [cells EXCEPT ![p] = Programmed(cells[p], f)][p] = f
BY DEF Programmed

LEMMA NotYetFull ==
  ASSUME NEW f \in Firmware, NEW b \in SUBSET PacketsOf(f), NEW p \in PacketsOf(f), p \notin b
  PROVE  Cardinality(b) + 1 =< PacketNum[f]
<1>1. PacketNum[f] \in Nat \ {0} /\ PacketsOf(f) \subseteq Packet
  BY DEF PacketsOf, Packet
<1>2. IsFiniteSet(PacketsOf(f)) /\ Cardinality(PacketsOf(f)) = PacketNum[f]
  <2>1. 0 \in Int /\ PacketNum[f] - 1 \in Int /\ ~ 0 > PacketNum[f] - 1
    BY <1>1
  <2>2. Cardinality(PacketsOf(f)) = (PacketNum[f] - 1) - 0 + 1
    BY <2>1, FS_Interval DEF PacketsOf
  <2> QED
    BY <1>1, <2>1, <2>2, FS_Interval DEF PacketsOf
<1>3. Cardinality(b \union {p}) = Cardinality(b) + 1
  BY <1>1, OneMoreBit
<1>4. b \union {p} \subseteq PacketsOf(f)
  OBVIOUS
<1>5. Cardinality(b \union {p}) =< Cardinality(PacketsOf(f))
  BY <1>2, <1>4, FS_Subset
<1> QED
  BY <1>2, <1>3, <1>5

\* Of the device's firmware only one name can be known.
LEMMA KnownNames ==
  ASSUME NodeTypeOK, OneFirmware, NEW n \in Node, NEW f \in Firmware
  PROVE  /\ cfg[n] \in Config /\ nvs[n] \in Config /\ Loaded(n) \in Config
         /\ cfg[n].name \in {f, NoName} /\ nvs[n].name \in {f, NoName}
         /\ Loaded(n).name \in {f, NoName}
<1>1. cfg[n] \in Config /\ nvs[n] \in Config /\ Loaded(n) \in Config
  BY LoadedType DEF NodeTypeOK
<1>2. \A c \in Config : c.name \in {f, NoName}
  BY DEF Config, Name, OneFirmware
<1> QED
  BY <1>1, <1>2

LEMMA LoadedHolds ==
  ASSUME NEW n \in Node, Promised(n)
  PROVE  Holds(flash[n], Loaded(n))
BY DEF Promised, Loaded

LEMMA StatusPromises ==
  ASSUME NodeInv, OneFirmware, RecordIsWhole, ErasesWork, NEW n \in Node \ RootNode, Sound(n),
         NEW f \in Firmware, Status(n, f)
  PROVE  Promised(n)'
<1> USE DEF Sound, NodeInv
<1>1. CASE StatusKnown(n, f)
  <2>1. UNCHANGED <<nvs, flash, boot, task>> /\ cfg'[n] = Loaded(n) /\ At(n, "idle")
    BY <1>1 DEF StatusKnown, NodeTypeOK
  <2>2. Holds(flash[n], Loaded(n)) /\ Promised(n)
    BY LoadedHolds
  <2>3. boot[n] # NoName => Loaded(n) = cfg[n]
    BY DEF Selected, Loaded
  <2> QED
    BY <2>1, <2>2, <2>3 DEF Promised, At
<1>2. CASE StatusBegin(n, f)
  <2>1. UNCHANGED <<nvs, boot>> /\ cfg'[n] = Fresh(f) /\ flash'[n] = Erased
        /\ task'[n] = Doing("begun") /\ New(n, f)
    BY <1>2 DEF StatusBegin, NodeTypeOK
  <2>2. nvs[n].name = NoName /\ cfg[n].name = NoName
    BY <2>1, NewMeansUnknown
  <2>3. boot[n] = NoName
    BY <2>2 DEF Selected
  <2>4. Holds(flash'[n], nvs'[n])
    BY <2>1, <2>2 DEF Promised, Holds
  <2>5. Holds(flash'[n], cfg'[n]) /\ cfg'[n].bits = {}
    BY <2>1, HoldsNothing DEF Fresh
  <2> QED
    BY <2>1, <2>3, <2>4, <2>5 DEF Promised, At, Doing
<1> QED
  BY <1>1, <1>2
  DEF Status, StatusRoot, StatusRootFails, StatusBeginFails, May, ErasesWork

LEMMA DataPromises ==
  ASSUME NodeInv, OneFirmware, RecordIsWhole, ErasesWork, NEW n \in Node \ RootNode, Sound(n),
         NEW f \in Firmware, NEW p \in PacketsOf(f), Data(n, f, p)
  PROVE  Promised(n)'
<1> USE DEF Sound, NodeInv
<1>1. /\ Promised(n) /\ Holds(flash[n], Loaded(n)) /\ p \in Packet
      /\ boot[n] # NoName => Loaded(n) = cfg[n]
  <2>1. p \in Packet
    BY DEF PacketsOf, Packet
  <2>2. boot[n] # NoName => Loaded(n) = cfg[n]
    BY DEF Selected, Loaded
  <2> QED
    BY <2>1, <2>2, LoadedHolds
<1>2. CASE WriteNotInit(n)
  BY <1>1, <1>2 DEF WriteNotInit, nodeVars, Promised, At
<1>3. CASE WriteRefused(n)
  <2>1. /\ UNCHANGED <<flash, boot, task>> /\ At(n, "idle") /\ Loaded(n).stop
        /\ cfg'[n] = Progress(Loaded(n), 0, {}) /\ nvs'[n] = Empty
    BY <1>3 DEF WriteRefused, EraseRecord, May, ErasesWork, NodeTypeOK
  <2>2. boot[n] = NoName
    BY <1>1, <2>1 DEF NotSelected
  <2>3. Holds(flash'[n], cfg'[n]) /\ Holds(flash'[n], nvs'[n])
    BY <1>1, <2>1, KnownNames, HoldsFewer, HoldsNothing
  <2> QED
    BY <2>1, <2>2, <2>3 DEF Promised, At
<1>4. CASE WriteIgnored(n, p)
  <2>1. UNCHANGED <<nvs, flash, boot, task>> /\ cfg'[n] = Loaded(n) /\ At(n, "idle")
    BY <1>4 DEF WriteIgnored, Writable, NodeTypeOK
  <2> QED
    BY <1>1, <2>1 DEF Promised, At
<1>5. CASE WriteFlash(n, f, p)
  <2>1. /\ UNCHANGED <<nvs, boot>> /\ At(n, "idle") /\ cfg'[n] = Loaded(n)
        /\ Loaded(n).name # NoName /\ task'[n] = Writing(p)
    BY <1>5 DEF WriteFlash, Writable, NodeTypeOK
  <2>2. flash'[n] = [flash[n] EXCEPT ![p] = Programmed(flash[n][p], f)]
        /\ flash[n] \in [Packet -> Cell]
    BY <1>1, <1>5 DEF WriteFlash, NodeTypeOK
  <2>3. Loaded(n).name = f
    BY <2>1, KnownNames
  <2>4. Holds(flash'[n], cfg'[n]) /\ Holds(flash'[n], nvs'[n])
    BY <1>1, <2>1, <2>2, KnownNames, HoldsProgrammed DEF Promised
  <2>5. flash[n][p] \in {Blank, f}
    BY <1>1, <2>1, <2>3 DEF Holds
  <2>6. flash'[n][p] = f
    BY <1>1, <2>2, <2>5, CellProgrammed
  <2>7. task'[n].seq = p /\ task'[n].step = "written"
    BY <2>1 DEF Writing
  <2>8. boot'[n] # NoName => /\ cfg'[n].written = PacketNum[cfg'[n].name]
                             /\ nvs'[n] = Empty
    BY <1>1, <2>1 DEF Promised
  <2> QED
    BY <2>1, <2>3, <2>4, <2>6, <2>7, <2>8 DEF Promised, At
<1> QED
  BY <1>2, <1>3, <1>4, <1>5 DEF Data

LEMMA AccountPromises ==
  ASSUME NodeInv, RecordIsWhole, NEW n \in Node \ RootNode, Sound(n), WriteAccount(n)
  PROVE  Promised(n)'
<1> USE DEF Sound, NodeInv
<1> DEFINE seq == task[n].seq
           c == Progress(cfg[n], cfg[n].written + 1, cfg[n].bits \union {seq})
<1>1. /\ UNCHANGED <<flash, boot>> /\ cfg'[n] = c /\ At(n, "written")
      /\ task'[n] = IF c.written = PacketNum[c.name] THEN Doing("complete") ELSE Idle
      /\ SaveRecord(n, c) \/ UNCHANGED nvs
  BY DEF WriteAccount, NodeTypeOK
<1>2. /\ cfg[n].name \in Firmware /\ cfg[n] \in Config /\ seq \in Packet
      /\ ~ cfg[n].stop /\ cfg[n].written = Cardinality(cfg[n].bits) /\ seq \notin cfg[n].bits
  BY <1>1 DEF BusyKnowsName, At, Exact, NodeTypeOK, Task, Config, Name
<1>3. /\ Holds(flash[n], cfg[n]) /\ Holds(flash[n], nvs[n])
      /\ flash[n][seq] = cfg[n].name /\ seq \in PacketsOf(cfg[n].name)
  BY <1>1 DEF Promised
\* It was not the last but one, or something is missing of it.
<1>4. boot[n] = NoName
  <2>1. cfg[n].bits \in SUBSET PacketsOf(cfg[n].name)
    BY <1>3 DEF Holds
  <2>2. Cardinality(cfg[n].bits) + 1 =< PacketNum[cfg[n].name]
    BY <1>2, <1>3, <2>1, NotYetFull
  <2>3. PacketNum[cfg[n].name] \in Nat /\ cfg[n].written \in Nat
    BY <1>2 DEF Config
  <2>4. cfg[n].written # PacketNum[cfg[n].name]
    BY <1>2, <2>2, <2>3
  <2> QED
    BY <2>4 DEF Promised
<1>5. c \in Config /\ c.name = cfg[n].name /\ c.bits = cfg[n].bits \union {seq}
  <2>1. cfg[n].written + 1 \in Nat /\ cfg[n].bits \union {seq} \in SUBSET Packet
    BY <1>2 DEF Config
  <2> QED
    BY <1>2, <2>1, ChangedType DEF Progress
<1> HIDE DEF c, seq
<1>6. Holds(flash[n], c)
  BY <1>3, <1>5, NoName \notin Firmware, <1>2 DEF Holds
<1>7. Holds(flash[n], nvs'[n])
  BY <1>1, <1>3, <1>5, <1>6, RecordHolds
<1>8. task'[n].step \in {"complete", "idle"}
      /\ (task'[n].step = "complete" => c.written = PacketNum[c.name])
  BY <1>1 DEF Doing, Idle
<1> QED
  BY <1>1, <1>4, <1>6, <1>7, <1>8 DEF Promised, At

LEMMA ContinuePromises ==
  ASSUME NodeInv, OneFirmware, RecordIsWhole, ErasesWork, NEW n \in Node \ RootNode, Sound(n),
         Continue(n)
  PROVE  Promised(n)'
<1> USE DEF Sound, NodeInv
<1>1. /\ Promised(n) /\ cfg[n] \in Config
      /\ cfg[n].name \in Firmware /\ cfg[n].written = Cardinality(cfg[n].bits)
  BY DEF Continue, StatusSave, WriteAccount, WriteErase, WriteSwitch, WriteSwitchFails,
         BusyKnowsName, At, Exact, NodeTypeOK, Config, Name
<1>2. CASE StatusSave(n)
  <2>1. UNCHANGED <<cfg, flash, boot>> /\ SaveRecord(n, cfg[n]) /\ task'[n] = Idle
        /\ At(n, "begun")
    BY <1>2 DEF StatusSave, NodeTypeOK
  <2>2. boot[n] = NoName
    <3>1. cfg[n].written = 0
      BY <1>1, <2>1, NothingCounted DEF Promised
    <3>2. PacketNum[cfg[n].name] \in 1 .. MaxPacket
      BY <1>1
    <3>3. PacketNum[cfg[n].name] # 0
      BY <3>2
    <3> QED
      BY <1>1, <3>1, <3>3 DEF Promised
  <2>3. Holds(flash[n], nvs'[n])
    BY <1>1, <2>1, RecordHolds DEF Promised
  <2> QED
    BY <1>1, <2>1, <2>2, <2>3 DEF Promised, At, Idle, Doing
<1>3. CASE WriteErase(n)
  <2>1. UNCHANGED <<cfg, flash, boot>> /\ nvs'[n] = Empty /\ task'[n] = Doing("switch")
        /\ At(n, "complete")
    BY <1>3 DEF WriteErase, EraseRecord, May, ErasesWork, NodeTypeOK
  <2> QED
    BY <1>1, <2>1, HoldsNothing DEF Promised, At, Doing
<1>4. CASE WriteSwitch(n)
  <2>1. UNCHANGED <<cfg, flash, nvs>> /\ task'[n] = Idle /\ At(n, "switch")
    BY <1>4 DEF WriteSwitch, NodeTypeOK
  <2> QED
    BY <1>1, <2>1 DEF Promised, At, Idle, Doing
<1>5. CASE WriteSwitchFails(n)
  <2>1. UNCHANGED <<flash, nvs, boot>> /\ task'[n] = Idle
        /\ cfg'[n].name = cfg[n].name /\ cfg'[n].bits = cfg[n].bits /\ cfg'[n].stop
    BY <1>5 DEF WriteSwitchFails, NodeTypeOK
  <2>2. boot'[n] = NoName
    BY <1>5, <2>1, ContinueStops DEF NotSelected, Continue
  <2> QED
    BY <1>1, <2>1, <2>2 DEF Promised, Holds, At, Idle, Doing
<1> QED
  BY <1>2, <1>3, <1>4, <1>5, AccountPromises DEF Continue

LEMMA OtherStepPromises ==
  ASSUME NodeInv, RecordIsWhole, ErasesWork, NEW n \in Node \ RootNode, Sound(n),
         NodeStop(n) \/ Restart(n) \/ TakeReport(n)
  PROVE  Promised(n)'
<1> USE DEF Sound, NodeInv
<1>1. Promised(n) /\ cfg[n] \in Config
  BY DEF NodeTypeOK
<1>2. CASE NodeStop(n)
  <2>1. UNCHANGED <<flash, task>> /\ cfg'[n] = Stopped(cfg[n]) /\ nvs'[n] = Empty /\ At(n, "idle")
    BY <1>2 DEF NodeStop, EraseRecord, May, ErasesWork, RecordIsWhole, NodeTypeOK
  <2>2. boot'[n] = NoName
    BY <1>2, StopDeselects
  <2>3. Holds(flash'[n], cfg'[n]) /\ Holds(flash'[n], nvs'[n])
    BY <1>1, <2>1, HoldsFewer, HoldsNothing DEF Promised
  <2> QED
    BY <2>1, <2>2, <2>3 DEF Promised, At
<1>3. CASE Restart(n)
  <2>1. cfg'[n] = Empty /\ task'[n] = Idle /\ boot'[n] = NoName /\ nvs' = nvs
        /\ (boot[n] = NoName => flash'[n] = flash[n])
    BY <1>3 DEF Restart, NodeTypeOK
  <2>2. Holds(flash'[n], nvs'[n])
    BY <1>1, <2>1, HoldsNothing DEF Promised
  <2>3. Holds(flash'[n], cfg'[n])
    BY <2>1, HoldsNothing
  <2> QED
    BY <2>1, <2>2, <2>3 DEF Promised, At, Idle, Doing
<1>4. CASE TakeReport(n)
  BY <1>1, <1>4 DEF TakeReport, Promised, At
<1> QED
  BY <1>2, <1>3, <1>4

LEMMA SoundStep ==
  ASSUME NodeInv, OneFirmware, RecordIsWhole, ErasesWork, NEW n \in Node \ RootNode,
         Sound(n), NodeStep(n)
  PROVE  Sound(n)'
<1> USE DEF Sound
<1>0. \A f \in Firmware : PacketsOf(f) \subseteq Packet
  BY DEF PacketsOf, Packet
<1>1. CASE \E f \in Firmware : Status(n, f)
  BY <1>1, StatusSelects, StatusStops, StatusExact, StatusPromises
<1>2. CASE \E f \in Firmware : \E p \in PacketsOf(f) : Data(n, f, p)
  <2>1. PICK f \in Firmware : \E p \in PacketsOf(f) : Data(n, f, p)
    BY <1>2
  <2>2. PICK p \in PacketsOf(f) : Data(n, f, p)
    BY <2>1
  <2>3. p \in Packet
    BY <1>0
  <2> QED
    BY <2>2, <2>3, DataSelects, DataStops, DataExact, DataPromises
<1>3. CASE Continue(n)
  BY <1>3, ContinueSelects, ContinueStops, ContinueExact, ContinuePromises
<1>4. CASE NodeStop(n) \/ Restart(n) \/ TakeReport(n)
  <2>1. Exact(n)' /\ Promised(n)'
    BY <1>4, OtherStepExact, OtherStepPromises
  <2>2. Selected(n)' /\ NotSelected(n)'
    <3>1. CASE NodeStop(n)
      <4>1. boot'[n] = NoName /\ At(n, "idle") /\ task' = task
        BY <3>1, StopDeselects DEF NodeStop, RecordIsWhole
      <4> QED
        BY <4>1 DEF Selected, NotSelected, At
    <3>2. CASE Restart(n)
      <4>1. boot'[n] = NoName /\ cfg'[n] = Empty
        BY <3>2 DEF Restart, NodeInv, NodeTypeOK
      <4> QED
        BY <4>1 DEF Selected, NotSelected, Empty
    <3>3. CASE TakeReport(n)
      BY <3>3 DEF TakeReport, Selected, NotSelected, Whole, At
    <3> QED
      BY <1>4, <3>1, <3>2, <3>3
  <2> QED
    BY <2>1, <2>2
<1> QED
  BY <1>1, <1>2, <1>3, <1>4 DEF NodeStep

LEMMA FlashInvStep ==
  ASSUME OneFirmware, RecordIsWhole, ErasesWork
  PROVE  FlashInv /\ [NodeNext]_nodeVars => FlashInv'
<1> SUFFICES ASSUME FlashInv, [NodeNext]_nodeVars PROVE FlashInv'
  OBVIOUS
<1>1. StopInv' /\ CountInv' /\ NodeInv
  BY StopInvStep, CountInvStep DEF RecordIsWhole, FlashInv, CountInv
<1>2. CASE UNCHANGED nodeVars
  BY <1>1, <1>2 DEF nodeVars, FlashInv, Promised, At
<1>3. CASE NodeNext
  <2>1. PICK n \in Node : NodeStep(n)
    BY <1>3, NodeSteps
  <2>2. n \notin RootNode => Promised(n)'
    <3>1. n \notin RootNode => Sound(n)
      BY DEF FlashInv, StopInv, BootInv, CountInv, Sound
    <3> QED
      BY <1>1, <2>1, <3>1, SoundStep DEF Sound
  <2>3. ASSUME NEW m \in Node \ RootNode, m # n PROVE Promised(m)'
    BY <1>1, <2>1, <2>3, OthersStay DEF FlashInv, Promised, At
  <2> QED
    BY <1>1, <2>2, <2>3 DEF FlashInv
<1> QED
  BY <1>2, <1>3

LEMMA FlashInvInit == NodeInit => FlashInv
<1> SUFFICES ASSUME NodeInit PROVE FlashInv
  OBVIOUS
<1>1. \A n \in Node : /\ cfg[n] = Empty /\ nvs[n] = Empty /\ task[n].step = "idle"
                      /\ boot[n] = NoName
  BY DEF NodeInit, Idle, Doing
<1> QED
  BY <1>1, StopInvInit, CountInvInit, HoldsNothing DEF FlashInv, Promised, At

\* A set bit of the progress array, in RAM or in the record a reset will load, stands for a
\* packet that is in the partition: through duplicates, refused packets, stops and resets
\* between any two effects, and whatever else fails than the two calls that erase, on a
\* device that is asked for one firmware.
THEOREM BitsKeepTheirPromise ==
  OneFirmware /\ RecordIsWhole /\ ErasesWork => (NodeSpec => []BitsAreFlashed)
<1> SUFFICES ASSUME OneFirmware, RecordIsWhole, ErasesWork
             PROVE  NodeSpec => []BitsAreFlashed
  OBVIOUS
<1>1. FlashInv => BitsAreFlashed
  BY LoadedHolds DEF FlashInv, BitsAreFlashed, Holds
<1> QED
  BY <1>1, FlashInvInit, FlashInvStep, PTL DEF NodeSpec

-----------------------------------------------------------------------------
(* How much a reset costs.  The record is saved at the percentage that is  *)
(* due and at no other, so that the bound needs that no percentage is      *)
(* jumped over: packets of less than a percent, which any firmware for     *)
(* this chip has.  s_next_written_percentage is not reset when another     *)
(* firmware begins, so that again it is one.                               *)
SmallPackets == \A f \in Firmware : PacketNum[f] >= 100
SavesWork == "info_save" \notin Faults

\* Of a configuration c, the record r of it and the percentage that is due: the record is
\* at most two intervals from what is due, and c either is not before it or not yet due.
Behind(c, r, due, begun) ==
  /\ c.name = NoName \/ begun => due = Interval
  /\ r.name # NoName /\ c.name \in {r.name, NoName} => due =< Percent(r) + 2 * Interval
  /\ r.name # NoName /\ c.name = r.name => Percent(c) =< Percent(r) \/ Percent(c) < due

Periodic(n) == Behind(cfg[n], nvs[n], next[n], At(n, "begun"))

PeriodInv == NodeInv /\ \A n \in Node \ RootNode : Periodic(n)

LEMMA Quotient ==
  ASSUME NEW a \in Nat, NEW k \in Nat, NEW b \in Nat \ {0}
  PROVE  /\ a \div b \in Nat /\ (a \div b) * b =< a /\ a < (a \div b) * b + b
         /\ a < k * b => a \div b < k
BY SMT

LEMMA OnePacketMore ==
  ASSUME SmallPackets, NEW c \in Config, c.name \in Firmware, NEW b
  PROVE  Percent(Progress(c, c.written + 1, b)) =< Percent(c) + 1
<1> DEFINE size == PacketNum[c.name]
           w == c.written
           q == (w * 100) \div size
<1>1. size \in Nat \ {0} /\ size >= 100 /\ w \in Nat /\ w * 100 \in Nat /\ (w + 1) * 100 \in Nat
  BY DEF SmallPackets, Config
<1>2. Percent(c) = q /\ Percent(Progress(c, w + 1, b)) = ((w + 1) * 100) \div size
  BY DEF Percent, Progress
<1>3. q \in Nat /\ w * 100 < q * size + size
  BY <1>1, Quotient
<1> HIDE DEF q, size, w
<1>4. (q + 2) * size = q * size + size + size /\ q * size \in Nat
  BY <1>1, <1>3
<1>5. (w + 1) * 100 < (q + 2) * size
  BY <1>1, <1>3, <1>4
<1>6. ((w + 1) * 100) \div size < q + 2 /\ ((w + 1) * 100) \div size \in Nat
  <2>1. q + 2 \in Nat /\ (w + 1) * 100 \in Nat /\ size \in Nat \ {0}
    BY <1>1, <1>3
  <2> QED
    BY <1>5, <2>1, Quotient
<1> QED
  BY <1>2, <1>3, <1>6 DEF w

\* What is due after a percentage that was too late is ahead of it, by one interval at most.
LEMMA NextDue ==
  ASSUME NEW percent \in Nat
  PROVE  /\ (percent \div Interval + 1) * Interval \in Nat
         /\ percent < (percent \div Interval + 1) * Interval
         /\ (percent \div Interval + 1) * Interval =< percent + Interval
<1> DEFINE q == percent \div Interval
<1>1. Interval \in Nat \ {0}
  OBVIOUS
<1>2. q \in Nat /\ q * Interval =< percent /\ percent < q * Interval + Interval
  BY <1>1, Quotient
<1> HIDE DEF q
<1>3. (q + 1) * Interval = q * Interval + Interval /\ q * Interval \in Nat
  BY <1>1, <1>2
<1> QED
  BY <1>1, <1>2, <1>3 DEF q

LEMMA NothingWritten ==
  ASSUME NEW c, c.name \in Firmware, c.written = 0
  PROVE  Percent(c) = 0
<1>1. PacketNum[c.name] \in Nat \ {0} /\ 0 * 100 = 0
  OBVIOUS
<1>2. 0 \div PacketNum[c.name] \in Nat /\ 0 \div PacketNum[c.name] < 1
  BY <1>1, Quotient, 0 < 1 * PacketNum[c.name]
<1> QED
  BY <1>1, <1>2 DEF Percent

LEMMA SavedPercent == \A c \in Config : Percent(Saved(c)) = Percent(c) /\ Saved(c).name = c.name
BY DEF Percent, Saved, Progress

LEMMA KnownIsFirmware ==
  ASSUME NodeTypeOK, NEW n \in Node
  PROVE  /\ cfg[n] \in Config /\ nvs[n] \in Config /\ Loaded(n) \in Config /\ next[n] \in Nat
         /\ \A c \in Config : c.name # NoName => c.name \in Firmware /\ Percent(c) \in Nat
         /\ Empty.name = NoName
<1>1. cfg[n] \in Config /\ nvs[n] \in Config /\ next[n] \in Nat
  BY DEF NodeTypeOK
<1>2. \A c \in Config : c.name # NoName => c.name \in Firmware
  BY DEF Config, Name
<1> QED
  BY <1>1, <1>2, LoadedType, PercentType DEF Empty

\* The configuration was loaded, or set to nothing by a stop, whether the record went or not.
LEMMA LoadedPeriodic ==
  ASSUME NodeTypeOK, NEW n \in Node, Periodic(n)
  PROVE  Behind(Loaded(n), nvs[n], next[n], FALSE)
<1>1. CASE cfg[n].name # NoName
  BY <1>1 DEF Periodic, Behind, Loaded
<1>2. CASE cfg[n].name = NoName
  <2>1. Loaded(n) = nvs[n] /\ next[n] = Interval
    BY <1>2 DEF Periodic, Behind, Loaded
  <2>2. nvs[n].name # NoName => next[n] =< Percent(nvs[n]) + 2 * Interval
    BY <1>2 DEF Periodic, Behind
  <2>3. nvs[n].name # NoName => Percent(nvs[n]) \in Nat
    BY KnownIsFirmware
  <2>4. nvs[n].name # NoName => Percent(nvs[n]) =< Percent(nvs[n])
    BY <2>3
  <2> QED
    BY <2>1, <2>2, <2>4 DEF Behind
<1> QED
  BY <1>1, <1>2

LEMMA EmptiedPeriodic ==
  ASSUME NodeTypeOK, NEW n \in Node, NEW c \in Config, NEW d \in Config, NEW r, NEW due,
         NEW begun \in BOOLEAN, Behind(c, nvs[n], due, begun),
         r \in {nvs[n], Empty}, d.name = c.name, d.written = 0
  PROVE  Behind(d, r, due, begun)
<1>1. CASE r = Empty
  BY <1>1, KnownIsFirmware DEF Behind
<1>2. CASE r = nvs[n]
  <2>1. nvs[n].name # NoName /\ d.name = nvs[n].name => Percent(d) =< Percent(nvs[n])
    <3> SUFFICES ASSUME nvs[n].name # NoName, d.name = nvs[n].name
                 PROVE  Percent(d) =< Percent(nvs[n])
      OBVIOUS
    <3>1. d.name \in Firmware /\ Percent(nvs[n]) \in Nat
      BY KnownIsFirmware
    <3>2. Percent(d) = 0
      BY <3>1, NothingWritten
    <3> QED
      BY <3>1, <3>2
  <2> QED
    BY <1>2, <2>1 DEF Behind
<1> QED
  BY <1>1, <1>2

LEMMA StatusPeriodic ==
  ASSUME PeriodInv, OneFirmware, NEW n \in Node \ RootNode, NEW f \in Firmware, Status(n, f)
  PROVE  Periodic(n)'
<1> USE DEF PeriodInv, NodeInv
<1>1. CASE StatusKnown(n, f)
  <2>1. UNCHANGED <<nvs, next, task>> /\ cfg'[n] = Loaded(n) /\ At(n, "idle")
    BY <1>1 DEF StatusKnown, NodeTypeOK
  <2>2. Behind(Loaded(n), nvs[n], next[n], FALSE)
    BY LoadedPeriodic
  <2>3. ~ At(n, "begun")'
    BY <2>1 DEF At
  <2> QED
    BY <2>1, <2>2, <2>3 DEF Periodic, Behind, Percent
<1>2. CASE StatusBegin(n, f) \/ StatusBeginFails(n, f)
  <2>1. UNCHANGED <<nvs, next>> /\ New(n, f)
    BY <1>2 DEF StatusBegin, StatusBeginFails
  <2>2. nvs[n].name = NoName /\ next[n] = Interval
    BY <2>1, NewMeansUnknown DEF Periodic, Behind
  <2> QED
    BY <2>1, <2>2 DEF Periodic, Behind
<1> QED
  BY <1>1, <1>2 DEF Status, StatusRoot, StatusRootFails

LEMMA DataPeriodic ==
  ASSUME PeriodInv, NEW n \in Node \ RootNode, NEW f \in Firmware, NEW p \in Packet,
         Data(n, f, p)
  PROVE  Periodic(n)'
<1> USE DEF PeriodInv, NodeInv
<1>1. Behind(Loaded(n), nvs[n], next[n], FALSE) /\ Loaded(n) \in Config
  BY LoadedPeriodic, KnownIsFirmware
<1>2. CASE WriteNotInit(n)
  BY <1>2 DEF WriteNotInit, nodeVars, Periodic, Behind, Percent, At
<1>3. CASE WriteRefused(n)
  <2>1. /\ UNCHANGED <<next, task>> /\ At(n, "idle") /\ cfg'[n] = Progress(Loaded(n), 0, {})
        /\ nvs'[n] \in {nvs[n], Empty}
    BY <1>3 DEF WriteRefused, EraseRecord, NodeTypeOK
  <2>2. /\ cfg'[n] \in Config /\ cfg'[n].name = Loaded(n).name
    BY <1>1, <2>1, ChangedType, 0 \in Nat, {} \in SUBSET Packet
  <2>3. cfg'[n].written = 0
    BY <2>1 DEF Progress
  <2>4. Behind(cfg'[n], nvs'[n], next[n], FALSE)
    BY <1>1, <2>1, <2>2, <2>3, EmptiedPeriodic
  <2>5. ~ At(n, "begun")'
    BY <2>1 DEF At
  <2> QED
    BY <2>1, <2>4, <2>5 DEF Periodic, Behind, Percent
<1>4. CASE WriteIgnored(n, p) \/ WriteFlash(n, f, p)
  <2>1. UNCHANGED <<nvs, next>> /\ cfg'[n] = Loaded(n) /\ task'[n].step \in {"idle", "written"}
    BY <1>4 DEF WriteIgnored, WriteFlash, Writable, Writing, At, NodeTypeOK
  <2>2. ~ At(n, "begun")'
    BY <2>1 DEF At
  <2> QED
    BY <1>1, <2>1, <2>2 DEF Periodic, Behind, Percent
<1> QED
  BY <1>2, <1>3, <1>4 DEF Data

LEMMA AccountPeriodic ==
  ASSUME PeriodInv, SmallPackets, SavesWork, NEW n \in Node \ RootNode, WriteAccount(n)
  PROVE  Periodic(n)'
<1> USE DEF PeriodInv, NodeInv
<1> DEFINE c == Progress(cfg[n], cfg[n].written + 1, cfg[n].bits \union {task[n].seq})
           percent == Percent(c)
<1>1. /\ cfg'[n] = c /\ task'[n] \in {Doing("complete"), Idle} /\ At(n, "written")
      /\ \/ /\ percent = next[n] /\ next'[n] = next[n] + Interval /\ nvs'[n] = Saved(c)
         \/ /\ percent > next[n] /\ nvs'[n] = nvs[n]
            /\ next'[n] = (percent \div Interval + 1) * Interval
         \/ percent # next[n] /\ percent =< next[n] /\ next'[n] = next[n] /\ nvs'[n] = nvs[n]
  BY DEF WriteAccount, SaveRecord, Due, SavesWork, May, NodeTypeOK
<1>2. ~ At(n, "begun")'
  BY <1>1 DEF At, Doing, Idle
<1>3. /\ cfg[n] \in Config /\ cfg[n].name \in Firmware /\ next[n] \in Nat /\ nvs[n] \in Config
      /\ Interval \in Nat \ {0}
  BY <1>1, KnownIsFirmware DEF BusyKnowsName, At
<1>4. c \in Config /\ c.name = cfg[n].name
  <2>1. cfg[n].written + 1 \in Nat /\ cfg[n].bits \union {task[n].seq} \in SUBSET Packet
    BY <1>3 DEF Config, NodeTypeOK, Task
  <2> QED
    BY <1>3, <2>1, ChangedType
<1>5. percent \in Nat /\ Percent(cfg[n]) \in Nat /\ percent =< Percent(cfg[n]) + 1
  BY <1>3, <1>4, PercentType, OnePacketMore
<1>6. Behind(cfg[n], nvs[n], next[n], At(n, "begun"))
  BY DEF Periodic
<1> SUFFICES Behind(c, nvs'[n], next'[n], FALSE)
  BY <1>1, <1>2 DEF Periodic, Behind, Percent
<1> HIDE DEF c, percent
<1>7. c.name # NoName
  BY <1>3, <1>4
<1>8. CASE percent = next[n] /\ next'[n] = next[n] + Interval /\ nvs'[n] = Saved(c)
  <2>1. Percent(nvs'[n]) = percent
    BY <1>4, <1>8, SavedPercent DEF percent
  <2>2. next'[n] =< Percent(nvs'[n]) + 2 * Interval /\ percent =< Percent(nvs'[n])
    BY <1>3, <1>5, <1>8, <2>1
  <2> QED
    BY <1>7, <2>2 DEF Behind, percent
<1>9. CASE percent # next[n] /\ percent =< next[n] /\ next'[n] = next[n] /\ nvs'[n] = nvs[n]
  <2>1. percent < next[n]
    BY <1>3, <1>5, <1>9
  <2> QED
    BY <1>4, <1>6, <1>7, <1>9, <2>1 DEF Behind, percent
\* Too late, which is so only after a reset.
<1>10. CASE percent > next[n] /\ nvs'[n] = nvs[n]
            /\ next'[n] = (percent \div Interval + 1) * Interval
  <2>1. percent < next'[n] /\ next'[n] =< percent + Interval /\ next'[n] \in Int
    BY <1>5, <1>10, NextDue
  <2>2. ASSUME nvs[n].name # NoName, c.name = nvs[n].name
        PROVE  next'[n] =< Percent(nvs[n]) + 2 * Interval
    <3>1. Percent(nvs[n]) \in Nat
      BY <1>3, <2>2, PercentType
    <3>2. Percent(cfg[n]) =< Percent(nvs[n]) \/ Percent(cfg[n]) < next[n]
      BY <1>4, <1>6, <2>2 DEF Behind
    <3>3. Percent(cfg[n]) =< Percent(nvs[n])
      BY <1>3, <1>5, <1>10, <3>1, <3>2
    <3> QED
      BY <1>3, <1>5, <2>1, <3>1, <3>3
  <2> QED
    BY <1>7, <1>10, <2>1, <2>2 DEF Behind, percent
<1> QED
  BY <1>1, <1>8, <1>9, <1>10

LEMMA ContinuePeriodic ==
  ASSUME PeriodInv, SmallPackets, SavesWork, NEW n \in Node \ RootNode, Continue(n)
  PROVE  Periodic(n)'
<1> USE DEF PeriodInv, NodeInv
<1>1. /\ Behind(cfg[n], nvs[n], next[n], At(n, "begun")) /\ cfg[n] \in Config
      /\ cfg[n].name \in Firmware /\ nvs[n] \in Config
  BY KnownIsFirmware DEF Periodic, BusyKnowsName, At, Continue, StatusSave, WriteAccount,
     WriteErase, WriteSwitch, WriteSwitchFails
<1>2. CASE StatusSave(n)
  <2>1. UNCHANGED <<cfg, next>> /\ nvs'[n] = Saved(cfg[n]) /\ task'[n] = Idle /\ At(n, "begun")
    BY <1>2 DEF StatusSave, SaveRecord, SavesWork, May, NodeTypeOK
  <2>2. next[n] = Interval /\ Percent(Saved(cfg[n])) = Percent(cfg[n]) /\ Percent(cfg[n]) \in Nat
    BY <1>1, <2>1, SavedPercent, PercentType DEF Behind
  <2>3. next[n] =< Percent(Saved(cfg[n])) + 2 * Interval
        /\ Percent(cfg[n]) =< Percent(Saved(cfg[n]))
    BY <2>2
  <2>4. Behind(cfg[n], Saved(cfg[n]), next[n], FALSE)
    BY <2>2, <2>3 DEF Behind
  <2>5. ~ At(n, "begun")'
    BY <2>1 DEF At, Idle, Doing
  <2> QED
    BY <2>1, <2>4, <2>5 DEF Periodic, Behind, Percent
<1>3. CASE WriteErase(n) \/ WriteSwitch(n)
  <2>1. UNCHANGED <<cfg, next>> /\ nvs'[n] \in {nvs[n], Empty}
        /\ task'[n] \in {Idle, Doing("switch")}
    BY <1>3 DEF WriteErase, WriteSwitch, EraseRecord, NodeTypeOK
  <2>2. ~ At(n, "begun")' /\ Empty.name = NoName
    BY <2>1 DEF At, Idle, Doing, Empty
  <2> QED
    BY <1>1, <2>1, <2>2 DEF Periodic, Behind, Percent
<1>4. CASE WriteSwitchFails(n)
  <2>1. /\ UNCHANGED <<nvs, next>> /\ task'[n] = Idle /\ At(n, "switch")
        /\ cfg'[n].name = cfg[n].name /\ cfg'[n].written = 0
    BY <1>4 DEF WriteSwitchFails, NodeTypeOK
  <2>2. cfg'[n] \in Config
    BY ContinueKeeps DEF NodeTypeOK
  <2>3. ~ At(n, "begun") /\ ~ At(n, "begun")' /\ nvs[n] \in {nvs[n], Empty} /\ FALSE \in BOOLEAN
    BY <2>1 DEF At, Idle, Doing
  <2>4. Behind(cfg[n], nvs[n], next[n], FALSE)
    BY <1>1, <2>3 DEF Behind
  <2>5. Behind(cfg'[n], nvs[n], next[n], FALSE)
    BY <1>1, <2>1, <2>2, <2>3, <2>4, EmptiedPeriodic
  <2> QED
    BY <2>1, <2>3, <2>5 DEF Periodic, Behind, Percent
<1> QED
  BY <1>2, <1>3, <1>4, AccountPeriodic DEF Continue

LEMMA OtherStepPeriodic ==
  ASSUME PeriodInv, NEW n \in Node \ RootNode, NodeStop(n) \/ Restart(n) \/ TakeReport(n)
  PROVE  Periodic(n)'
<1> USE DEF PeriodInv, NodeInv
<1>1. CASE NodeStop(n)
  <2>1. /\ UNCHANGED <<next, task>> /\ cfg'[n] = Stopped(cfg[n]) /\ nvs'[n] \in {nvs[n], Empty}
        /\ cfg[n] \in Config
    BY <1>1 DEF NodeStop, EraseRecord, NodeTypeOK
  <2>2. cfg'[n] \in Config /\ cfg'[n].name = cfg[n].name
    BY <2>1, ChangedType
  <2>3. cfg'[n].written = 0 /\ At(n, "begun") \in BOOLEAN
    BY <2>1 DEF Stopped, At
  <2>4. Behind(cfg'[n], nvs'[n], next[n], At(n, "begun"))
    BY <2>1, <2>2, <2>3, EmptiedPeriodic DEF Periodic
  <2> QED
    BY <2>1, <2>4 DEF Periodic, Behind, Percent, At
<1>2. CASE Restart(n)
  <2>1. UNCHANGED nvs /\ cfg'[n] = Empty /\ next'[n] = Interval
    BY <1>2 DEF Restart, NodeTypeOK
  <2>2. Empty.name = NoName /\ (nvs[n].name # NoName => Percent(nvs[n]) \in Nat)
    BY KnownIsFirmware
  <2>3. nvs[n].name # NoName => Interval =< Percent(nvs[n]) + 2 * Interval
    BY <2>2
  <2> QED
    BY <2>1, <2>2, <2>3 DEF Periodic, Behind, Percent
<1>3. CASE TakeReport(n)
  BY <1>3 DEF TakeReport, Periodic, Behind, Percent, At
<1> QED
  BY <1>1, <1>2, <1>3

LEMMA PeriodInvStep ==
  ASSUME OneFirmware, SmallPackets, SavesWork
  PROVE  PeriodInv /\ [NodeNext]_nodeVars => PeriodInv'
<1> SUFFICES ASSUME PeriodInv, [NodeNext]_nodeVars PROVE PeriodInv'
  OBVIOUS
<1>1. NodeInv /\ NodeInv'
  BY NodeInvStep DEF PeriodInv
<1>2. CASE UNCHANGED nodeVars
  BY <1>1, <1>2 DEF nodeVars, PeriodInv, Periodic, Behind, Percent, At
<1>3. CASE NodeNext
  <2>1. PICK n \in Node : NodeStep(n)
    BY <1>3, NodeSteps
  <2>2. \A f \in Firmware : PacketsOf(f) \subseteq Packet
    BY DEF PacketsOf, Packet
  <2>3. n \notin RootNode => Periodic(n)'
    BY <2>1, <2>2, StatusPeriodic, DataPeriodic, ContinuePeriodic, OtherStepPeriodic DEF NodeStep
  <2>4. ASSUME NEW m \in Node \ RootNode, m # n PROVE Periodic(m)'
    BY <1>1, <2>1, <2>4, OthersStay DEF PeriodInv, Periodic, Behind, Percent, At
  <2> QED
    BY <1>1, <2>3, <2>4 DEF PeriodInv
<1> QED
  BY <1>2, <1>3

LEMMA PeriodInvInit == NodeInit => PeriodInv
<1> SUFFICES ASSUME NodeInit PROVE PeriodInv
  OBVIOUS
<1>1. \A n \in Node : cfg[n] = Empty /\ nvs[n] = Empty /\ next[n] = Interval
  BY DEF NodeInit
<1>2. Empty.name = NoName
  BY DEF Empty
<1> QED
  BY <1>1, <1>2, NodeInitHolds DEF PeriodInv, Periodic, Behind

\* A reset costs less than two report intervals of progress, whatever came before it, on a
\* device that is asked for one firmware of at least a hundred packets and whose records
\* are saved when they are to be.
THEOREM ResetCostsLittle ==
  OneFirmware /\ SmallPackets /\ SavesWork => (NodeSpec => []SavedPeriodically)
<1> SUFFICES ASSUME OneFirmware, SmallPackets, SavesWork
             PROVE  NodeSpec => []SavedPeriodically
  OBVIOUS
<1>1. PeriodInv => SavedPeriodically
  <2> SUFFICES ASSUME PeriodInv, NEW n \in Node \ RootNode, nvs[n].name # NoName,
                      cfg[n].name = nvs[n].name
               PROVE  Percent(cfg[n]) - Percent(nvs[n]) < 2 * Interval
    BY DEF SavedPeriodically
  <2>1. Percent(cfg[n]) \in Nat /\ Percent(nvs[n]) \in Nat /\ next[n] \in Nat
        /\ Interval \in Nat \ {0}
    BY KnownIsFirmware DEF PeriodInv, NodeInv
  <2>2. /\ next[n] =< Percent(nvs[n]) + 2 * Interval
        /\ Percent(cfg[n]) =< Percent(nvs[n]) \/ Percent(cfg[n]) < next[n]
    BY DEF PeriodInv, Periodic, Behind
  <2> QED
    BY <2>1, <2>2
<1> QED
  BY <1>1, PeriodInvInit, PeriodInvStep, PTL DEF NodeSpec
=============================================================================
