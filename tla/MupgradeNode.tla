---------------------------- MODULE MupgradeNode ----------------------------
(***************************************************************************)
(* The receiving side of a mesh firmware upgrade (mupgrade_node.c): every  *)
(* device keeps the upgrade configuration in RAM, a copy of it in NVS, and *)
(* the update partition it fills packet by packet.  A handler is split at  *)
(* each effect that survives a reset, because a reset may fall between two *)
(* of them.  The environment (any message, any time) is refined by the     *)
(* module Mupgrade, which adds the root and the mesh.                      *)
(*                                                                         *)
(* Sizes are counted in packets of MUPGRADE_PACKET_MAX_SIZE bytes; a       *)
(* firmware identity stands for the pair (name, total_size) that the code  *)
(* compares.                                                               *)
(***************************************************************************)
EXTENDS Integers, Sequences, FiniteSets

CONSTANTS
  Node,       \* the devices
  RootNode,   \* those of type MESH_ROOT or MESH_STA: they hold the image already
  Firmware,   \* firmware identities (name and total size)
  NoName,     \* the empty name: no configuration, no image
  Blank,      \* content of an erased flash cell
  Junk,       \* content that is no packet of any firmware
  PacketNum,  \* packets of each firmware: total_size / 1024
  MaxPacket,  \* MUPGRADE_PACKET_MAX_NUM
  Kept,       \* packets whose bit lies in the part of the record NVS keeps
  Interval,   \* CONFIG_MUPGRADE_STATUS_REPORT_INTERVAL, in percent
  Faults,     \* calls into the flash drivers that may fail
  StopAnyTime,\* does another task than the handler's call mupgrade_stop?
  AnyPacket,  \* do packets of a firmware reach a device that was asked for another?
  UpLimit     \* reports in flight from one device before mwifi_write blocks

Packet == 0 .. MaxPacket - 1
Calls  == {"ota_begin", "info_save", "info_erase", "partition_write",
           "partition_read", "ota_write"}

ASSUME ConstantsAssumption ==
  /\ RootNode \subseteq Node
  /\ NoName \notin Firmware /\ Blank \notin Firmware /\ Junk \notin Firmware
  /\ Blank # Junk
  /\ MaxPacket \in Nat \ {0}
  /\ PacketNum \in [Firmware -> 1 .. MaxPacket]
  /\ Kept \subseteq Packet
  /\ Interval \in 1 .. 100
  /\ Faults \subseteq Calls
  /\ StopAnyTime \in BOOLEAN
  /\ AnyPacket \in BOOLEAN
  /\ UpLimit \in Nat \ {0}

VARIABLES
  cfg,      \* g_upgrade_config->status, per device (Empty is NULL)
  nvs,      \* what NVS holds under MUPGRADE_STORE_CONFIG_KEY (Empty: no key)
  flash,    \* the update partition, packet by packet
  boot,     \* image selected for the next boot (NoName: the running one)
  version,  \* image that runs (NoName: the one the device was shipped with)
  fin,      \* g_upgrade_finished_flag
  next,     \* s_next_written_percentage
  task,     \* how far the handler of the current message has come
  up        \* reports on their way to the root

nodeVars == <<cfg, nvs, flash, boot, version, fin, next, task, up>>

Name == Firmware \union {NoName}
Cell == Firmware \union {Blank, Junk}

Config == [name : Name, stop : BOOLEAN, written : Nat, bits : SUBSET Packet]
Empty  == [name |-> NoName, stop |-> FALSE, written |-> 0, bits |-> {}]
Fresh(f) == [name |-> f, stop |-> FALSE, written |-> 0, bits |-> {}]

\* c with another count and another progress array, and c after a stop.
Progress(c, w, b) == [name |-> c.name, stop |-> c.stop, written |-> w, bits |-> b]
Stopped(c) == [name |-> c.name, stop |-> TRUE, written |-> 0, bits |-> {}]

Report == [from : Node, name : Firmware, stop : BOOLEAN,
           written : Nat, bits : SUBSET Packet]

Step  == {"idle", "begun", "written", "complete", "switch"}
Task  == [step : Step, seq : Packet]
Doing(step) == [step |-> step, seq |-> 0]
Idle  == Doing("idle")
At(n, step) == task[n].step = step

PacketsOf(f) == 0 .. PacketNum[f] - 1

Erased == [p \in Packet |-> Blank]

\* A partition that holds image f; the image shipped is no packet of a firmware.
ImageOf(f) ==
  [p \in Packet |-> IF f = NoName THEN Junk
                    ELSE IF p \in PacketsOf(f) THEN f ELSE Blank]

\* What esp_ota_set_boot_partition verifies: the partition holds an image.
Whole(n, f) == \A p \in PacketsOf(f) : flash[n][p] = f

\* Programming clears bits only: a cell that is not erased keeps its old zeros.
Programmed(cell, f) == IF cell \in {Blank, f} THEN f ELSE Junk

\* The lazy load of the configuration at the top of both handlers.
Loaded(n) == IF cfg[n].name = NoName THEN nvs[n] ELSE cfg[n]

\* Is f another firmware than the one the device knows?
NewAlways(n, f) == TRUE  \* mutant

New(n, f) == Loaded(n).name # f

\* The record saved is 16 bytes short: it starts at the configuration, but its
\* length counts from the status.
Saved(c) == Progress(c, c.written, c.bits \intersect Kept)

\* The progress array travels only with a partial report.
ReportOf(n, c) ==
  [from |-> n, name |-> c.name, stop |-> c.stop, written |-> c.written,
   bits |-> IF c.written \in {0, PacketNum[c.name]} THEN {} ELSE c.bits]

FinishedEarly(r) == r.written + 1 >= PacketNum[r.name]  \* mutant

Finished(r) == r.written = PacketNum[r.name]

\* mwifi_write to the root blocks while the mesh has no room.
Respond(n, c) ==
  /\ Len(up[n]) < UpLimit
  /\ up' = [up EXCEPT ![n] = Append(@, ReportOf(n, c))]

May(call) == call \in Faults

\* mdf_info_save and mdf_info_erase; the callers go on when they fail.
SaveRecord(n, c) ==
  \/ nvs' = [nvs EXCEPT ![n] = Saved(c)]
  \/ May("info_save") /\ UNCHANGED nvs

EraseRecordForgotten(n) == UNCHANGED nvs  \* mutant

EraseRecord(n) ==
  \/ nvs' = [nvs EXCEPT ![n] = Empty]
  \/ May("info_erase") /\ UNCHANGED nvs

-----------------------------------------------------------------------------
(* mupgrade_status: the root asks for the progress of firmware f.          *)

\* The firmware is the one under way: nothing but the answer.
StatusKnown(n, f) ==
  /\ At(n, "idle") /\ ~ New(n, f)
  /\ cfg' = [cfg EXCEPT ![n] = Loaded(n)]
  /\ Respond(n, Loaded(n))
  /\ UNCHANGED <<nvs, flash, boot, version, fin, next, task>>

\* A root asks for the image in its own update partition: addressed to itself,
\* it only has to select it, whatever image that is.
StatusRoot(n, f) ==
  LET c == Progress(Fresh(f), PacketNum[f], Packet) IN
  /\ At(n, "idle") /\ New(n, f) /\ n \in RootNode
  /\ \E g \in Firmware : Whole(n, g) /\ boot' = [boot EXCEPT ![n] = g]
  /\ cfg' = [cfg EXCEPT ![n] = c]
  /\ fin' = [fin EXCEPT ![n] = TRUE]
  /\ Respond(n, c)
  /\ UNCHANGED <<nvs, flash, version, next, task>>

StatusRootFails(n, f) ==
  /\ At(n, "idle") /\ New(n, f) /\ n \in RootNode
  /\ \A g \in Firmware : ~ Whole(n, g)
  /\ cfg' = [cfg EXCEPT ![n] = Fresh(f)]
  /\ Respond(n, Fresh(f))
  /\ UNCHANGED <<nvs, flash, boot, version, fin, next, task>>

\* A new firmware: forget the old one and erase the partition.
StatusBegin(n, f) ==
  /\ At(n, "idle") /\ New(n, f) /\ n \notin RootNode
  /\ cfg' = [cfg EXCEPT ![n] = Fresh(f)]
  /\ fin' = [fin EXCEPT ![n] = FALSE]
  /\ flash' = [flash EXCEPT ![n] = Erased]
  /\ task' = [task EXCEPT ![n] = Doing("begun")]
  /\ UNCHANGED <<nvs, boot, version, next, up>>

\* esp_ota_begin fails: the new name stays, the partition is not erased.
StatusBeginFails(n, f) ==
  /\ May("ota_begin")
  /\ At(n, "idle") /\ New(n, f) /\ n \notin RootNode
  /\ cfg' = [cfg EXCEPT ![n] = Fresh(f)]
  /\ fin' = [fin EXCEPT ![n] = FALSE]
  /\ Respond(n, Fresh(f))
  /\ UNCHANGED <<nvs, flash, boot, version, next, task>>

\* Only after the erase is the new record stored, and the root answered.
StatusSave(n) ==
  /\ At(n, "begun")
  /\ SaveRecord(n, cfg[n])
  /\ task' = [task EXCEPT ![n] = Idle]
  /\ Respond(n, cfg[n])
  /\ UNCHANGED <<cfg, flash, boot, version, fin, next>>

Status(n, f) ==
  \/ StatusKnown(n, f)
  \/ StatusRoot(n, f)
  \/ StatusRootFails(n, f)
  \/ StatusBegin(n, f)
  \/ StatusBeginFails(n, f)

-----------------------------------------------------------------------------
(* mupgrade_write: packet p of firmware f arrives.  The packet carries its *)
(* sequence number only, the handler cannot see f.                         *)

\* Neither RAM nor NVS knows of an upgrade: MDF_ERR_MUPGRADE_NOT_INIT.
WriteNotInit(n) ==
  /\ At(n, "idle") /\ Loaded(n).name = NoName
  /\ UNCHANGED nodeVars

\* After a stop every packet is answered with the refusal.
WriteRefused(n) ==
  LET c == Progress(Loaded(n), 0, {}) IN
  /\ At(n, "idle") /\ Loaded(n).name # NoName /\ Loaded(n).stop
  /\ cfg' = [cfg EXCEPT ![n] = c]
  /\ EraseRecord(n)
  /\ Respond(n, c)
  /\ UNCHANGED <<flash, boot, version, fin, next, task>>

\* MUPGRADE_GET_BITS: the packet is a duplicate.
ReceivedNever(n, p) == FALSE  \* mutant

Received(n, p) == p \in Loaded(n).bits

WritingNext(p) == [step |-> "written", seq |-> p + 1]  \* mutant

Writing(p) == [step |-> "written", seq |-> p]

Writable(n) == At(n, "idle") /\ Loaded(n).name # NoName /\ ~ Loaded(n).stop

\* Out of range, received before, or not programmed: no effect but the load.
WriteIgnored(n, p) ==
  /\ Writable(n)
  /\ \/ p > PacketNum[Loaded(n).name]
     \/ Received(n, p)
     \/ May("partition_write")
  /\ cfg' = [cfg EXCEPT ![n] = Loaded(n)]
  /\ UNCHANGED <<nvs, flash, boot, version, fin, next, task, up>>

WriteFlash(n, f, p) ==
  /\ Writable(n)
  /\ p =< PacketNum[Loaded(n).name]
  /\ ~ Received(n, p)
  /\ cfg' = [cfg EXCEPT ![n] = Loaded(n)]
  /\ flash' = [flash EXCEPT ![n][p] = Programmed(@, f)]
  /\ task' = [task EXCEPT ![n] = Writing(p)]
  /\ UNCHANGED <<nvs, boot, version, fin, next, up>>

Percent(c) == (c.written * 100) \div PacketNum[c.name]

\* The percentage is one at which the record is saved.
DueNever(n, percent) == FALSE  \* mutant

Due(n, percent) == percent = next[n]

\* The bit and the count, and the record in NVS when the percentage is hit.
WriteAccount(n) ==
  LET c == Progress(cfg[n], cfg[n].written + 1,
                    cfg[n].bits \union {task[n].seq})
      percent == Percent(c)
  IN
  /\ At(n, "written")
  /\ cfg' = [cfg EXCEPT ![n] = c]
  /\ \/ /\ Due(n, percent)
        /\ next' = [next EXCEPT ![n] = @ + Interval]
        /\ SaveRecord(n, c)
     \/ /\ percent > next[n]
        /\ next' = [next EXCEPT ![n] = (percent \div Interval + 1) * Interval]
        /\ UNCHANGED nvs
     \/ ~ Due(n, percent) /\ percent =< next[n] /\ UNCHANGED <<next, nvs>>
  /\ task' = [task EXCEPT ![n] =
                 IF c.written = PacketNum[c.name] THEN Doing("complete") ELSE Idle]
  /\ UNCHANGED <<flash, boot, version, fin, up>>

\* All is written: the record in NVS goes first ...
WriteErase(n) ==
  /\ At(n, "complete")
  /\ EraseRecord(n)
  /\ task' = [task EXCEPT ![n] = Doing("switch")]
  /\ UNCHANGED <<cfg, flash, boot, version, fin, next, up>>

\* ... then the partition is verified and selected, and the root is told.
WriteSwitch(n) ==
  /\ At(n, "switch")
  /\ task' = [task EXCEPT ![n] = Idle]
  /\ \E f \in Firmware :
       /\ Whole(n, f)
       /\ boot' = [boot EXCEPT ![n] = f]
  /\ fin' = [fin EXCEPT ![n] = TRUE]
  /\ Respond(n, cfg[n])
  /\ UNCHANGED <<cfg, nvs, flash, version, next>>

\* The image does not verify: the upgrade is off, and nobody is told.
WriteSwitchFails(n) ==
  /\ At(n, "switch")
  /\ \A f \in Firmware : ~ Whole(n, f)
  /\ task' = [task EXCEPT ![n] = Idle]
  /\ cfg' = [cfg EXCEPT ![n] = [name |-> @.name, stop |-> TRUE, written |-> 0,
                               bits |-> @.bits]]
  /\ UNCHANGED <<nvs, flash, boot, version, fin, next, up>>

Data(n, f, p) ==
  \/ WriteNotInit(n)
  \/ WriteRefused(n)
  \/ WriteIgnored(n, p)
  \/ WriteFlash(n, f, p)

\* The rest of a handler that has started.
Continue(n) ==
  \/ StatusSave(n)
  \/ WriteAccount(n)
  \/ WriteErase(n)
  \/ WriteSwitch(n)
  \/ WriteSwitchFails(n)

-----------------------------------------------------------------------------
\* A finished upgrade is taken back by selecting the running image.
BootAfterStopKept(n) == boot[n]  \* mutant

BootAfterStop(n) == IF fin[n] THEN NoName ELSE boot[n]

\* mupgrade_stop, called by the application.
NodeStop(n) ==
  LET c == Stopped(cfg[n]) IN
  /\ At(n, "idle") \/ StopAnyTime
  /\ cfg[n].name # NoName
  /\ boot' = [boot EXCEPT ![n] = BootAfterStop(n)]
  /\ cfg' = [cfg EXCEPT ![n] = c]
  /\ EraseRecord(n)
  /\ Respond(n, c)
  /\ UNCHANGED <<flash, version, fin, next, task>>

\* A reset, in the middle of a handler or not: RAM is lost.  When the selected
\* image verifies it runs, and the image that ran is in the update partition now;
\* the boot loader passes over one that does not.
Restart(n) ==
  LET runs == boot[n] # NoName /\ Whole(n, boot[n]) IN
  /\ cfg' = [cfg EXCEPT ![n] = Empty]
  /\ fin' = [fin EXCEPT ![n] = FALSE]
  /\ next' = [next EXCEPT ![n] = Interval]
  /\ task' = [task EXCEPT ![n] = Idle]
  /\ boot' = [boot EXCEPT ![n] = NoName]
  /\ version' = [version EXCEPT ![n] = IF runs THEN boot[n] ELSE @]
  /\ flash' = [flash EXCEPT ![n] = IF runs THEN ImageOf(version[n]) ELSE @]
  /\ UNCHANGED <<nvs, up>>

-----------------------------------------------------------------------------
NodeInit ==
  /\ cfg = [n \in Node |-> Empty]
  /\ nvs = [n \in Node |-> Empty]
  /\ flash \in [Node -> {ImageOf(f) : f \in Name}]
  /\ \A n \in Node : flash[n] = ImageOf(NoName) <=> n \notin RootNode
  /\ boot = [n \in Node |-> NoName]
  /\ version = [n \in Node |-> NoName]
  /\ fin = [n \in Node |-> FALSE]
  /\ next = [n \in Node |-> Interval]
  /\ task = [n \in Node |-> Idle]
  /\ up = [n \in Node |-> <<>>]

\* The mesh takes the oldest report of device n.
TakeReport(n) ==
  /\ up[n] # <<>>
  /\ up' = [up EXCEPT ![n] = Tail(@)]
  /\ UNCHANGED <<cfg, nvs, flash, boot, version, fin, next, task>>

NodeNext ==
  \E n \in Node :
    \/ \E f \in Firmware : Status(n, f)
    \/ \E f \in Firmware : \E p \in PacketsOf(f) :
         /\ AnyPacket \/ f = Loaded(n).name \/ Loaded(n).name = NoName
         /\ Data(n, f, p)
    \/ Continue(n)
    \/ NodeStop(n)
    \/ Restart(n)
    \/ TakeReport(n)

NodeSpec == NodeInit /\ [][NodeNext]_nodeVars

-----------------------------------------------------------------------------
NodeTypeOK ==
  /\ cfg \in [Node -> Config]
  /\ nvs \in [Node -> Config]
  /\ flash \in [Node -> [Packet -> Cell]]
  /\ boot \in [Node -> Name]
  /\ version \in [Node -> Name]
  /\ fin \in [Node -> BOOLEAN]
  /\ next \in [Node -> Nat]
  /\ task \in [Node -> Task]
  /\ up \in [Node -> Seq(Report)]

\* written_size and the progress array are two accounts of the same packets, in
\* RAM and in NVS.  The device is finished when the first one is full, and asks
\* for packets by the second: duplicates, resets and refused packets must not
\* set them apart (mupgrade_node.c:178-190).
CountMatchesBits ==
  \A n \in Node \ RootNode :
    /\ ~ cfg[n].stop => cfg[n].written = Cardinality(cfg[n].bits)
    /\ nvs[n].written = Cardinality(nvs[n].bits)

\* A set progress bit promises that the packet of that firmware is in the update
\* partition: nobody will send it again (mupgrade_node.c:177-190, 40-50).
BitsAreFlashed ==
  \A n \in Node \ RootNode : \A p \in Loaded(n).bits :
    flash[n][p] = Loaded(n).name

\* The image selected for the next boot stays complete until that boot, whatever
\* packets or requests arrive in between (mupgrade_node.c:90-99, 220-233).
NeverBootsPartial ==
  \A n \in Node : boot[n] # NoName => Whole(n, boot[n])

\* A device whose upgrade the application stopped does not change to another
\* image at its next boot (mupgrade_node.c:288-315).
StoppedNeverSwitches ==
  \A n \in Node :
    cfg[n].stop /\ At(n, "idle") => boot[n] = NoName \/ ~ Whole(n, boot[n])

\* A reset costs less than two report intervals of progress
\* (mupgrade_node.c:194-213).
SavedPeriodically ==
  \A n \in Node \ RootNode :
    nvs[n].name # NoName /\ cfg[n].name = nvs[n].name /\ At(n, "idle") =>
      Percent(cfg[n]) - Percent(nvs[n]) < 2 * Interval
=============================================================================
