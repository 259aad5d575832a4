------------------------------ MODULE Mupgrade ------------------------------
(***************************************************************************)
(* A whole mesh upgrade: the root (mupgrade_root.c) with its sending task, *)
(* its receiving task and a task that may stop it; the devices of          *)
(* MupgradeNode; and the mesh between them, which keeps the order of the   *)
(* messages of one link and may lose or repeat a message.                  *)
(*                                                                         *)
(* The control point rpc is the place of the sending task in               *)
(* mupgrade_firmware_send and mupgrade_request_status; one step is what it *)
(* does between two accesses to state it shares with the other tasks.      *)
(***************************************************************************)
EXTENDS MupgradeNode

CONSTANTS
  Modes,      \* destinations of a send: "list", "any", "broadcast"
  Retry,      \* CONFIG_MUPGRADE_RETRY_COUNT
  Attempts,   \* status requests of one round: 3
  QueueLen,   \* length of the report queue: 3
  DownLimit,  \* messages in flight to one device before the root blocks
  Prompt,     \* does a wait time out only when nothing is under way?
  Budget      \* how often the environment may: send, lose, repeat, restart,
              \* stop a device, stop the root

NoReport == [from |-> NoName]

ASSUME MupgradeAssumption ==
  /\ IsFiniteSet(Node)
  /\ Modes \subseteq {"list", "any", "broadcast"}
  /\ Retry \in Nat \ {0} /\ Attempts \in Nat \ {0} /\ QueueLen \in Nat \ {0}
  /\ DownLimit \in Nat \ {0}
  /\ Prompt \in BOOLEAN
  /\ Budget \in [{"send", "lose", "repeat", "restart", "halt", "stop"} -> Nat]

VARIABLES
  image,       \* the firmware in the root's partition and its error_code
  queueState,  \* g_upgrade_config->queue: "none", "live", "deleted"
  queue,       \* reports in it
  running,     \* g_mupgrade_send_running_flag
  sem,         \* g_mupgrade_send_exit_sem: "null", "empty", "given"
  rpc,         \* where the sending task is
  mode,        \* its addrs_list: explicit list, MWIFI_ADDR_ANY or _BROADCAST
  unfinished, successed, requested,  \* result->..._addr
  asking,      \* request_addrs: devices that have not answered this round
  progress,    \* progress_array: packets no device asked for
  round, attempt, seq,               \* its loop counters
  spc,         \* where a task that calls mupgrade_firmware_stop is
  inhand,      \* the report mupgrade_root_handle is about to queue
  down,        \* messages on their way to each device
  left         \* what is left of Budget

rootVars == <<image, queueState, queue, running, sem, rpc, mode, unfinished,
              successed, requested, asking, progress, round, attempt, seq, spc,
              inhand>>
vars == <<nodeVars, rootVars, down, left>>

locals == <<unfinished, successed, requested, asking, progress, round, attempt, seq>>

StatusOf(f)  == [type |-> "status", name |-> f, seq |-> 0]
PacketOf(f, p) == [type |-> "data", name |-> f, seq |-> p]
Message == [type : {"status", "data"}, name : Firmware, seq : Packet]

Spend(what, n) == left' = [left EXCEPT ![what] = @ - n]

\* mwifi_root_write: per destination the message arrives, is lost, or a
\* retransmission makes it arrive twice.
Multicast(dests, m) ==
  /\ \A n \in dests : Len(down[n]) < DownLimit
  /\ \E lost \in SUBSET dests : \E twice \in SUBSET (dests \ lost) :
       LET cost == [what \in DOMAIN Budget |->
                      IF what = "lose" THEN Cardinality(lost)
                      ELSE IF what = "repeat" THEN Cardinality(twice) ELSE 0]
           copies(n) == IF n \in twice THEN <<m, m>>
                        ELSE IF n \in dests \ lost THEN <<m>> ELSE <<>>
       IN
       /\ \A what \in DOMAIN Budget : cost[what] =< left[what]
       /\ left' = [what \in DOMAIN Budget |-> left[what] - cost[what]]
       /\ down' = [n \in Node |-> down[n] \o copies(n)]

\* Nothing is under way that could still produce a report.
Quiet ==
  /\ inhand = NoReport
  /\ \A n \in Node : down[n] = <<>> /\ up[n] = <<>> /\ At(n, "idle")

\* xQueueReceive gives up.
TimesOutNever == FALSE  \* mutant

TimesOut == queue = <<>> /\ (Prompt => Quiet)

-----------------------------------------------------------------------------
(* Downloading a firmware to the root.                                     *)

\* What the update partition of the root holds.
RootHolds(content) ==
  flash' = [n \in Node |-> IF n \in RootNode THEN content ELSE flash[n]]

\* mupgrade_firmware_init, not called during a send.  The queue is created with
\* the configuration, which mupgrade_firmware_stop does not free.  A failing
\* esp_ota_begin is remembered, and MDF_OK returned.
FirmwareInit(f) ==
  /\ rpc = "idle" /\ spc = "none"
  /\ left.send > 0
  /\ \/ image' = [name |-> f, state |-> "open"] /\ RootHolds(Erased)
     \/ /\ May("ota_begin")
        /\ image' = [name |-> f, state |-> "failed"] /\ UNCHANGED flash
  /\ queueState' = IF queueState = "none" THEN "live" ELSE queueState
  /\ UNCHANGED <<cfg, nvs, boot, version, fin, next, task, up, queue, running,
                 sem, rpc, mode, locals, spc, inhand, down, left>>

\* mupgrade_firmware_download up to its last part, and the check of the image.
\* An error of either is kept: the image will not be sent.
FirmwareDownload ==
  /\ image.state = "open"
  /\ \/ /\ image' = [image EXCEPT !.state = "finish"]
        /\ RootHolds(ImageOf(image.name))
     \/ /\ May("ota_write")
        /\ image' = [image EXCEPT !.state = "failed"] /\ UNCHANGED flash
  /\ UNCHANGED <<cfg, nvs, boot, version, fin, next, task, up, queueState,
                 queue, running, sem, rpc, mode, locals, spc, inhand, down, left>>

-----------------------------------------------------------------------------
(* mupgrade_firmware_send.  What it does with a queue that a stop has      *)
(* deleted is undefined: the model ends there.                             *)

SendStart(m, dests) ==
  /\ rpc = "idle" /\ image.state = "finish" /\ queueState = "live"
  /\ left.send > 0 /\ Spend("send", 1)
  /\ running' = TRUE
  /\ mode' = m
  /\ unfinished' = dests
  /\ successed' = {} /\ requested' = {}
  /\ round' = 0
  /\ rpc' = "round"
  /\ UNCHANGED <<nodeVars, image, queueState, queue, sem, asking, progress,
                 attempt, seq, spc, inhand, down>>

Destinations(m) ==
  CASE m = "list"      -> (SUBSET Node) \ {{}}
    [] m = "any"       -> {Node}
    [] m = "broadcast" -> {Node \ RootNode}

\* The test at the head of the retry loop.
RoundBegin ==
  /\ rpc = "round"
  /\ IF round < Retry /\ unfinished # {} /\ running
       THEN rpc' = "drain" /\ requested' = {}
       ELSE rpc' = "exit" /\ UNCHANGED requested
  /\ UNCHANGED <<nodeVars, image, queueState, queue, running, sem, mode,
                 unfinished, successed, asking, progress, round, attempt, seq,
                 spc, inhand, down, left>>

\* mupgrade_request_status first takes the reports that wait in the queue.
DrainReport ==
  LET r == Head(queue)
      known == r.from \in unfinished
  IN
  /\ rpc = "drain" /\ queue # <<>>
  /\ queue' = Tail(queue)
  /\ unfinished' = IF Finished(r) \/ r.stop THEN unfinished \ {r.from}
                                            ELSE unfinished
  /\ successed' = IF Finished(r) /\ known THEN successed \union {r.from}
                                          ELSE successed
  /\ rpc' = IF unfinished' = {} THEN "exit" ELSE "drain"
  /\ UNCHANGED <<nodeVars, image, queueState, running, sem, mode, requested,
                 asking, progress, round, attempt, seq, spc, inhand, down, left>>

DrainTimeout ==
  /\ rpc = "drain" /\ TimesOut
  /\ asking' = unfinished
  /\ progress' = Packet
  /\ attempt' = 0
  /\ rpc' = "ask"
  /\ UNCHANGED <<nodeVars, image, queueState, queue, running, sem, mode,
                 unfinished, successed, requested, round, seq, spc, inhand,
                 down, left>>

\* One of the status requests of the round, to those that have not answered.
Ask ==
  /\ rpc = "ask" /\ attempt < Attempts /\ asking # {}
  /\ Multicast(asking, StatusOf(image.name))
  /\ rpc' = "collect"
  /\ UNCHANGED <<nodeVars, image, queueState, queue, running, sem, mode, locals,
                 spc, inhand>>

\* request_addrs and progress_array after the answer r.
AskingAfterKeepsStopped(r) == IF r.stop THEN asking ELSE asking \ {r.from}  \* mutant

AskingAfter(r) == asking \ {r.from}

ProgressAfterUnion(r) == progress \union r.bits  \* mutant

ProgressAfter(r) == progress \intersect r.bits

\* An answer.  Not to have written everything is to be requested; a device with
\* nothing written needs every packet, another one those its bits leave out.
CollectReport ==
  LET r == Head(queue)
      n == r.from
      answer == n \in asking /\ ~ r.stop
  IN
  /\ rpc = "collect" /\ asking # {} /\ queue # <<>>
  /\ queue' = Tail(queue)
  /\ asking' = AskingAfter(r)
  /\ unfinished' = IF r.stop \/ (answer /\ Finished(r)) THEN unfinished \ {n}
                                                        ELSE unfinished
  /\ successed' = IF answer /\ Finished(r) /\ n \in unfinished
                  THEN successed \union {n} ELSE successed
  /\ requested' = IF answer /\ ~ Finished(r) THEN requested \union {n}
                                             ELSE requested
  /\ progress' = IF answer /\ ~ Finished(r) THEN ProgressAfter(r) ELSE progress
  /\ UNCHANGED <<nodeVars, image, queueState, running, sem, rpc, mode, round,
                 attempt, seq, spc, inhand, down, left>>

\* Nobody else answers, or everybody has.
CollectEnd ==
  /\ rpc = "collect" /\ (asking = {} \/ TimesOut)
  /\ attempt' = attempt + 1
  /\ rpc' = "ask"
  /\ UNCHANGED <<nodeVars, image, queueState, queue, running, sem, mode,
                 unfinished, successed, requested, asking, progress, round, seq,
                 spc, inhand, down, left>>

\* The result of mupgrade_request_status: MDF_OK ends the send.
AskEnd ==
  /\ rpc = "ask" /\ (attempt = Attempts \/ asking = {})
  /\ rpc' = IF asking = {} /\ progress = Packet THEN "exit" ELSE "send"
  /\ asking' = {} /\ attempt' = 0
  /\ UNCHANGED <<nodeVars, image, queueState, queue, running, sem, mode,
                 unfinished, successed, requested, progress, round, seq, spc,
                 inhand, down, left>>

Sending == requested # {} /\ seq < PacketNum[image.name] /\ running

SendEnd ==
  /\ rpc = "send" /\ ~ Sending
  /\ round' = round + 1
  /\ progress' = {} /\ seq' = 0
  /\ rpc' = "round"
  /\ UNCHANGED <<nodeVars, image, queueState, queue, running, sem, mode,
                 unfinished, successed, requested, asking, attempt, spc, inhand,
                 down, left>>

SendSkip ==
  /\ rpc = "send" /\ Sending /\ seq \in progress
  /\ seq' = seq + 1
  /\ UNCHANGED <<nodeVars, image, queueState, queue, running, sem, rpc, mode,
                 unfinished, successed, requested, asking, progress, round,
                 attempt, spc, inhand, down, left>>

\* The packet is read, and the reports that came in meanwhile are taken.  The
\* test for a finished device compares written_size with both zero and
\* total_size, so a finished report is thrown away.
SendPoll ==
  /\ rpc = "send" /\ Sending /\ seq \notin progress
  /\ rpc' = "poll"
  /\ UNCHANGED <<nodeVars, image, queueState, queue, running, sem, mode, locals,
                 spc, inhand, down, left>>

DoneInPollCorrected(r) == Finished(r)  \* mutant: what the comment asks for

DoneInPoll(r) == r.written = 0 /\ Finished(r)

PollReport ==
  LET r == Head(queue)
      done == DoneInPoll(r)
  IN
  /\ rpc = "poll" /\ queue # <<>>
  /\ queue' = Tail(queue)
  /\ unfinished' = IF done \/ r.stop THEN unfinished \ {r.from} ELSE unfinished
  /\ requested' = IF (done /\ r.from \in unfinished) \/ (r.stop /\ ~ done)
                  THEN requested \ {r.from} ELSE requested
  /\ successed' = IF done /\ r.from \in unfinished \intersect requested
                  THEN successed \union {r.from} ELSE successed
  /\ rpc' = IF unfinished' = {} THEN "exit" ELSE "poll"
  /\ UNCHANGED <<nodeVars, image, queueState, running, sem, mode, asking,
                 progress, round, attempt, seq, spc, inhand, down, left>>

TargetsSwapped ==  \* mutant
  IF mode = "list" \/ Cardinality(successed) >= 2 THEN requested ELSE successed

\* Where the packet goes: to everybody as long as at most one has succeeded.
Targets ==
  IF mode = "list" \/ Cardinality(successed) >= 2 THEN requested
  ELSE IF mode = "any" /\ successed = {} THEN Node
  ELSE Node \ RootNode

SendPacket ==
  /\ rpc = "poll" /\ queue = <<>>
  /\ Multicast(Targets, PacketOf(image.name, seq))
  /\ seq' = seq + 1
  /\ rpc' = "send"
  /\ UNCHANGED <<nodeVars, image, queueState, queue, running, sem, mode,
                 unfinished, successed, requested, asking, progress, round,
                 attempt, spc, inhand>>

\* The packet cannot be read from the partition.
SendReadFails ==
  /\ rpc = "send" /\ Sending /\ seq \notin progress
  /\ May("partition_read")
  /\ rpc' = "exit"
  /\ UNCHANGED <<nodeVars, image, queueState, queue, running, sem, mode, locals,
                 spc, inhand, down, left>>

\* EXIT: the result is fixed, the flag falls, ...
Exit ==
  /\ rpc = "exit"
  /\ running' = FALSE
  /\ progress' = {} /\ attempt' = 0 /\ seq' = 0 /\ round' = 0 /\ asking' = {}
  /\ rpc' = "flush"
  /\ UNCHANGED <<nodeVars, image, queueState, queue, sem, mode, unfinished,
                 successed, requested, spc, inhand, down, left>>

\* ... the queue is emptied, ...
Flush ==
  /\ rpc = "flush"
  /\ queue' = <<>>
  /\ rpc' = "signal"
  /\ UNCHANGED <<nodeVars, image, queueState, running, sem, mode, locals, spc,
                 inhand, down, left>>

\* ... and the task that waits in mupgrade_firmware_stop is released.
Signal ==
  /\ rpc = "signal"
  /\ sem' = IF sem = "null" THEN "null" ELSE "given"
  /\ rpc' = "idle"
  /\ UNCHANGED <<nodeVars, image, queueState, queue, running, mode, locals, spc,
                 inhand, down, left>>

-----------------------------------------------------------------------------
(* mupgrade_root_handle, called by the task that reads from the mesh.      *)

RootAccept(n) ==
  /\ inhand = NoReport /\ up[n] # <<>>
  /\ up' = [up EXCEPT ![n] = Tail(@)]
  /\ inhand' = IF queueState # "none" /\ running THEN Head(up[n]) ELSE NoReport
  /\ UNCHANGED <<cfg, nvs, flash, boot, version, fin, next, task, image,
                 queueState, queue, running, sem, rpc, mode, locals, spc, down,
                 left>>

QueueHasRoomAlways == TRUE  \* mutant

QueueHasRoom == Len(queue) < QueueLen

RootEnqueue ==
  /\ inhand # NoReport /\ QueueHasRoom /\ queueState = "live"
  /\ queue' = Append(queue, inhand)
  /\ inhand' = NoReport
  /\ UNCHANGED <<nodeVars, image, queueState, running, sem, rpc, mode, locals,
                 spc, down, left>>

\* The queue stays full for CONFIG_MUPGRADE_WAIT_RESPONSE_TIMEOUT.
RootGiveUp ==
  /\ inhand # NoReport /\ Len(queue) = QueueLen
  /\ Prompt => rpc = "ask"
  /\ inhand' = NoReport
  /\ UNCHANGED <<nodeVars, image, queueState, queue, running, sem, rpc, mode,
                 locals, spc, down, left>>

-----------------------------------------------------------------------------
(* mupgrade_firmware_stop.                                                 *)

StopCheck ==
  /\ spc = "none" /\ left.stop > 0 /\ Spend("stop", 1)
  /\ spc' = IF running THEN "create" ELSE "none"
  /\ UNCHANGED <<nodeVars, image, queueState, queue, running, sem, rpc, mode,
                 locals, inhand, down>>

StopCreate ==
  /\ spc = "create"
  /\ sem' = IF sem = "null" THEN "empty" ELSE sem
  /\ spc' = "clear"
  /\ UNCHANGED <<nodeVars, image, queueState, queue, running, rpc, mode, locals,
                 inhand, down, left>>

StopClear ==
  /\ spc = "clear"
  /\ running' = FALSE
  /\ spc' = "wait"
  /\ UNCHANGED <<nodeVars, image, queueState, queue, sem, rpc, mode, locals,
                 inhand, down, left>>

\* The semaphore comes without a time limit; then it, the queue and the handle of
\* the download go, the configuration stays.
StopTake ==
  /\ spc = "wait" /\ sem = "given"
  /\ sem' = "null"
  /\ queueState' = "deleted"
  /\ queue' = <<>>
  /\ spc' = "none"
  /\ UNCHANGED <<nodeVars, image, running, rpc, mode, locals, inhand, down, left>>

-----------------------------------------------------------------------------
(* The devices and the mesh.                                               *)

Receive(n) ==
  /\ down[n] # <<>>
  /\ LET m == Head(down[n]) IN
       IF m.type = "status" THEN Status(n, m.name) ELSE Data(n, m.name, m.seq)
  /\ down' = [down EXCEPT ![n] = Tail(@)]
  /\ UNCHANGED <<rootVars, left>>

DeviceContinues(n) == Continue(n) /\ UNCHANGED <<rootVars, down, left>>

\* A reset loses what the device has not read yet.
DeviceRestarts(n) ==
  /\ n \notin RootNode
  /\ left.restart > 0 /\ Spend("restart", 1)
  /\ Restart(n)
  /\ down' = [down EXCEPT ![n] = <<>>]
  /\ UNCHANGED rootVars

DeviceStops(n) ==
  /\ left.halt > 0 /\ Spend("halt", 1)
  /\ NodeStop(n)
  /\ UNCHANGED <<rootVars, down>>

LoseReport(n) ==
  /\ up[n] # <<>>
  /\ left.lose > 0 /\ Spend("lose", 1)
  /\ up' = [up EXCEPT ![n] = Tail(@)]
  /\ UNCHANGED <<cfg, nvs, flash, boot, version, fin, next, task, rootVars, down>>

-----------------------------------------------------------------------------
Init ==
  /\ NodeInit
  /\ image = [name |-> NoName, state |-> "none"]
  /\ queueState = "none" /\ queue = <<>>
  /\ running = FALSE /\ sem = "null"
  /\ rpc = "idle" /\ mode = "list" /\ spc = "none"
  /\ unfinished = {} /\ successed = {} /\ requested = {}
  /\ asking = {} /\ progress = {}
  /\ round = 0 /\ attempt = 0 /\ seq = 0
  /\ inhand = NoReport
  /\ down = [n \in Node |-> <<>>]
  /\ left = Budget

Sender ==
  \/ RoundBegin \/ DrainReport \/ DrainTimeout
  \/ Ask \/ CollectReport \/ CollectEnd \/ AskEnd
  \/ SendEnd \/ SendSkip \/ SendPoll \/ PollReport \/ SendPacket \/ SendReadFails
  \/ Exit \/ Flush \/ Signal

Receiver == (\E n \in Node : RootAccept(n)) \/ RootEnqueue \/ RootGiveUp

Stopper == StopCreate \/ StopClear \/ StopTake

Device(n) == Receive(n) \/ DeviceContinues(n)

Environment ==
  \/ \E f \in Firmware : FirmwareInit(f)
  \/ FirmwareDownload
  \/ \E m \in Modes : \E dests \in Destinations(m) : SendStart(m, dests)
  \/ StopCheck
  \/ \E n \in Node : DeviceRestarts(n) \/ DeviceStops(n) \/ LoseReport(n)

Next == Sender \/ Receiver \/ Stopper \/ Environment \/ \E n \in Node : Device(n)

\* FreeRTOS runs every task that is ready; the mesh delivers what it does not
\* lose.
Fairness ==
  /\ WF_vars(Sender) /\ WF_vars(Receiver) /\ WF_vars(Stopper)
  /\ \A n \in Node : WF_vars(Device(n))

Spec == Init /\ [][Next]_vars /\ Fairness

-----------------------------------------------------------------------------
MupgradeTypeOK ==
  /\ NodeTypeOK
  /\ image \in [name : Name, state : {"none", "open", "failed", "finish"}]
  /\ queueState \in {"none", "live", "deleted"}
  /\ queue \in Seq(Report) /\ Len(queue) =< QueueLen
  /\ running \in BOOLEAN
  /\ sem \in {"null", "empty", "given"}
  /\ rpc \in {"idle", "round", "drain", "ask", "collect", "send", "poll",
              "exit", "flush", "signal"}
  /\ mode \in {"list", "any", "broadcast"}
  /\ unfinished \in SUBSET Node /\ successed \in SUBSET Node
  /\ requested \in SUBSET Node /\ asking \in SUBSET Node
  /\ progress \in SUBSET Packet
  /\ round \in 0 .. Retry /\ attempt \in 0 .. Attempts /\ seq \in 0 .. MaxPacket
  /\ spc \in {"none", "create", "clear", "wait"}
  /\ inhand \in Report \union {NoReport}
  /\ down \in [Node -> Seq(Message)]
  /\ left \in [DOMAIN Budget -> Nat]

\* The lists of mupgrade_result_t tell one story: who is done is neither waited
\* for nor sent packets, and only devices still waited for are asked
\* (mupgrade_root.c:197-215, 235-288).
ListsAgree ==
  /\ successed \intersect (unfinished \union requested) = {}
  /\ asking \subseteq unfinished

\* A device the root counts as succeeded has selected the complete image, or
\* already runs it (mupgrade.h: "MAC address of devices that succeeded to
\* upgrade").
SuccessIsInstalled ==
  rpc # "idle" =>
    \A n \in successed :
      \/ boot[n] = image.name /\ Whole(n, image.name)
      \/ version[n] = image.name

\* The packets left out of a round are packets every device it is for has, or
\* refuses: progress_array is the conjunction of late copies of the devices'
\* own arrays (mupgrade_root.c:270-293, 408-412).
SkippedPacketsAreHeld ==
  rpc \in {"send", "poll"} =>
    \A n \in requested :
      cfg[n].stop \/ progress \subseteq cfg[n].bits

\* While a send lasts, a device leaves the list of unfinished ones only because it
\* has succeeded or refused (mupgrade_root.c:197-211, 243-247, 427-450).
LeavesByReport ==
  [][rpc # "idle" =>
       \A n \in unfinished \ unfinished' :
         n \in successed' \/ (Head(queue).from = n /\ Head(queue).stop)]_vars

\* With enough rounds for what the mesh and a reset lose, and devices that answer
\* in time, a send does not end before it has counted every device as succeeded
\* (mupgrade_root.c:393-398).
EveryDeviceFinishes ==
  left.send = 0 /\ rpc = "idle" => unfinished = {} /\ successed # {}

\* A send ends, whatever is lost, reset or refused: every wait has a time limit
\* and every loop a bound (mupgrade_root.c:333-514).
SendEnds == rpc # "idle" ~> rpc = "idle"

\* mupgrade_firmware_stop returns to its caller (mupgrade_root.c:516-536).
StopReturns == spc # "none" ~> spc = "none"

\* The devices that hold the firmware, and those whose application stopped it.
Holders == {n \in Node : \/ version[n] # NoName
                         \/ boot[n] # NoName /\ Whole(n, boot[n])}

Decliners == {n \in Node : cfg[n].stop}

Rollout == INSTANCE MupgradeRollout
             WITH open <- rpc # "idle", pending <- unfinished, done <- successed,
                  holds <- Holders, declines <- Decliners

\* The root, the devices and the mesh together keep the promise of MupgradeRollout
\* (mupgrade_root.c:333-514, mupgrade_node.c:215-244, 288-315).
KeepsPromise == Rollout!Spec
=============================================================================
