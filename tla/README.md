# A TLA+ model of ESP-MDF

ESP-MDF is Espressif's development framework for devices that form a Wi-Fi
mesh: one *root* device is connected to a router, the others reach it over
several hops.  This directory holds TLA+ modules of the framework's own logic,
TLC configurations that check them on small instances, and proofs for every
instance.  Paths below are relative to `src/esp-mdf/components/` unless they
start with `src/`.

- [The system](#the-system)
- [Modules](#modules)
- [The receiving device: `MupgradeNode`](#the-receiving-device-mupgradenode)
- [The whole upgrade: `Mupgrade`](#the-whole-upgrade-mupgrade)
- [Long messages: `MwifiTransfer`](#long-messages-mwifitransfer)
- [Messages to many: `MwifiMulticast`](#messages-to-many-mwifimulticast)
- [The mesh starts and stops: `MwifiMesh`](#the-mesh-starts-and-stops-mwifimesh)
- [Messages without a mesh: `Mespnow`](#messages-without-a-mesh-mespnow)
- [Events: `MdfEventLoop`](#events-mdfeventloop)
- [The log in flash: `MdebugFlash`](#the-log-in-flash-mdebugflash)
- [Notices: `MlinkNotice`](#notices-mlinknotice)
- [Requests of clients: `MlinkHttpd`](#requests-of-clients-mlinkhttpd)
- [Stored triggers: `MlinkTrigger`](#stored-triggers-mlinktrigger)
- [Configuration handed on: `MconfigChain`, `MconfigControl`](#configuration-handed-on-mconfigchain-mconfigcontrol)
- [Falling back: `MupgradeCheck`](#falling-back-mupgradecheck)
- [Runs](#runs)
- [Proofs](#proofs)
- [Where code and documentation disagree](#where-code-and-documentation-disagree)
- [Limits](#limits)
- [Not modelled](#not-modelled)
- [Plan](#plan)

## The system

The application (`src/src/main.c`) starts the mesh with mwifi and then uses the
other components; all of them are C libraries over FreeRTOS (priority scheduled
tasks, queues, semaphores, timers) and over ESP-IDF (the mesh itself, NVS,
flash partitions, OTA).

| component | state it keeps | operations | hard behaviour | what makes it correct |
|---|---|---|---|---|
| `mupgrade/mupgrade_node.c` | upgrade configuration in RAM and in NVS, update partition, boot selection | handle a status request, handle a packet, stop | resets between any two flash writes; duplicates; stop from another task; failing flash | progress never claims what flash does not hold; a partial or stopped image never boots |
| `mupgrade/mupgrade_root.c` | firmware handle, report queue, running flag, exit semaphore, result lists | init, download, send, root handler, stop | three tasks and the mesh interleave; lost and late messages; full queue | the result is true; every device in reach finishes; a send ends |
| `mupgrade/mupgrade_check.c` | restart counter in NVS with a timer | fall back to the previous image, check a firmware | reset in the middle, timer against counter | the configured number of fast restarts, and nothing less, falls back |
| `mwifi/mwifi.c` | configuration, flags, reassembly buffers, sequence of the last packet, table of children | start, stop, restart, read, write, root read, root write, event callback | fragments of several writers interleave, are lost, repeated; nodes move during a multicast; events come after the calls they belong to | what is read is what somebody wrote, once; the flags catch up with the mesh |
| `mespnow/mespnow.c` | receive queues, peer list, send lock, event group | add and delete peers, read, write, callbacks | callbacks against tasks, late acknowledgements, full queues, lock on error paths | a write reports its own acknowledgement; the lock comes back; two messages are not mixed |
| `mcommon/mdf_event_loop.c` | event queue, task, timers of delayed events | send, delayed send, set, init, deinit | senders, handler and timer daemon meet at a full queue | no deadlock; a delayed event comes or is known to be lost |
| `mcommon/mdf_info_store.c` | none (NVS) | save, load, erase | failing NVS | - |
| `mcommon/mdf_mem.c` | table of allocations, for printing | add, remove, print | - | - |
| `mdebug/mdebug_flash.c` | two log files in a partition, sizes and offsets in RAM and NVS | init, write, read, erase, size | reset between the log and its offset; read against write | reading returns what was written, in order |
| `mdebug/mdebug_log.c`, `mdebug_espnow.c` | log queue, task | init, write | - | - |
| `mdebug/mdebug_console.c`, `mdebug_cmd.c` | - | console commands | - | - |
| `mconfig/mconfig_chain.c`, `mconfig_queue.c` | master and slave tasks, exit flags and semaphores, peers, one-slot queue | start, stop, the exchange itself | exit handshakes; answers of several masters that come late | stops return; one master serves; the new device is configured |
| `mconfig/mconfig_blufi.c`, `mconfig_security.c` | BluFi session | callbacks, cryptography | closed Bluetooth stack | - |
| `mlink/mlink_httpd.c` | connection list with timers, request queue | request handlers, read, write, timeout | three tasks share the list without a lock; descriptors are used again | a response reaches its own client; every request ends |
| `mlink/mlink_notice.c` | notice queue, task, exit flag and semaphore | write, init, deinit | deinit against a waiting task, re-queueing, a port that is still bound | every notice is broadcast or dropped; the stop returns |
| `mlink/mlink_trigger.c` | triggers in RAM, their texts and their list in NVS | add, remove, init, compare | reset or failure between text and list | list and texts agree after any reset |
| `mlink/mlink_sniffer.c`, `mlink_ble.c`, `mlink_espnow.c` | list of devices seen | callbacks | lock on error paths | - |
| `mlink/mlink_handle.c`, `mlink_json.c`, `mlink_utils.c` | characteristic tables | JSON requests | - | - |
| `src/src/main.c` | tasks that write and read | - | a refused call, again and again | the tasks come to rest |
| `third_party/` | vendored miniz and Aliyun SDK | | | |

How they interact: mupgrade, mconfig, mlink and mdebug all send and receive
through mwifi (a call that may block) or mespnow (callbacks and queues).  mwifi
and mlink report to the application through the event loop of mcommon.  mupgrade,
mdebug and mlink keep what must survive a reset through the info store of mcommon.
mlink's HTTP server calls mupgrade's download and send from its handlers.

`PROJECT.json` lists the same components with their status, and under `hazards`
the places where an ordering, a failure, a limit or a reset bites.

## Modules

| module | what it is |
|---|---|
| `MupgradeNode` | the devices that receive a firmware, under any environment |
| `Mupgrade` | extends it with the root's three tasks and the mesh |
| `MupgradeRollout` | the promise of `mupgrade_firmware_send` to its caller |
| `MwifiTransfer` | the packets of a long message, and how they are put together again |
| `MwifiMulticast` | one message of the root to many nodes, forwarded down the tree |
| `MwifiMesh` | starting, stopping and restarting the mesh, its events and flags, and the application's tasks |
| `Mespnow` | messages over ESP-NOW: the writers with their lock, the radio, the receiver's filter and queue, the reader |
| `MdfEventLoop` | the event queue with its task, senders, handler, and the timer daemon |
| `MdebugFlash` | the log in flash with a writer, a reader and resets |
| `MlinkNotice` | notices to the phone, starting and stopping the task that broadcasts them |
| `MlinkHttpd` | HTTP connections, the answers to them and their timeouts |
| `MlinkTrigger` | triggers in RAM and NVS, with resets |
| `MconfigChain` | a new device and the masters that hand their configuration on |
| `MconfigControl` | starting and stopping both sides of that |
| `MupgradeCheck` | the restart counter, the fallback, and the search for the firmware's mark |
| `MCMupgradeNode`, `MCMupgrade`, `MCMwifi`, `MCServices` | constants for TLC |
| `MupgradeNode_proofs`, `Mupgrade_proofs`, `Mwifi_proofs`, `MwifiMesh_proofs`, `Mespnow_proofs`, `MconfigControl_proofs`, `MdebugFlash_proofs`, `Services_proofs` | theorems |

`Mupgrade` composes the receiving devices with the root and the mesh.  The
services around the mesh share no variable in the code but what the model of each
contains (NVS keys, queues and pipes of their own), so that `MCServices` and
`MCMwifi` put them beside each other without interleaving them: a behaviour
chooses a part in its first state and leaves the others alone.

Firmware upgrade was taken first: it is the part of the framework where a
mistake costs most (a device that does not boot, or that never upgrades), and it
has all the hard behaviours at once: concurrency, loss, resets and persistence.

## The receiving device: `MupgradeNode`

| variable | code |
|---|---|
| `cfg[n]` | `g_upgrade_config->status` (`name`, `written_size`, `error_code` as `stop`, `progress_array`); `Empty` is the NULL pointer |
| `nvs[n]` | the blob under `MUPGRADE_STORE_CONFIG_KEY` |
| `flash[n]` | the update partition, one cell per packet |
| `boot[n]`, `version[n]` | the image `esp_ota_set_boot_partition` selected, and the one that runs |
| `fin[n]` | `g_upgrade_finished_flag` |
| `next[n]` | `s_next_written_percentage` |
| `task[n]` | the place of a handler that has made some but not all of its lasting effects |
| `up[n]` | reports on their way to the root |

One action is what a handler does between two effects that a reset can separate:
`StatusBegin` erases the partition and `StatusSave` stores the new record;
`WriteFlash` programs a packet, `WriteAccount` sets its bit, counts it and stores
the record when due, `WriteErase` deletes the record when all is written and
`WriteSwitch` verifies and selects the image.  `Restart` may fall between any two.
Calls named in `Faults` may fail at each use.

Data is abstracted to what can go wrong with it: a size is a number of packets, a
firmware identity stands for name and size (which is all the code compares), a
flash cell holds the packet of a firmware, nothing, or `Junk` - what programming
over a cell that was not erased gives.  A packet carries its firmware in the
model so that the properties can speak of it, but no guard looks at it, as the
code has no way to.  `Kept` is the set of packets whose bits fall into the part of
the record that is stored: the code's length is 16 bytes short
(`mupgrade_node.c:207`), so that with fewer than 3968 packets `Kept` is everything
and with more it is not.

Properties: `BitsAreFlashed`, `CountMatchesBits`, `NeverBootsPartial`,
`StoppedNeverSwitches`, `SavedPeriodically`, and the type invariant `NodeTypeOK`.

## The whole upgrade: `Mupgrade`

Root state is named after the code's variables.  The tasks are

- **the sender** in `mupgrade_firmware_send` and `mupgrade_request_status`: its
  control point `rpc` goes `round` (head of the retry loop), `drain` (take the
  reports that wait), `ask` and `collect` (up to three status requests and their
  answers), `send` and `poll` (each packet, and the reports that come meanwhile),
  `exit`, `flush`, `signal`.  One step is what the task does between two accesses
  to the queue, the running flag, the semaphore or the mesh;
- **the receiver** in `mupgrade_root_handle`: it tests the running flag
  (`RootAccept`) and then queues the report (`RootEnqueue`) or gives up on a full
  queue (`RootGiveUp`);
- **the stopper** in `mupgrade_firmware_stop`: check, create the semaphore, clear
  the flag, wait and delete the queue.

The mesh keeps the order of the messages of one link, may lose or repeat a
message while its budget lasts, and blocks a writer when `DownLimit` or `UpLimit`
messages are under way.  A wait with a time limit may expire at any time when it
finds nothing (`Prompt = FALSE`), or only when nothing is under way
(`Prompt = TRUE`, devices that answer in time).

Properties: `ListsAgree`, `LeavesByReport`, `SuccessIsInstalled`,
`SkippedPacketsAreHeld`, `EveryDeviceFinishes` (under `Prompt`), `SendEnds`,
`StopReturns`, and `KeepsPromise`: under the mapping at the end of the module
every behaviour is one of `MupgradeRollout`, whose five variables - a send under
way, the devices it waits for, those it counts, those that hold the firmware,
those that declined - are what a caller can know.  Its `Close` is weakly fair, so
`KeepsPromise` includes that the send ends.

**Fairness.** `Spec` assumes weak fairness of the sender, the receiver, the stopper
and of each device.  FreeRTOS runs every task that is ready (these tasks block on
queues and have no busy loop between them), the time limits of the waits are
finite by configuration, and the mesh delivers what it does not lose.  Nothing
is assumed of the environment: a reset, a loss, a stop, a download or a new send
never has to happen.

## Long messages: `MwifiTransfer`

| variable | code |
|---|---|
| `msg[w]` | a call of `mwifi_subcontract_write`: its message and `packet_seq` |
| `wire[w]` | the mesh between a writer and the reader, in order |
| `buf`, `total`, `expect` | `recv_data`, `total_size`, `expect_seq` of `mwifi_read` or `mwifi_root_read` |
| `magic` | `s_data_magic`, kept from call to call |
| `got` | what the calls have returned |

Sizes are numbers of full packets, and a packet says which piece of which
message it is - the model's name for the random `magic`, which tells copies from
new packets.  `ReadDiscard`, `ReadRepeated` and `ReadAccept` are the three ways
through the body of the read's loop; `ReadNotStarted` is its `continue` while the
mesh is stopped, which counts the packet expected as every turn of the loop does.
`RootReads` chooses `mwifi_root_read`, whose loop ends on another condition and
which has no filter for repeated packets.

Properties: `MessagesAreWhole`, `ReadInOrder`, `DamageIsLocal` (a packet lost or
repeated, a call that fails or a mesh that stops cost two messages at most), and
`TransferTypeOK`.

## Messages to many: `MwifiMulticast`

`mwifi_transmit_write` runs on the root for `mwifi_root_write` and on every node
that forwards, inside `mwifi_read`.  `job[n]` holds its variables: the children
it has read from the list of stations, the addresses left, whether the last call
failed.  One action serves one child: it takes the child and its subtree off
the list and hands them the message.  What is left after the children is served
one by one.  A node may `Move` between any two of these steps and takes its
subtree along; a call may fail in five ways (`Begin` when the list of stations cannot be
had, `ServeFails`, `SubnetFails`, `SubnetListFails`, `RestFails`), and `spoiled` notes
whom that may cost the message: those the failing call was to serve, and the caller itself, because `mwifi_read` returns
without its own copy when the last call failed.  A node that sends has its read
occupied until it is done.

Properties: `ReadAtMostOnce`, `EverybodyReads`, and `MulticastTypeOK`, which
includes that no address appears on a list that the write did not name.

`MulticastAssumption` says of a topology what makes it a tree below the root: above
is transitive, nobody is above himself or above the root, and of two nodes above a
third one is above the other.

Fairness: `mwifi_transmit_write` goes on, and every node goes on reading - its
application calls `mwifi_read` in a loop, which is what `src/src/main.c` does.
Messages of the mesh arrive; that a send fails is an action of its own.

## The mesh starts and stops: `MwifiMesh`

| variable | code |
|---|---|
| `inited`, `hasConfig` | `g_mwifi_inited_flag`, and that `g_ap_config` is set |
| `started`, `connected`, `rootless` | `g_mwifi_started_flag`, `mwifi_connected_flag`, `g_rootless_flag` |
| `call` | the place of a task in `mwifi_start`, `mwifi_stop` or `mwifi_restart` |
| `stackOn`, `parent`, `posts` | the mesh stack, which is closed: whether it runs, has a parent, and the events it has posted |
| `appTask` | the place of `node_write_task` and `node_read_task` in their loops |

The system's event task takes the posted events one by one (`EventCb`), while
calls and the mesh go on; `mwifi_stop` puts `started` off before it calls the
mesh.  Properties: `FlagsFollowTheMesh`, once every event has been handled and no
call is under way; `TasksRest`, that a task of the application does not circle
without a delay, because what refuses its call also puts `connected` off in the end.
`astray` notes that `esp_mesh_stop` failed or that `mwifi_deinit` was called on a
mesh that ran, after which the flags are wrong for good.

Fairness: the tasks run, calls into the mesh return and the system delivers
events.  Nobody has to call, and no parent has to be found.

## Messages without a mesh: `Mespnow`

| variable | code |
|---|---|
| `sendLock`, `holder` | `s_send_lock`, created when it is first NULL, and who has each mutex ever created |
| `w[t]` | the place of a task in `mespnow_write`, with message, packet and `retry_count` |
| `bits` | `g_event_group` |
| `air` | what `esp_now_send` has accepted and the radio has not sent |
| `lastMagic`, `pipe` | `g_last_magic` and the queue of the pipe, on the receiving device |
| `reader` | `mespnow_read` |

`WriteStep` is cut at the lock, at each send and at the wait for the callback;
`RadioStep` is `mespnow_send_cb` on one side and `mespnow_recv_cb` on the other,
with all that may go wrong in between: a packet lost, its acknowledgement lost, its
content damaged, no memory, no room.  Properties: `LockDiscipline`,
`OkMeansHeard`, `MixedReadsHaveLosses`, `WritesReturn`.  Each names what the code
does not cover: a second mutex when two tasks write first at the same time
(`Len(holder) > 1`), a lock left behind by a failing allocation (`leaked`), a wait
that has expired and whose callback answers the next send (`expired`).

Fairness: every task that can go on does, and the radio empties its queue.

## Events: `MdfEventLoop`

`sending` is the place of each task, and of the handler itself, in
`mdf_event_loop_send`: look for a place, take the front away, put.  Between these
another sender may fill the place.  `delayed` follows each delayed event from
`xTimerStart` to the queue; `commands` and `daemon` are the FreeRTOS timer task with
its queue of commands, in which the callbacks run.  Properties: `SendsReturn` - a
task always gets its event off, unless the handler waits in a send of its own for
a place that only the loop could make; `DelayedAreSent` - unless the daemon waits in
`xTimerStop` for room in its own queue.  Both exceptions are reachable.

Fairness: tasks run, time passes, handlers return.

## The log in flash: `MdebugFlash`

`cells` is the partition, a cell holding the number of the entry programmed there;
`info`, `index` and `stamp` are `g_log_info`, `g_log_index`, `flag_timestamp`, and
`stored` what NVS has of the first.  A write is erase, data, save; a read is, for
each file, look (`ReadSize`: how much is left, `mdebug_flash.c:201`), read (`ReadFile`:
from the offset as it is by then, line 204) and count (`ReadCount`), and a rotation may
fall between any two.  `hurt` notes files whose cells may differ from what
`info` says: after a reset before the save, a failing call, a time stamp that runs
over the end of the file, or a rotation while the file is read.  `ReadsAreTheLog`
says that apart from those nothing erased or programmed twice is ever handed out,
and that until a restart or a rotation in the middle of a read the entries come in
their order.

## Notices: `MlinkNotice`

`exitFlag`, `exitSem`, `noticeQueue` are the globals of the module, `udpTask` its
task with the notices it has put together, `stopper` a task in
`mlink_notice_deinit`, `write` one in `mlink_notice_write`, which takes the front of
a full queue away before it puts its own notice.  A notice of another type than the one
being collected is taken out (`CollectOther`) and queued again in a step of its own
(`RequeueOther`), before which writers may have filled the queue.  `closing` counts tasks that have
given the semaphore and not closed their sockets, which is why a new task may find
the port taken (`TaskStartFails`).  Properties: `NoticesAreTold`,
`NoticeStopReturns`.  Fairness: the tasks run.

## Requests of clients: `MlinkHttpd`

`slot` is `g_conn_list`, with the request it was made for as the model's name of an
entry; `owner` says which client has a descriptor; `timers` run, `timeoutCb` is the
timer daemon in `mlink_connection_timeout_cb`, `httpWrite` the task in
`mlink_httpd_write`, cut at each send and at the look at the flag before it.  `removal` is how far either of the two is with
the removal of an entry: after a send that failed it looks the entry up by its descriptor
(`Lookup`), closes the socket (`CloseSocket`), and then, as after the last answer, stops
the timer (`StopTimer`) and clears the entry (`ClearConn`), whoever has it by then.

A write goes on with an entry that was cleared under it, as the code does:
`httpd_default_send` then returns `MDF_ERR_INVALID_ARG`, which is positive and passes
`ret <= 0` (`mlink_httpd.c:135, 826, 841, 851`), so that the write sets the flag and
counts down the number of an entry that is free or that the next request has taken.

Properties: `ResponsesReachTheirClient` - no answer to a connected client's request is
sent to another client, unless the timer's task clears the entry in the middle of the
write (`kept` is false then).  `RequestsEnd` - a client is sent the answers of all the
devices it asked, or sees its connection closed: `reached` has every answer with the
client it was sent to, and only those to the client itself count.  `disturbedReqs` are
the requests of which this is not so: those without an entry or a timer; those whose entry was
cleared by a task that had found its predecessor there; and those whose number was counted
down by an answer to such a request or to another client's, which is written to the entry
that has the descriptor now.  All of them are reachable.

Fairness: a write goes on and timers expire; no device has to answer.

## Stored triggers: `MlinkTrigger`

`list` is `g_trigger_list`, `storedText` and `storedList` the NVS entries, and
`change` the request in the middle of its effects; `AfterInit` is the list that
`mlink_trigger_init` would make now.

The code tests what `mdf_info_save` and `mdf_info_erase` return with `ret < 0`
(`mlink_trigger.c:200, 264, 321`).  They pass on the errors of NVS and of
`mdf_err_t`, which are positive, so a store that fails is not noticed: the trigger stays
in the list, or is taken off it, the request goes on with the next one and reports
`MDF_OK`.  Only `ESP_FAIL`, which is -1, ends the request.  `AddSave`, `AddUpdate`,
`RemoveOne` and `RemoveUpdate` have all three outcomes.  `promise` is what the requests
that reported `MDF_OK` have said of each name; `unsaved` are the names whose text such a
request has not stored, `unlisted` those that the list in NVS is wrong about since it was
not stored.

`TriggersAreKept`: a name whose last request reported `MDF_OK` is in the list once and
with its last text, or not at all after its removal, whatever fails or is interrupted for
other names; and the same holds of `AfterInit` unless the name is `unsaved` or
`unlisted`.  Without this exception TLC refutes it: the loss after a reset is what the
code does (see "Where code and documentation disagree").  Exempt are only the names of the
request under way, those of requests that failed or were interrupted, and those that a
reset has cost what was not stored.

## Configuration handed on: `MconfigChain`, `MconfigControl`

`MconfigChain` is one exchange: `slaveAt` is the place of the slave's task, `dest`
its `dest_addr`, which every `mespnow_read` overwrites, `peers` its ESP-NOW peers
(`mespnow_add_peer` removes one that is there, which the code uses),
`slavePipe` what waits to be read, `chainMaster` the task of each master.  Losses,
expired waits and failing calls are bounded; `SlaveIsConfigured` says that whatever
they and earlier rounds have left behind, the slave is configured in the end.  An
answer that is late without a mishap counts as one (`Quiet`): the code relies on the
100 ms and more of a scan, and without this the slave may stay one answer behind
for ever.

`MconfigControl` is the start and end of the tasks: `duration`, `masterSem`,
`slaveFlag` and `slaveSem` are the globals, `masters` the state of every master
started.  Properties: `OneMaster`, `StopsReturn`.  `missed` notes that a master has
ended by itself before there was a semaphore to give, after which
`mconfig_chain_master` waits for ever; `overlap` that a master was started before
its predecessor had looked for the semaphore, which it then gives in the place of
another.

Fairness in both: the tasks run and every duration is over some time.

## Falling back: `MupgradeCheck`

`restartCount` is the count in NVS, `eraseTimer` the timer that erases it, `bootAt`
the place of the task, `inARow` the model's own count of boots one after the other.
`FallbackMeansRestarts`: without a failing call the firmware is only given up at the
last of `RestartCount` boots in a row, of which only the first may be a power-on, because
a power-on sets the count to 1 (`mupgrade_check.c:90-92`).  Cutting the power again and
again therefore never reverts a device, though the documentation says that it does.
`KmpNext` and `KmpFind` are the search as functions of their input; `MarkIsFound` compares them, for every partition of
`ImageSize` cells, with the definition of occurring, less the last cells the code
never looks at.

## Runs

| run | result | what it shows |
|---|---|---|
| `node_resume` | passes, 364k states | `NodeTypeOK`, `BitsAreFlashed`, `NeverBootsPartial`, `SavedPeriodically`, `StoppedNeverSwitches`, one firmware, with resets, stops, duplicates and failing writes; one ordinary device and one root that upgrades itself |
| `node_any_packet` | passes, 705k states | `CountMatchesBits`, two firmware of two and three packets that mix, every call that may fail failing |
| `mesh_modes` | passes, 244k states | `MupgradeTypeOK`, `EveryDeviceFinishes`: the three ways to address devices, with the root among them, one loss, one repetition and one reset |
| `mesh_slow` | passes, 205k states | `SkippedPacketsAreHeld`, `SuccessIsInstalled`: answers after the wait expired, a loss that leaves a device with half of the packets, a stop of the root |
| `mesh_ends` | passes, 284k states | `ListsAgree`, `LeavesByReport`, `SendEnds`, `KeepsPromise`: a device that is stopped, a queue of one report, failing root calls |
| `mwifi_messages` | passes, 134k states | `MwifiTypeOK`; `MessagesAreWhole`, `ReadInOrder`, `DamageIsLocal`: four messages of one to three packets, one repeated packet, one loss, failed call or stop of the mesh; `ReadAtMostOnce`, `EverybodyReads`: every list of four nodes, one move, one failing call; `FlagsFollowTheMesh`, `TasksRest`: four calls, three changes of parent or root, one failing call |
| `services` | passes, 851k states | `ServicesTypeOK` and the safety of the services: `LockDiscipline`, `OkMeansHeard`, `MixedReadsHaveLosses`, `ReadsAreTheLog`, `TriggersAreKept`, `OneMaster`, `MarkIsFound`, `ResponsesReachTheirClient`, `FallbackMeansRestarts` |
| `services_end` | passes, 205k states | their liveness: `WritesReturn`, `SendsReturn`, `DelayedAreSent`, `NoticesAreTold`, `NoticeStopReturns`, `RequestsEnd`, `SlaveIsConfigured`, `StopsReturn` |
| `node_stale_record` | violated | `BitsAreFlashed` with two firmware and a reset |
| `mesh_stale_report` | violated | `SuccessIsInstalled` with two sends |
| `mesh_stop_race` | violated | `StopReturns` |
| `mwifi_root_mixes` | violated | `MessagesAreWhole` with two nodes that write to the root and a mesh that loses nothing |

Bounds, and why they are enough:

- *Packets.* Two distinguish the first from the last, and a bit from all bits; three
  (`node_resume`) add a middle one, a resume in the middle, and two report
  intervals.  The code treats packets alike but for their number.
- *Interval.* 33 percent with three packets and 50 with two make the record due at
  a packet in the middle, as the default of 10 does for a real firmware.
- *Devices.* Two, so that one may finish, refuse or be late while the other is
  served; `mesh_modes` has a root besides, because `Targets` counts to two.
  Devices do not know of each other, so only the sets the root keeps relate them.
- *Queue.* Three reports as in the code, and one (`mesh_ends`) so that it is full
  with two devices.
- *Attempts, rounds.* The code has three requests per round and a configured number
  of rounds; the runs take one or two requests and two to four rounds.
  `EveryDeviceFinishes` needs a round for each loss and each reset, one to send
  and one in which the devices report their success.
- *Reports and messages in flight* (`UpLimit`, `DownLimit`) are one or two.
- *Packets of a message* (`mwifi_messages`): one, two or three, so that there is a
  first, a middle and a last; `SeqMod` and `TotalMod` are the widths of the fields
  in packets and do not wrap for these, nor for the 8095 bytes that the callers
  allow.  Four messages: the one that is damaged, the one after, one in between
  and one that must be whole again.
- *Tree*: two children of the root, one of them with a child: a list that is
  divided, a node that forwards, and a move in both directions.
- *Starts and stops* (`MeshCalls` 4): initialise, configure, start, and one more: a stop,
  a restart or a deinit before or after the event of the start.
- *ESP-NOW*: two writers of one packet each for the lock, or one writer of two
  messages of up to two packets for the reader, a queue of one, two troubles: what
  mixes messages or misreads a callback needs two.
- *Log*: files of two cells and three entries: one that fits, one that rotates, one
  that runs over with its time stamp; one reset, erase or failing call.
- *Events and notices*: queues of one or two places and one more writer than places.
- *HTTP*: two entries, two clients and two requests, with two descriptors in `services`
  and one in `services_end`, where the second client always has the descriptor of the
  first, and may have its entry; `HttpBound` in `MCServices` takes one client when a call
  fails, a second request for one device, so that only the first is answered in chunks,
  and lets the devices of a request, which nothing tells apart, answer in their order.
- *Triggers*: two names, two requests of up to two items, two resets or failures.
- *Chain*: two masters, three mishaps; four starts of the master, two of the slave: one
  to be ended, one to overlap, one to inherit the semaphore.
- *Fallback*: three boots in a row (15 by default in the code), of five; a mark of four
  letters whose beginning is like its middle, in all partitions of eight cells.
- *Budget* bounds the environment: how often a send may start, a message be lost or
  repeated, a device restart or be stopped, the root be stopped.

`CHECK_DEADLOCK FALSE` in the `mesh_`, `mwifi_` and `services` runs that have it: once
the budget is used up and what was begun has come to its end, nothing is left to do.
That no task is left waiting is what the liveness properties say.

## Proofs

TLAPS checks each of these for every value of the constants that meets the named
assumption of the module, which TLC evaluates on every run.  What a theorem supposes
besides stands before its arrow.

| theorem | says |
|---|---|
| `NodeTypeCorrect` | `NodeSpec => []NodeTypeOK` |
| `CountIsExact` | `RecordIsWhole => (NodeSpec => []CountMatchesBits)` |
| `SelectedIsWhole` | `OneFirmware => (NodeSpec => []NeverBootsPartial)` |
| `StoppedStays` | `OneFirmware /\ ~ StopAnyTime => (NodeSpec => []StoppedNeverSwitches)` |
| `BitsKeepTheirPromise` | `OneFirmware /\ RecordIsWhole /\ ErasesWork => (NodeSpec => []BitsAreFlashed)` |
| `ResetCostsLittle` | `OneFirmware /\ SmallPackets /\ SavesWork => (NodeSpec => []SavedPeriodically)` |
| `ListsAlwaysAgree` | `Spec => []ListsAgree` |
| `MupgradeTypeCorrect` | `Spec => []MupgradeTypeOK` |
| `DevicesLeaveByReport` | `Spec => LeavesByReport` |
| `SuccessesAreInstalled` | `OneFirmware /\ Budget.halt = 0 /\ (Budget.restart = 0 \/ NeverSavedFull) => (Spec => []SuccessIsInstalled)` |
| `SkippedAreHeld` | `OneFirmware /\ Budget.restart = 0 => (Spec => []SkippedPacketsAreHeld)` |
| `EveryDeviceIsUpgraded` | `FinishTerms => (Spec => []EveryDeviceFinishes)` |
| `PromiseIsKept` | `PromiseTerms => (Spec => Rollout!Init /\ [][Rollout!Next]_(Rollout!vars))` |
| `TransferTypeCorrect` | `TransferSpec => []TransferTypeOK`, a conjunct of `MwifiTypeOK` |
| `OneWriterInOrder` | `Writer = {w} /\ ~ RootReads /\ MessagesFit => (TransferSpec => []ReadInOrder)` |
| `OneGapMixesNothing` | `Writer = {w} /\ ~ RootReads /\ MessagesFit => (TransferSpec => [](gaps =< 1 => MessagesAreWhole))` |
| `DamageStaysLocal` | `Writer = {w} /\ ~ RootReads /\ MessagesFit => (TransferSpec => []DamageIsLocal)` |
| `MulticastTypeCorrect` | `MulticastSpec => []MulticastTypeOK`, a conjunct of `MwifiTypeOK` |
| `MeshTypesHold` | `MeshSpec => []MeshTypeOK`, a conjunct of `MwifiTypeOK` |
| `MwifiTypesHold` | `MwifiSpec => []MwifiTypeOK`, for the three beside each other |
| `ReadOnce` | `MulticastSpec => []ReadAtMostOnce` |
| `FlagsTellTheTruth` | `MeshSpec => []FlagsFollowTheMesh` |
| `MespnowTypesHold` | `MespnowSpec => []MespnowTypeOK`, a conjunct of `ServicesTypeOK` |
| `LockIsDisciplined` | `MespnowSpec => []LockDiscipline` |
| `OkIsHeard` | `MespnowSpec => []OkMeansHeard` |
| `MixingNeedsLosses` | `MespnowSpec => []MixedReadsHaveLosses` |
| `ControlTypeCorrect` | `ControlSpec => []ControlTypeOK`, a conjunct of `ServicesTypeOK` |
| `OneMasterServes` | `ControlSpec => []OneMaster` |
| `ReaderStaysBehind` | `~ Overlap => (FlashSpec => []OffsetWithinSize)` |
| `ReadsOnlyTheLog` | `FlashSpec => []ReadsAreTheLog` |
| `AnswersReachTheirClient` | `HttpSpec => ResponsesReachTheirClient` |
| `FallbackNeedsRestarts` | `CheckSpec => FallbackMeansRestarts` |
| `TheMarkIsFound` | `CheckSpec => []MarkIsFound` |
| `TriggerTypeCorrect` | `TriggerSpec => []TriggerTypeOK`, a conjunct of `ServicesTypeOK` |
| `TriggersStay` | `TriggerSpec => []TriggersAreKept` |
| `ServicesTypesHold` | `ServicesSafety => []ServicesTypeOK`, for the nine beside each other |

### The receiving device

- `NodeTypeOK` is not inductive alone: `WriteAccount` divides by the size of the
  firmware in `cfg`, which exists only because a handler that has begun knows a
  name (`BusyKnowsName`).  `NodeInv` is their conjunction.
- `CountMatchesBits` needs two things more.  The record must be stored whole: the
  hypothesis `RecordIsWhole` (`Kept = Packet`, and no stop in the middle of a
  handler) is exactly what holds for a firmware below the 16 missing bytes.  And
  between the flash write and the account the bit is not set yet: `CountInv` keeps
  that the packet in hand is no member of the bits, and that the bits are finite.
- `OneFirmware` is the hypothesis of what follows, and not a matter of the proof: a
  data packet does not say which firmware it is of and a reset between the erasing and
  the saving leaves the old bits, so that with a second firmware the properties are
  false (the runs `node_any_packet` and `node_stale_record`, and
  "Where code and documentation disagree").  No device has an image that was sent to
  it when it starts: an upgrade of a device is the one firmware of these theorems.
- `NeverBootsPartial` holds because nothing erases the partition once an image is
  selected: `BootInv` adds to `NodeInv` that a device with a selected image knows a
  name (so that the one firmware is not new to it), has the flag `fin` set and has
  the whole image.  Any call may fail and anything may be delivered in any order.
- `StoppedNeverSwitches`: `StopInv` adds that a handler under way works for an upgrade
  that is not stopped; with a stop in the middle of a handler that is false, hence
  `~ StopAnyTime`.
- `BitsAreFlashed`: `FlashInv` (with `StopInv` and `CountInv`) says of the partition
  that it holds packets of one firmware or nothing, and of the bits in RAM and of those
  in the record that their packets are among them; that a handler between the flash
  write and the account has its packet there; that a handler which has just erased has no
  bits in RAM; and that from completion on all is written and no record is left.
  `ErasesWork` excludes a failing `esp_ota_begin`, which leaves the name in RAM and the
  partition as it was, and a failing `mdf_info_erase`, which leaves the bits of an image
  that is already selected.
- `SavedPeriodically`: the threshold `next` never is more than two intervals
  from the stored percentage (`Behind`).  `SmallPackets` says that a firmware has a
  hundred packets or more, so that one packet never passes two percentages: the code
  saves once per packet and moves the threshold by one interval.  `SavesWork` excludes
  failing saves, after which the threshold has moved all the same.

### The whole upgrade

- `ListsAgree` follows from an invariant (`ListInv`) that says who is asked and
  requested at which control point; all the devices' steps leave it alone.
- `MupgradeTypeOK` uses `NodeInv` and `Places`, which ties the loop counters to the
  control points: a round counter only moves below `Retry`, a sequence number only
  while the sender is sending, so that none exceeds its bound.
- `LeavesByReport` is an action property: every step that takes a device from
  `unfinished` either adds it to `successed` or has a refusal of that device at the
  head of the queue; the type invariant gives that the head exists.
- `SuccessIsInstalled` and `SkippedPacketsAreHeld` are about what a report said when it
  was written, and is believed when it is read: any number of steps of the device, the
  mesh and the queue later.  `SuccessInv` follows every report on its way (`up`, the
  receiver's hand, `queue`): a report is `Honest` when what it says is true of its device
  now, and every step of a device is `Carried`: what was true of it stays so.  The
  lists of the root are then made of honest reports (`Counted`, `LeftOut`).  `Trusty`
  says of a device why its reports are honest: a record that counts every packet belongs
  to a device that has selected its image, unless it is between the two effects.
- The two hypotheses of `SuccessesAreInstalled` are two true exceptions.  A stop by the
  application takes a success back (`Budget.halt = 0`).  And a reset after the last
  packet was saved, before the image is selected, makes a device report completion
  without an image; `NeverSavedFull` says that no record is ever stored with the last
  packet, which is so when no multiple of the interval is 100 percent.  With resets and
  an interval that divides 100 the invariant is false, and so is the property: the
  disagreement at `mupgrade_node.c:206-228` below.  The default interval of the code is 10.
- `SkippedPacketsAreHeld` excludes resets altogether: a device that is reset goes back to
  its record, behind what it has reported, and lacks packets that the root leaves out
  until it asks again.
- `EveryDeviceFinishes` is shown by counting: every round of a send is paid for by a
  message lost or a device reset (`Misses`), but for the one that sends the packets and
  the one in which the devices say that they have them, so a send with more rounds than
  that ends before it has used them up.  `FinishInv` says so at each control point of
  the send (`Rounds`): there are as many misses as rounds, or one fewer and every device
  of the list has, or has under way, all the packets (`Complete`, `Coming`).  Within a round each
  attempt costs a miss, because a device that is asked is `Pending` until it is heard:
  its request, its handler or its report is somewhere, and with `Prompt` no wait ends
  before.  A report that arrives late does not do harm (`Timely`): what it lacks was
  lost since.  The devices contribute what their own theorems say of them (`Sound`: a
  count is a count of bits that are in the partition), with the root, which answers out
  of its configuration, as an exception (`RootConfig`).
- `FinishTerms` is what `EveryDeviceFinishes` cannot do without: one firmware, a record
  that is stored whole, calls that work and answers that come in time, `Attempts > 1`, more rounds than
  losses, resets and one, a send at all, nobody who stops the device or the root, and a
  device besides the root, without which a broadcast is to nobody.  The run
  `mesh_modes` is an instance of it.
- `PromiseIsKept` is the refinement `KeepsPromise` without its liveness, step by step:
  every action of the upgrade is `Open`, `Install`, `Decline`, `Confirm`, `Release` or
  `Close` of `MupgradeRollout`, or changes nothing of it.  `RootHandle` is where it
  needs `SuccessInv`: the device a report confirms holds the image or has declined.

### The mesh and the services

- `TransferTypeOK` is inductive.  Its one relation between variables is that the
  number expected exceeds the packets held at most by the interruptions counted in
  `gaps`; `WriterStep` and `ReaderStep` reduce each action to the values it sets.
- `ReadAtMostOnce` is about who holds an address.  `Divided` says that a node named by
  a list is in one place at a time: on the list of one writer or in what it keeps for
  the end, on the list of one message or its addressee, or among those who have
  read.  Serving a child divides a list in two and leaves nobody on both, whatever the
  routing table says at that moment, so that moves do no harm.  A message to
  everybody has no list.  Its invariant (`DownTheTree`) holds until somebody moves: there
  is one copy of it on each way down, and below one that has not arrived nobody has read
  or is being written to.  That every node has one parent is where the assumption on the
  topologies is needed.  After a move such a message may well be read twice; the
  property excepts it.
- `FlagsFollowTheMesh` speaks of the moment when no event waits.  `Tells` says what is
  true before: the last waiting event of the two kinds that set a flag says what the
  mesh is, or, when none waits, the flag does.  Lemmas about `Append`, `Tail` and an
  emptied queue carry `Tells` over each step.
- `Mespnow`: `EspnowInv` has the types, `LockDiscipline`, `SentIsHeard` and `OneAtATime`.
  `SentIsHeard` ties the event bits to the packet of the task that waits and
  gives `OkMeansHeard`.  `OneAtATime` is about order: the packets in the air are of one message
  after the other and follow the one received last, a message of which something was
  accepted is under way or over, and of two packets next to each other in
  the reader's hand and the queue, if they are of two messages, those between were not
  accepted and will not be.  That gives `MixedReadsHaveLosses`.
- `ControlTypeOK` contains that there is one slave task at most.  That needs
  `SlaveInv`: a task exists only while the semaphore is taken, and a new one is only
  started when the flag is off and nobody waits, when there is none.
- `OneMaster` needs `MasterInv`: unless a start overlapped the end of its
  predecessor, one master at most serves or is about to look for the semaphore, and
  none serves when the duration is off and no call is under way, when the semaphore
  waited for was given, or when a call is about to start the next.
- `OffsetWithinSize` is inductive only with what a read remembers: from the look at
  the size of a file to the count of its cells (`rd.at` is `"read"` or `"count"`), offset
  plus the cells asked for is at most the size.  The writer would break this when it empties the file
  meanwhile, which is why the theorem has the hypothesis; with `Overlap = TRUE` TLC
  refutes `OffsetWithinSize`.
- `ReadsAreTheLog` needs no such hypothesis, because `hurt` names the files it does not
  speak of.  `SoundInv`: a file that is not hurt holds numbers of entries up to its size
  and is erased behind, unless it is about to be, and no reader is past its size.  This
  is claimed while the log is started or something is stored, as what the partition
  holds before is not known.  `GotInv`: what a read took is of one kind, entries or the
  cells of a hurt file.  `PlanInv`: the number of cells a read asks for, computed a step
  before, is still there to be read, because a rotation meanwhile marks the file hurt.
  `OrderInv` is the order, until something disturbs it: cells of a
  file do not decrease, those of the older file come before those of the newer one, what
  is left to read does not come before what was read last, and the reader gets to the newer
  file only with the older one used up or with a full buffer.
- `ReadInOrder` and `MessagesAreWhole` are about one writer and `mwifi_read`, and about
  messages that fit the header (`MessagesFit`: their number of packets the 3 bits of
  `packet_seq`, their size the 13 bits of the total): `mwifi_write` refuses 8096 bytes
  and more (`mwifi.c:846`), which is 6 packets. `Line` is what the reader has not taken
  yet: the packets under way and then the next one of the writer. `OrderInv` says that
  what the reader took comes before it and that it is in order itself, whatever is lost
  or repeated.
- `MessagesAreWhole` needs to know where the gap is. `Stream`: neighbours in the line
  follow each other, but for one jump when there was a gap. The reader is either in step
  with the first of the line (`InStep`), or has dropped what it held (`Dropped`), or it
  holds less or expects more than it should (`Behind`, `Ahead`) only where the gap lies
  behind everything under way (`Late`), so that no jump can come that would make the
  wrong number right. A second gap can, and mixes two messages.
- `DamageIsLocal` is proved for any number of mishaps (packets lost or repeated, calls
  that fail, stops of the mesh), where messages are no longer whole, so it is a matter of
  accounts. They are kept along the line of packets (`Ledger`): up to each place of the
  line there were so many mishaps, and what two neighbours are apart is paid for by those
  between them (`Paid`: one for a copy, one for each message of which something is
  missing). The reader has two messages to spend for each mishap up to the first packet
  of the line, besides the ones it has read; with these `Enough` says what it can afford:
  to lose the first packet's message (`Spare`), or to lose it alone, as it will be in step
  again when the next one begins, or nothing, as it is in step now. What the reader does
  with a packet (`Does`) depends on the same numbers, so a read (`EnoughStays`) is a
  lemma about numbers. That no message is counted twice is `OrderInv`.
- `FallbackMeansRestarts`: while no call has failed the count in NVS is never ahead of
  the boots in a row, and is behind them while a boot is not counted yet
  (`CountedInARow`).  That a power-on does not reach the threshold follows from the count
  of one that it sets.
- `MarkIsFound` is the correctness of the search (`KmpFind`) for every mark and every
  partition.  It is an induction, and as the induction theorems of the library cannot be
  instantiated it is done with sets: a set of numbers that has 0 and with each number
  the next has all (`EveryNumber`, from the least element of what it lacks).  A prefix of
  the mark `EndsAt` a place of a text; the table has for each place the longest proper
  prefix that ends there, falling back goes through the prefixes that end there in
  decreasing order and misses none, and so the number of letters matched is always the
  longest prefix that ends where the search is, until the whole mark does.
- `ResponsesReachTheirClient`: as long as its client is connected, a write that has
  found an entry holds the one with the client's descriptor (`EntryIsOfClient` of
  `HttpInv`), because whoever clears an entry has closed its socket, and because a number
  of a client is never used again though its descriptor is.  The invariant is claimed as
  long as the entry is `kept`: the task of the timer may have found it for another request.
- `TriggersAreKept` speaks of names that no request is changing. `KeptInv` says of every
  name not given up, also while a request is between two of its effects, what the three
  copies of it hold: the list in RAM has what the request has got to (`InRam`), once; the
  stored text is the same, except before it is saved and when the name is `unsaved`; the
  stored list has one entry with its size until the request has changed it in RAM, unless
  the name is `unlisted`. A failure that is noticed or a reset in between gives up the names
  of the request, a reset those of `unsaved` and `unlisted` too, and for the others all three
  agree with the promise. `InitFinds` then says what a reset loads: the places of the stored list that
  have a text, each once (`BehindFinds`: the places from the end count them, by an
  injection between finite sets of one size).

- `ServicesTypeOK` holds of nine modules that share no state, so `ServicesInv` is one
  invariant of each, and a step of `ServicesNext` is a step of one of them and a stutter of
  the others (`OneServiceAtATime`). Only the types of the event loop are inductive
  alone. An entry programmed into the log has a number because a write that has begun has
  counted one (`Shape`), a master answers only when it has an answer (`ChainInv`), a
  count about to be stored is of fewer boots (`CheckInv`), a slave task is there only
  while the slave is on or being ended (`SlaveInv`), and an entry of the connection list
  names a request that was made (`RequestsNamed`). The number of devices in such an entry
  is a `uint16_t` (`Truncated`, `Decremented`), while the request keeps its `size_t`.

### Only model-checked

- Liveness under fairness, which TLAPS does not prove: `SendEnds`, the `WF` of
  `KeepsPromise`, and the liveness properties of the other modules.  That a send ends is
  therefore checked, that every device is upgraded when it has ended is proved.
- `ReadInOrder` and `DamageIsLocal` are false with two writers to `mwifi_read`: a packet of
  one comes in the middle of a message of the other, which costs messages though nothing
  is lost, and only a copy of the packet accepted last is filtered. The passing run and
  the theorems have one writer.
- `MessagesAreWhole` after a second gap or with a second writer, and in
  `mwifi_root_read`: it is false there (see below).

## Where code and documentation disagree

Four of them are runs whose property TLC refutes:

- `node_stale_record`: the partition is erased before the old record is replaced
  (`mupgrade_node.c:96-104`), so a reset in between leaves progress bits for
  packets that are gone.
- `mesh_stale_report`: a report is not compared with the firmware of the send
  (`mupgrade_root.c:196`), so one of an earlier upgrade counts for the next.
- `mesh_stop_race`: a send that ends between the check and the wait of
  `mupgrade_firmware_stop` (`mupgrade_root.c:518-528`) never releases it.

- `mwifi_root_mixes`: after a packet with number 0 that comes where another was
  expected, `mwifi_root_read` does not leave its loop at the end of the message
  (`mwifi/mwifi.c:1330, 1362`) and appends the next one.  Two nodes that write at
  the same time are enough.

Others the model contains and the passing runs exclude by their constants; each
appears when the constant is changed:

- data packets have no identity (`mupgrade_node.c:185`): with `AnyPacket = TRUE`
  `BitsAreFlashed` fails, against `docs/en/api-guides/mupgrade.rst:21`;
- the stored record is 16 bytes short (`mupgrade_node.c:207`): with
  `Kept # Packet` `CountMatchesBits` fails;
- `mupgrade_stop` has no lock against the handler (`mupgrade_node.c:288`): with
  `StopAnyTime = TRUE` `StoppedNeverSwitches` fails;
- the threshold of the next save is static (`mupgrade_node.c:196`): with two
  firmware `SavedPeriodically` fails;
- `mwifi_read` expects number 0 and not 1 after such a packet (`mwifi.c:1037`), so the
  message it begins is lost when it has several packets (this is why
  `DamageIsLocal` allows two messages), and with two writers, or with `Gaps = 2`, two
  messages can be put together: `MessagesAreWhole` fails;
- with a stopped mesh `mwifi_root_read` returns an empty message
  (`mwifi.c:1343-1346` continues a loop whose condition is then false): with
  `RootReads = TRUE` and `Gaps = 1` `MessagesAreWhole` fails;
- a reset between the last save and the selection of the image
  (`mupgrade_node.c:206-228`): with `Restarts = 1` `SuccessIsInstalled` fails.

One is a property that says the opposite of the documentation, and passes:

- `docs/en/api-guides/mupgrade.rst:22` says that a device can be reverted by "cutting the
  power supply and rebooting for multiple times", but a power-on sets the count of restarts
  to 1 (`mupgrade_check.c:90-92`), as do a brown-out and a wake-up from deep sleep, so that
  only restarts of a device that keeps its power add up: `FallbackMeansRestarts` and the theorem
  `FallbackNeedsRestarts`.  With `RestartCount = 1`, and only then, one power-on is enough.

Others are named in a property as its exception, and fail it when the exception is
taken away:

- a trigger whose text or whose place in the list could not be stored is reported as set,
  and one that could not be erased as removed: the tests with `ret < 0` at
  `mlink_trigger.c:200, 264, 321` do not see the errors of NVS, which are positive
  (`mdf_info_store.c:91-102`), though line 264 says "Save the information" of the error it
  means to report; after the next reset the trigger is gone, or has come back;

- two tasks that call `mespnow_write` first at the same time make a mutex each
  (`mespnow.c:227`); a failing allocation keeps the lock (`mespnow.c:237`); a
  callback later than its wait answers the next send (`mespnow.c:264`);
- a handler that sends to its own full loop, and a timer callback that meets a full
  command queue, wait for themselves (`mdf_event_loop.c:82, 106`);
- nothing keeps `mdebug_flash_read` and `mdebug_flash_write` apart
  (`mdebug_flash.c:214`), where `docs/en/api-guides/mdebug.rst:236` says that a mutex
  does: a rotation in the middle leaves an offset beyond the size, and the difference
  of the two, unsigned, is what is read next;
- `mlink_notice_deinit` waits for ever for a task that ended for want of a socket,
  which the socket of the task before it may be the cause of (`mlink_notice.c:174-188`);
- `mconfig_chain_master` waits for ever when the master ends by itself between the
  test and the semaphore (`mconfig_chain.c:594-598`), and two masters may serve after
  a start that overlaps;
- an entry of the connection list may be cleared by the task that found its
  predecessor there (`mlink_httpd.c:150-157`), or counted down by an answer to the client
  that had the descriptor before (line 795 finds it by the descriptor alone);
- a write whose entry was cleared does not notice (`mlink_httpd.c:135`: the error is
  positive where lines 826, 841 and 851 test `ret <= 0`), and may leave a free entry with
  flag and number of a request that is none, which no timer ever frees;
- a mark in the last cells of the partition, fewer than it is long, is not found
  (`mupgrade_check.c:174`);
- a failing `esp_mesh_stop` leaves `started` off, so that no later `mwifi_stop` does
  anything, and `mwifi_deinit` leaves all flags as they are; a node without a root
  has its write refused at once and `node_write_task` goes round without a delay
  (`src/src/main.c:103`).

And some the model translates without a property about them: the test at
`mupgrade_root.c:427` is never true, so a device that finishes during a round is
found out in the next (the mutant that corrects the test breaks `LeavesByReport`:
line 431 onwards would then drop devices that are not in the requested list); a
report that passed the running flag may meet a queue that a stop has deleted;
`mupgrade_firmware_init` returns `MDF_OK` when `esp_ota_begin` fails; a failed
begin leaves the new name in RAM, so that the repeated request does not erase;
`mwifi_stop` before the event of the start stops nothing; a cold start that is cut
off before it is counted leaves the old count to the next restart; the list of
triggers is reversed at each boot; a trigger whose text cannot be erased stays in
the list beside the new one.

## Limits

- One send at a time, and no download during a send; the caller must see to both.
- The use of a deleted queue is undefined in FreeRTOS: `RootEnqueue` and `SendStart`
  require a live one and the model ends there.
- An allocation that fails stops the device (`ESP_ERROR_ASSERT`), which is a
  `Restart`.
- Image verification is `Whole`: the cells are the packets of one firmware.
- The time of the waits is not modelled, only that they may expire.
- The image a device was shipped with is no image of the model: it cannot be sent.
- Of mwifi: groups, compression, the single destinations of `mwifi_write` and
  `mwifi_root_write`, which are one `mwifi_subcontract_write` each, and the address
  lists' share of the size of a message, which may exceed the 13 bits of the field.
- Services run beside each other without interleaving; what one component calls of
  another is an action that may fail.
- Nobody stops the event loop while an event is sent or delayed, and nobody calls
  `mespnow_deinit` while a task writes: the use of a deleted queue or lock is undefined.
- A magic number of ESP-NOW, which is random, is one of its own for every packet.
- `MlinkTrigger` has fewer than the 32 triggers the stored list has room for.
- Answers of a write whose entry the timer's task has cleared are exempt in
  `ResponsesReachTheirClient`, and requests whose number another client's answer has counted
  down in `RequestsEnd`: the code sends and counts by descriptor and entry alone.
- A move in `MwifiMulticast` takes effect at once, and the mesh delivers to a node
  wherever it is.

## Not modelled

- `mconfig/mconfig_blufi.c`, `mlink/mlink_ble.c`, `mlink/mlink_sniffer.c`: callbacks of
  the closed Bluetooth and Wi-Fi stacks, whose order of calls the repository does not
  define.  `mconfig/mconfig_security.c`: calls of mbedtls.
- `mlink/mlink_handle.c`, `mlink_json.c`, `mlink_utils.c`: parsing, formatting and
  dispatch by name over tables that are filled once.  `mdebug/mdebug_console.c`,
  `mdebug_cmd.c`: the same for a console.  `mcommon/mdf_err_to_name.c`: a table.
- `mcommon/mdf_info_store.c` keeps nothing; its calls are steps of the modules that use
  it, which may fail.  `mcommon/mdf_mem.c` is compiled in for debugging only and no
  decision reads its table.
- `mdebug/mdebug_log.c`, `mdebug_espnow.c`, `mlink/mlink_espnow.c`: a task each that
  passes lines or messages on to what `MdebugFlash` and `Mespnow` model.
- Of mwifi: groups, compression, the timer with which a root gives itself up, and the
  three cells in which up to twenty waiting events share their information
  (`mwifi.c:170`; `mwifi.h:80` says the information is attached), which no handler in
  `src/src` reads.
- Of mlink: mDNS, the discovery answer, requests without an answer, the information
  pages, stopping the server, and `mlink_trigger_handle`.  The last compares values of
  the application; reading it, `rising` and `falling` are compared with the boolean
  `variation` above them and not with their thresholds
  (`mlink_trigger.c:356-357`), and it walks the list while a request may free an item
  of it.
- `third_party/`, `examples/` and `tools/`: vendored code, and programs that use the
  framework in the way `src/src/main.c` does.  They are most of the repository's lines.

## Plan

1. *(done)* `MupgradeNode`, `Mupgrade`, `MupgradeRollout` and their first proofs.
2. *(done)* `MwifiTransfer`, `MwifiMulticast`, `MwifiMesh`, with the first proof.
3. *(done)* `Mespnow`, `MdfEventLoop`, `MdebugFlash`, `MupgradeCheck`, `MlinkNotice`,
   `MlinkHttpd`, `MlinkTrigger`, `MconfigChain`, `MconfigControl`, with proofs of the
   last and of the log's offsets.
4. *(done)* Proofs of what the devices keep in flash and in their record, of whom the root
   counts and what it leaves out, of what a send has achieved when it ends, of the
   refinement of `MupgradeRollout`, of what a reader of mwifi loses, of the lock and the
   messages of `Mespnow`, of the flags of `MwifiMesh`, of the messages to many, of what
   is read from the log, of the fallback, of the answers to clients, of the triggers and
   of the types of everything.
5. *(done)* Every invariant of a passing run is stated by a theorem.  What is left to
   TLC alone is liveness and what needs it; see "Only model-checked".
