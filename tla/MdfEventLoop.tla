----------------------------- MODULE MdfEventLoop -----------------------------
(***************************************************************************)
(* The event loop (mdf_event_loop.c): tasks, the handler itself and the    *)
(* callbacks of timers put events into one queue, and one task hands them  *)
(* to the application's handler.  Whoever finds the queue full takes its   *)
(* front away and then puts its own event, which are separate steps: by    *)
(* then others may have filled it again.                                   *)
(*                                                                         *)
(* A delayed event is a FreeRTOS timer.  The calls that start, stop and    *)
(* delete timers are commands in a queue that the timer daemon empties,    *)
(* the task the callbacks run in.  Nobody stops the loop while an event is *)
(* being sent or delayed.                                                  *)
(***************************************************************************)
EXTENDS Naturals, Sequences, FiniteSets

CONSTANTS
  EventTask,  \* tasks that send events
  EventRoom,  \* EVENT_QUEUE_NUM
  Events,     \* how many events are sent, by the handler too
  Delays,     \* how many events are delayed
  TimerRoom,  \* configTIMER_QUEUE_LENGTH
  OtherCommands,  \* how many commands are about other timers
  LoopStarts  \* how often the loop is started or its handler changed

ASSUME EventAssumption ==
  /\ EventRoom \in Nat \ {0} /\ TimerRoom \in Nat \ {0} /\ LoopStarts \in Nat
  /\ Events \in Nat /\ Delays \in Nat /\ OtherCommands \in Nat

VARIABLES
  loop,        \* mdf_event_loop_task: "none", "wait", "handle"
  handlerSet,  \* whether g_event_handler_cb is set
  eventQueue,  \* g_event_queue_handle: 0, or the number of a delayed event
  sending,     \* of each task and of the handler: where it is in mdf_event_loop_send
  delayed,     \* what has become of each delayed event
  commands,    \* the queue of the timer daemon
  daemon,      \* where the daemon is, and the event whose callback it runs
  eventUsed    \* how much of the bounds is used

eventVars == <<loop, handlerSet, eventQueue, sending, delayed, commands, daemon, eventUsed>>

Handler == "handler"
Sender == EventTask \union {Handler}
DelayedEvent == 1 .. Delays
QueueIsFull == Len(eventQueue) >= EventRoom
Used(what) == eventUsed' = [eventUsed EXCEPT ![what] = @ + 1]

-----------------------------------------------------------------------------
\* mdf_event_loop_send
SendCall(s) ==
  /\ loop # "none" /\ sending[s] = "idle" /\ (s = Handler => loop = "handle")
  /\ eventUsed.events < Events /\ Used("events")
  /\ sending' = [sending EXCEPT ![s] = "check"]
  /\ UNCHANGED <<loop, handlerSet, eventQueue, delayed, commands, daemon>>

\* Whether there is a place is looked at, then the front is taken, if there is one,
\* then the event is put as soon as there is a place.
SendCheck(s) ==
  /\ sending[s] = "check"
  /\ sending' = [sending EXCEPT ![s] = IF QueueIsFull THEN "drop" ELSE "put"]
  /\ UNCHANGED <<loop, handlerSet, eventQueue, delayed, commands, daemon, eventUsed>>

Lost(q, how) == [id \in DelayedEvent |-> IF q # <<>> /\ Head(q) = id THEN how ELSE delayed[id]]
PutInFront == IF eventQueue = <<>> THEN <<>> ELSE Tail(eventQueue)

SendDrop(s) ==
  /\ sending[s] = "drop" /\ sending' = [sending EXCEPT ![s] = "put"]
  /\ eventQueue' = PutInFront /\ delayed' = Lost(eventQueue, "dropped")
  /\ UNCHANGED <<loop, handlerSet, commands, daemon, eventUsed>>

SendPut(s) ==
  /\ sending[s] = "put" /\ ~ QueueIsFull /\ sending' = [sending EXCEPT ![s] = "idle"]
  /\ eventQueue' = Append(eventQueue, 0)
  /\ UNCHANGED <<loop, handlerSet, delayed, commands, daemon, eventUsed>>

-----------------------------------------------------------------------------
\* mdf_event_loop_task: without a handler an event is thrown away.
LoopReceive ==
  /\ loop = "wait" /\ eventQueue # <<>> /\ eventQueue' = Tail(eventQueue)
  /\ loop' = IF handlerSet THEN "handle" ELSE "wait"
  /\ delayed' = Lost(eventQueue, "received")
  /\ UNCHANGED <<handlerSet, sending, commands, daemon, eventUsed>>

\* The handler returns; that it failed is only logged.
AfterHandlerEnds == {"wait", "none"}  \* mutant
AfterHandler == {"wait"}

HandlerReturns ==
  /\ loop = "handle" /\ sending[Handler] = "idle" /\ loop' \in AfterHandler
  /\ UNCHANGED <<handlerSet, eventQueue, sending, delayed, commands, daemon, eventUsed>>

\* mdf_event_loop_set, mdf_event_loop_init and mdf_event_loop_deinit
LoopSet(set) ==
  /\ eventUsed.starts < LoopStarts /\ Used("starts") /\ handlerSet' = set
  /\ UNCHANGED <<loop, eventQueue, sending, delayed, commands, daemon>>

LoopInit ==
  /\ loop = "none" /\ eventUsed.starts < LoopStarts /\ Used("starts")
  /\ loop' = "wait" /\ handlerSet' = TRUE /\ eventQueue' = <<>>
  /\ UNCHANGED <<sending, delayed, commands, daemon>>

NobodySends == (\A s \in Sender : sending[s] = "idle") /\ daemon.at = "idle"
NobodyWaits == \A id \in DelayedEvent : delayed[id] \notin {"started", "running"}

LoopDeinit ==
  /\ loop # "none" /\ NobodySends /\ NobodyWaits
  /\ loop' = "none" /\ handlerSet' = FALSE /\ eventQueue' = <<>>
  /\ delayed' = [id \in DelayedEvent |-> IF delayed[id] = "queued" THEN "dropped" ELSE delayed[id]]
  /\ UNCHANGED <<sending, commands, daemon, eventUsed>>

-----------------------------------------------------------------------------
\* mdf_event_loop_delay_send says MDF_OK when the command does not fit, too.
DelaySend(id) ==
  /\ loop # "none" /\ delayed[id] = "new"
  /\ IF Len(commands) < TimerRoom
       THEN commands' = Append(commands, id) /\ delayed' = [delayed EXCEPT ![id] = "started"]
       ELSE delayed' = [delayed EXCEPT ![id] = "not started"] /\ UNCHANGED commands
  /\ UNCHANGED <<loop, handlerSet, eventQueue, sending, daemon, eventUsed>>

\* Another timer of the system is started, reset or stopped.
OtherCommand ==
  /\ eventUsed.commands < OtherCommands /\ Used("commands")
  /\ Len(commands) < TimerRoom /\ commands' = Append(commands, 0)
  /\ UNCHANGED <<loop, handlerSet, eventQueue, sending, delayed, daemon>>

IdleDaemon == [at |-> "idle", id |-> 0]

DaemonCommand ==
  /\ daemon.at = "idle" /\ commands # <<>> /\ commands' = Tail(commands)
  /\ delayed' = Lost(commands, "running")
  /\ UNCHANGED <<loop, handlerSet, eventQueue, sending, daemon, eventUsed>>

\* event_send_timer_cb
TimerExpires(id) ==
  /\ daemon.at = "idle" /\ delayed[id] = "running"
  /\ daemon' = [at |-> IF QueueIsFull THEN "drop" ELSE "put", id |-> id]
  /\ delayed' = [delayed EXCEPT ![id] = "expired"]
  /\ UNCHANGED <<loop, handlerSet, eventQueue, sending, commands, eventUsed>>

TimerDrop ==
  /\ daemon.at = "drop" /\ daemon' = [daemon EXCEPT !.at = "put"]
  /\ eventQueue' = PutInFront /\ delayed' = Lost(eventQueue, "dropped")
  /\ UNCHANGED <<loop, handlerSet, sending, commands, eventUsed>>

\* It does not wait for a place.
TimerMayPutWaits == ~ QueueIsFull  \* mutant
TimerMayPut == TRUE

TimerPut ==
  /\ daemon.at = "put" /\ TimerMayPut /\ daemon' = [daemon EXCEPT !.at = "stop"]
  /\ IF QueueIsFull
       THEN delayed' = [delayed EXCEPT ![daemon.id] = "dropped"] /\ UNCHANGED eventQueue
       ELSE /\ delayed' = [delayed EXCEPT ![daemon.id] = "queued"]
            /\ eventQueue' = Append(eventQueue, daemon.id)
  /\ UNCHANGED <<loop, handlerSet, sending, commands, eventUsed>>

\* But it does for xTimerStop and xTimerDelete, with commands that only the daemon
\* itself takes out of their queue.
TimerStop ==
  /\ daemon.at \in {"stop", "delete"} /\ Len(commands) < TimerRoom
  /\ commands' = Append(commands, 0)
  /\ daemon' = IF daemon.at = "stop" THEN [daemon EXCEPT !.at = "delete"] ELSE IdleDaemon
  /\ UNCHANGED <<loop, handlerSet, eventQueue, sending, delayed, eventUsed>>

-----------------------------------------------------------------------------
EventLoopInit ==
  /\ loop = "none" /\ handlerSet = FALSE /\ eventQueue = <<>>
  /\ sending = [s \in Sender |-> "idle"] /\ delayed = [id \in DelayedEvent |-> "new"]
  /\ commands = <<>> /\ daemon = IdleDaemon
  /\ eventUsed = [events |-> 0, commands |-> 0, starts |-> 0]

SendStep(s) == SendCheck(s) \/ SendDrop(s) \/ SendPut(s)

DaemonStep ==
  \/ DaemonCommand \/ TimerDrop \/ TimerPut \/ TimerStop
  \/ \E id \in DelayedEvent : TimerExpires(id)

EventLoopNext ==
  \/ \E s \in Sender : SendCall(s) \/ SendStep(s)
  \/ LoopReceive \/ HandlerReturns
  \/ \E set \in BOOLEAN : LoopSet(set)
  \/ LoopInit \/ LoopDeinit
  \/ \E id \in DelayedEvent : DelaySend(id)
  \/ OtherCommand \/ DaemonStep

\* The scheduler runs every task that can go on, and time passes.  Handlers return.
EventLoopFairness ==
  /\ \A s \in Sender : WF_eventVars(SendStep(s))
  /\ WF_eventVars(LoopReceive) /\ WF_eventVars(HandlerReturns) /\ WF_eventVars(DaemonStep)

EventLoopSpec == EventLoopInit /\ [][EventLoopNext]_eventVars /\ EventLoopFairness

-----------------------------------------------------------------------------
EventLoopTypeOK ==
  /\ loop \in {"none", "wait", "handle"} /\ handlerSet \in BOOLEAN
  /\ eventQueue \in Seq(0 .. Delays) /\ Len(eventQueue) <= EventRoom
  /\ sending \in [Sender -> {"idle", "check", "drop", "put"}]
  /\ delayed \in [DelayedEvent -> {"new", "not started", "started", "running", "expired",
                                   "queued", "dropped", "received"}]
  /\ commands \in Seq(0 .. Delays) /\ Len(commands) <= TimerRoom
  /\ daemon \in [at : {"idle", "drop", "put", "stop", "delete"}, id : 0 .. Delays]

\* A task that sends an event gets to the end of mdf_event_loop_send, unless the
\* handler itself waits there for a place that only it could make: then everyone
\* may wait until somebody else sends an event and finds the queue full.
HandlerWaits == loop = "handle" /\ sending[Handler] = "put" /\ QueueIsFull

SendsReturn == \A s \in EventTask : []<>(sending[s] = "idle" \/ HandlerWaits)

\* A delayed event whose timer was started is put into the queue or lost to a full
\* one, even if the loop hangs, unless the daemon waits for itself in a callback.
DaemonWaits == daemon.at \in {"stop", "delete"} /\ Len(commands) >= TimerRoom

DelayedAreSent ==
  \A id \in DelayedEvent :
    []<>(delayed[id] \notin {"started", "running", "expired"} \/ DaemonWaits)
=============================================================================
