----------------------------- MODULE MlinkNotice -----------------------------
(***************************************************************************)
(* Notices to the application on the phone (mlink_notice.c): tasks of the  *)
(* device queue them, a task of the module puts those of one type together *)
(* and broadcasts them, five times, which counts as once here.  The        *)
(* application may stop and start the service, and the task's sockets may  *)
(* not be had: the port of the last task is free only when it is closed.   *)
(*                                                                         *)
(* mDNS and the answers to "Are You Espressif IOT Smart Device?" are left  *)
(* out.                                                                    *)
(***************************************************************************)
EXTENDS Integers, Sequences, FiniteSets

CONSTANTS
  NoticeType,  \* types of notices, "http" may be one
  NoticeMac,   \* the devices they are about
  NoticeRoom,  \* MLINK_NOTICE_UDP_QUEUE_NUM
  Notices,     \* how many are written
  NoticeStarts,  \* how often the service is started
  SocketFails  \* how often a socket cannot be had

ASSUME NoticeAssumption ==
  /\ NoticeRoom \in Nat \ {0} /\ Notices \in Nat /\ NoticeStarts \in Nat /\ SocketFails \in Nat

VARIABLES
  exitFlag,    \* g_notice_udp_exit_flag
  exitSem,     \* g_notice_udp_exit_sem: "none", or whether it was given
  noticeQueue, \* g_notice_udp_queue
  hasQueue,    \* whether it exists
  udpTask,     \* mlink_notice_udp_task: where it is, what it has put together, and the
               \* notice of another type it has in its hand
  closing,     \* tasks that have given the semaphore and not closed their sockets
  stopper,     \* the task in mlink_notice_deinit
  write,       \* a task in mlink_notice_write, with what it writes
  told, lostNotices,  \* what was broadcast and what was not
  noticeUsed,  \* how much of the bounds is used
  abandoned    \* a task has ended without its sockets

noticeVars == <<exitFlag, exitSem, noticeQueue, hasQueue, udpTask, closing, stopper, write,
                told, lostNotices, noticeUsed, abandoned>>

Notice == [id : 1 .. Notices, type : NoticeType, mac : NoticeMac]
NoTask == [at |-> "none", type |-> "none", ids |-> {}, other |-> <<>>]
Full == Len(noticeQueue) >= NoticeRoom

-----------------------------------------------------------------------------
\* mlink_notice_write: the queue is created when it is first needed, and a full one
\* loses its front.
NoticeWrite(type, mac) ==
  /\ write = <<>> /\ noticeUsed.notices < Notices
  /\ noticeUsed' = [noticeUsed EXCEPT !.notices = @ + 1]
  /\ write' = <<[id |-> noticeUsed.notices + 1, type |-> type, mac |-> mac]>>
  /\ hasQueue' = TRUE
  /\ IF Full
       THEN /\ noticeQueue' = Tail(noticeQueue)
            /\ lostNotices' = lostNotices \union {Head(noticeQueue).id}
       ELSE UNCHANGED <<noticeQueue, lostNotices>>
  /\ UNCHANGED <<exitFlag, exitSem, udpTask, closing, stopper, told, abandoned>>

\* No room any more, or no queue any more, loses it.
NoticePut ==
  /\ write # <<>> /\ write' = <<>>
  /\ IF hasQueue /\ ~ Full
       THEN noticeQueue' = Append(noticeQueue, write[1]) /\ UNCHANGED lostNotices
       ELSE lostNotices' = lostNotices \union {write[1].id} /\ UNCHANGED noticeQueue
  /\ UNCHANGED <<exitFlag, exitSem, hasQueue, udpTask, closing, stopper, told, noticeUsed, abandoned>>

\* mlink_notice_udp_init
NoticeInit ==
  /\ exitFlag /\ stopper = "idle" /\ noticeUsed.starts < NoticeStarts
  /\ noticeUsed' = [noticeUsed EXCEPT !.starts = @ + 1]
  /\ exitFlag' = FALSE /\ hasQueue' = TRUE
  /\ exitSem' = IF exitSem = "none" THEN "taken" ELSE exitSem
  /\ udpTask' = [NoTask EXCEPT !.at = "start"]
  /\ UNCHANGED <<noticeQueue, closing, stopper, write, told, lostNotices, abandoned>>

\* mlink_notice_udp_deinit
NoticeDeinit ==
  /\ ~ exitFlag /\ stopper = "idle" /\ exitFlag' = TRUE /\ stopper' = "wait"
  /\ UNCHANGED <<exitSem, noticeQueue, hasQueue, udpTask, closing, write, told, lostNotices, noticeUsed, abandoned>>

NoticeDeinitEnd ==
  /\ stopper = "wait" /\ exitSem = "given"
  /\ stopper' = "idle" /\ exitSem' = "none" /\ hasQueue' = FALSE /\ noticeQueue' = <<>>
  /\ lostNotices' = lostNotices \union {noticeQueue[i].id : i \in DOMAIN noticeQueue}
  /\ UNCHANGED <<exitFlag, udpTask, closing, write, told, noticeUsed, abandoned>>

-----------------------------------------------------------------------------
TaskUnchanged == UNCHANGED <<exitFlag, hasQueue, stopper, write, noticeUsed>>

\* mlink_notice_udp_task.  It cannot bind the port of a task that has not closed yet.
TaskStart ==
  /\ udpTask.at = "start" /\ closing = 0 /\ udpTask' = [udpTask EXCEPT !.at = "loop"]
  /\ TaskUnchanged /\ UNCHANGED <<exitSem, noticeQueue, closing, told, lostNotices, abandoned>>

\* It ends, and does not give the semaphore.
TaskStartFails ==
  /\ udpTask.at = "start" /\ udpTask' = NoTask /\ abandoned' = TRUE
  /\ \/ closing > 0 /\ UNCHANGED noticeUsed
     \/ noticeUsed.sockets < SocketFails /\ noticeUsed' = [noticeUsed EXCEPT !.sockets = @ + 1]
  /\ UNCHANGED <<exitFlag, exitSem, noticeQueue, hasQueue, closing, stopper, write, told, lostNotices>>

TaskTake ==
  LET n == Head(noticeQueue) IN
  /\ udpTask.at = "loop" /\ ~ exitFlag /\ noticeQueue # <<>>
  /\ udpTask' = [at |-> "collect", type |-> n.type, ids |-> {n.id}, other |-> <<>>]
  /\ noticeQueue' = Tail(noticeQueue)
  /\ TaskUnchanged /\ UNCHANGED <<exitSem, closing, told, lostNotices, abandoned>>

\* The broadcast has room for so many devices.  Of "http" the first is enough, and the
\* others take none.
HasPlace == udpTask.type = "http" \/ Cardinality(udpTask.ids) < NoticeRoom

CollectSame ==
  LET n == Head(noticeQueue) IN
  /\ udpTask.at = "collect" /\ noticeQueue # <<>> /\ n.type = udpTask.type /\ HasPlace
  /\ noticeQueue' = Tail(noticeQueue) /\ udpTask' = [udpTask EXCEPT !.ids = @ \union {n.id}]
  /\ TaskUnchanged /\ UNCHANGED <<exitSem, closing, told, lostNotices, abandoned>>

\* Of another type: it goes to the end of the queue, if there is room by then.
CollectOther ==
  LET n == Head(noticeQueue) IN
  /\ udpTask.at = "collect" /\ noticeQueue # <<>> /\ n.type # udpTask.type /\ HasPlace
  /\ noticeQueue' = Tail(noticeQueue) /\ udpTask' = [udpTask EXCEPT !.at = "requeue", !.other = <<n>>]
  /\ TaskUnchanged /\ UNCHANGED <<exitSem, closing, told, lostNotices, abandoned>>

AfterOtherCollects == "collect"  \* mutant
AfterOther == "tell"

RequeueOther ==
  /\ udpTask.at = "requeue" /\ udpTask' = [udpTask EXCEPT !.at = AfterOther, !.other = <<>>]
  /\ IF Full
       THEN lostNotices' = lostNotices \union {udpTask.other[1].id} /\ UNCHANGED noticeQueue
       ELSE noticeQueue' = Append(noticeQueue, udpTask.other[1]) /\ UNCHANGED lostNotices
  /\ TaskUnchanged /\ UNCHANGED <<exitSem, closing, told, abandoned>>

CollectEnd ==
  /\ udpTask.at = "collect" /\ (noticeQueue = <<>> \/ ~ HasPlace)
  /\ udpTask' = [udpTask EXCEPT !.at = "tell"]
  /\ TaskUnchanged /\ UNCHANGED <<exitSem, noticeQueue, closing, told, lostNotices, abandoned>>

Tell ==
  /\ udpTask.at = "tell" /\ told' = told \union udpTask.ids /\ udpTask' = [NoTask EXCEPT !.at = "loop"]
  /\ TaskUnchanged /\ UNCHANGED <<exitSem, noticeQueue, closing, lostNotices, abandoned>>

\* The semaphore is given before the sockets are closed.
GivenNever == exitSem  \* mutant
Given == IF exitSem = "none" THEN "none" ELSE "given"

TaskExit ==
  /\ udpTask.at = "loop" /\ exitFlag /\ udpTask' = NoTask /\ closing' = closing + 1
  /\ exitSem' = Given
  /\ TaskUnchanged /\ UNCHANGED <<noticeQueue, told, lostNotices, abandoned>>

TaskClose ==
  /\ closing > 0 /\ closing' = closing - 1
  /\ TaskUnchanged /\ UNCHANGED <<exitSem, noticeQueue, udpTask, told, lostNotices, abandoned>>

-----------------------------------------------------------------------------
NoticesInit ==
  /\ exitFlag = TRUE /\ exitSem = "none" /\ noticeQueue = <<>> /\ hasQueue = FALSE
  /\ udpTask = NoTask /\ closing = 0 /\ stopper = "idle" /\ write = <<>>
  /\ told = {} /\ lostNotices = {} /\ noticeUsed = [notices |-> 0, starts |-> 0, sockets |-> 0]
  /\ abandoned = FALSE

TaskStep ==
  \/ TaskStart \/ TaskStartFails \/ TaskTake \/ CollectSame \/ CollectOther
  \/ RequeueOther \/ CollectEnd \/ Tell \/ TaskExit

NoticeNext ==
  \/ \E type \in NoticeType, mac \in NoticeMac : NoticeWrite(type, mac)
  \/ NoticePut \/ NoticeInit \/ NoticeDeinit \/ NoticeDeinitEnd \/ TaskStep \/ TaskClose

\* The tasks run; nobody has to write, start or stop.
NoticeFairness ==
  /\ WF_noticeVars(TaskStep) /\ WF_noticeVars(TaskClose)
  /\ WF_noticeVars(NoticePut) /\ WF_noticeVars(NoticeDeinitEnd)

NoticeSpec == NoticesInit /\ [][NoticeNext]_noticeVars /\ NoticeFairness

-----------------------------------------------------------------------------
NoticeTypeOK ==
  /\ exitFlag \in BOOLEAN /\ exitSem \in {"none", "taken", "given"}
  /\ noticeQueue \in Seq(Notice) /\ Len(noticeQueue) <= NoticeRoom /\ (~ hasQueue => noticeQueue = <<>>)
  /\ udpTask \in [at : {"none", "start", "loop", "collect", "requeue", "tell"},
                  type : NoticeType \union {"none"}, ids : SUBSET (1 .. Notices), other : Seq(Notice)]
  /\ Len(udpTask.other) = (IF udpTask.at = "requeue" THEN 1 ELSE 0)
  /\ closing \in Nat /\ stopper \in {"idle", "wait"} /\ write \in Seq(Notice) /\ Len(write) <= 1
  /\ told \subseteq 1 .. Notices /\ lostNotices \subseteq 1 .. Notices /\ abandoned \in BOOLEAN

\* Everything that is queued is broadcast or lost to a full queue, however types
\* alternate, while the service runs and its task has had its sockets.
Queued(id) == \E i \in DOMAIN noticeQueue : noticeQueue[i].id = id

NoticesAreTold ==
  \A id \in 1 .. Notices :
    Queued(id) ~> (id \in told \union lostNotices \/ udpTask.at = "none" \/ exitFlag)

\* mlink_notice_deinit returns, unless a task has ended for want of its sockets: then
\* nobody is left to give the semaphore.
NoticeStopReturns == []<>(stopper = "idle" \/ abandoned)
=============================================================================
