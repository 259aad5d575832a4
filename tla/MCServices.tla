----------------------------- MODULE MCServices -----------------------------
(***************************************************************************)
(* Bounds for the services around the mesh, which share no state: a        *)
(* behaviour shows one of them, the part chosen in its first state, and    *)
(* the others stay as they are.                                            *)
(***************************************************************************)
EXTENDS Mespnow, MdebugFlash, MdfEventLoop, MlinkNotice, MlinkHttpd, MlinkTrigger,
        MconfigChain, MconfigControl, MupgradeCheck

CONSTANTS Services, t1, t2, m1, x, y

VARIABLE part

serviceVars == <<part, espnowVars, flashVars, eventVars, noticeVars, httpVars, triggerVars,
                 chainVars, controlVars, checkVars>>

\* A flag whose beginning is like its middle.
MCFlag == <<1, 1, 1, 2>>

\* Two tasks write messages of one packet, or one task messages of up to two that are read.
EspnowTasks == (\A i \in 1 .. Len(size') : size'[i] = 1) /\ reader'.at = "idle"
EspnowMessages == \A t \in Task \ {t1} : w'[t].at = "idle"

\* One client when a call fails, and a second request for one device.  The devices of a
\* request are alike, and are taken to answer in their order.
HttpBound ==
  /\ httpMishaps' # 0 => clients' <= 1
  /\ Len(requests') = 2 => requests'[2].num = 1
  /\ \A ans \in answers' : \A d \in ans.device .. requests'[ans.req].num :
       [req |-> ans.req, device |-> d] \in answers'

ServicesInit ==
  /\ part \in Services
  /\ MespnowInit /\ FlashInit /\ EventLoopInit /\ NoticesInit /\ HttpInit /\ TriggerInit
  /\ ChainInit /\ ControlInit /\ CheckInit

EspnowOnly == UNCHANGED <<part, flashVars, eventVars, noticeVars, httpVars, triggerVars, chainVars, controlVars, checkVars>>
FlashOnly == UNCHANGED <<part, espnowVars, eventVars, noticeVars, httpVars, triggerVars, chainVars, controlVars, checkVars>>
EventOnly == UNCHANGED <<part, espnowVars, flashVars, noticeVars, httpVars, triggerVars, chainVars, controlVars, checkVars>>
NoticeOnly == UNCHANGED <<part, espnowVars, flashVars, eventVars, httpVars, triggerVars, chainVars, controlVars, checkVars>>
HttpOnly == UNCHANGED <<part, espnowVars, flashVars, eventVars, noticeVars, triggerVars, chainVars, controlVars, checkVars>>
TriggerOnly == UNCHANGED <<part, espnowVars, flashVars, eventVars, noticeVars, httpVars, chainVars, controlVars, checkVars>>
ChainOnly == UNCHANGED <<part, espnowVars, flashVars, eventVars, noticeVars, httpVars, triggerVars, controlVars, checkVars>>
ControlOnly == UNCHANGED <<part, espnowVars, flashVars, eventVars, noticeVars, httpVars, triggerVars, chainVars, checkVars>>
CheckOnly == UNCHANGED <<part, espnowVars, flashVars, eventVars, noticeVars, httpVars, triggerVars, chainVars, controlVars>>

ServicesNext ==
  \/ part = "tasks" /\ MespnowNext /\ EspnowOnly /\ EspnowTasks
  \/ part = "messages" /\ MespnowNext /\ EspnowOnly /\ EspnowMessages
  \/ part = "flash" /\ FlashNext /\ FlashOnly
  \/ part = "events" /\ EventLoopNext /\ EventOnly
  \/ part = "notice" /\ NoticeNext /\ NoticeOnly
  \/ part = "httpd" /\ HttpNext /\ HttpOnly /\ HttpBound
  \/ part = "trigger" /\ TriggerNext /\ TriggerOnly
  \/ part = "chain" /\ ChainNext /\ ChainOnly
  \/ part = "control" /\ ControlNext /\ ControlOnly
  \/ part = "check" /\ CheckNext /\ CheckOnly

ServicesSafety == ServicesInit /\ [][ServicesNext]_serviceVars

\* A part that is not shown never starts, and none of its fair steps is ever enabled.
ServicesSpec ==
  /\ ServicesSafety
  /\ MespnowFairness /\ EventLoopFairness /\ NoticeFairness /\ HttpFairness
  /\ ChainFairness /\ ControlFairness

\* Every module's variables have their types.
ServicesTypeOK ==
  /\ MespnowTypeOK /\ FlashTypeOK /\ EventLoopTypeOK /\ NoticeTypeOK /\ HttpTypeOK
  /\ TriggerTypeOK /\ ChainTypeOK /\ ControlTypeOK /\ CheckTypeOK
=============================================================================
