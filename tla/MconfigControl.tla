---------------------------- MODULE MconfigControl ----------------------------
(***************************************************************************)
(* Starting and stopping the two sides of the configuration chain          *)
(* (mconfig_chain.c): a task of the application starts the master with a   *)
(* duration, which first ends the master that runs, and starts and ends    *)
(* the slave.  Whoever ends a task waits for a semaphore the task gives    *)
(* before it is gone; the master gives it only if it exists by then.       *)
(***************************************************************************)
EXTENDS Naturals, FiniteSets

CONSTANTS
  MasterStarts,  \* how often mconfig_chain_master is called
  SlaveStarts    \* how often mconfig_chain_slave_init is called

ASSUME ControlAssumption == MasterStarts \in Nat /\ SlaveStarts \in Nat

VARIABLES
  duration,    \* whether g_chain_master_duration_ticks is above 0
  masterSem,   \* g_chain_master_exit_sem: "none", "taken" or "given"
  masterCall,  \* the task in mconfig_chain_master
  masters,     \* mconfig_chain_master_task of each call
  slaveFlag,   \* g_chain_slave_flag
  slaveSem,    \* g_chain_slave_exit_sem
  slaveCall,   \* the task in mconfig_chain_slave_deinit
  slaves,      \* how many slave tasks there are
  slaveUsed,   \* how many were started
  missed,      \* a master has ended without a semaphore while it was waited for
  overlap      \* a master was started before the last one had looked for the semaphore

controlVars == <<duration, masterSem, masterCall, masters, slaveFlag, slaveSem, slaveCall,
                 slaves, slaveUsed, missed, overlap>>
masterSide == <<duration, masterSem, masterCall, masters, missed, overlap>>
slaveSide == <<slaveFlag, slaveSem, slaveCall, slaves, slaveUsed>>

Call == 1 .. MasterStarts
NextCall == CHOOSE c \in Call : masters[c] = "new" /\ \A d \in Call : masters[d] = "new" => c <= d

-----------------------------------------------------------------------------
\* mconfig_chain_master
MasterCall ==
  /\ masterCall = "idle" /\ \E c \in Call : masters[c] = "new"
  /\ masterCall' = IF duration THEN "stop" ELSE "start"
  /\ UNCHANGED <<duration, masterSem, masters, missed, overlap, slaveSide>>

\* The running master may end by itself before there is a semaphore.
MasterStop ==
  /\ masterCall = "stop" /\ masterCall' = "wait" /\ masterSem' = "taken" /\ duration' = FALSE
  /\ UNCHANGED <<masters, missed, overlap, slaveSide>>

MasterIsStoppedAtOnce == TRUE  \* mutant
MasterIsStopped == masterSem = "given"

MasterStopped ==
  /\ masterCall = "wait" /\ MasterIsStopped /\ masterCall' = "start" /\ masterSem' = "none"
  /\ UNCHANGED <<duration, masters, missed, overlap, slaveSide>>

MasterStart ==
  /\ masterCall = "start" /\ masterCall' = "idle" /\ duration' = TRUE
  /\ masters' = [masters EXCEPT ![NextCall] = "serve"]
  /\ overlap' = (overlap \/ \E c \in Call : masters[c] = "ended")
  /\ UNCHANGED <<masterSem, missed, slaveSide>>

\* MDF_ERR_NO_MEM: by then the last master has been ended.
MasterStartFails ==
  /\ masterCall = "start" /\ masterCall' = "idle"
  /\ masters' = [masters EXCEPT ![NextCall] = "gone"]
  /\ UNCHANGED <<duration, masterSem, missed, overlap, slaveSide>>

\* The time is up, at once if the duration is 0; then the duration is set to 0.
MasterEnds(c) ==
  /\ masters[c] = "serve" /\ masters' = [masters EXCEPT ![c] = "ended"] /\ duration' = FALSE
  /\ UNCHANGED <<masterSem, masterCall, missed, overlap, slaveSide>>

GivesNever == masterSem  \* mutant
Gives == IF masterSem = "none" THEN "none" ELSE "given"

MasterGives(c) ==
  /\ masters[c] = "ended" /\ masters' = [masters EXCEPT ![c] = "gone"]
  /\ masterSem' = Gives
  /\ missed' = (missed \/ (masterSem = "none" /\ masterCall = "stop"))
  /\ UNCHANGED <<duration, masterCall, overlap, slaveSide>>

-----------------------------------------------------------------------------
\* mconfig_chain_slave_init and mconfig_chain_slave_deinit
SlaveInit ==
  /\ ~ slaveFlag /\ slaveCall = "idle" /\ slaveUsed < SlaveStarts /\ slaveUsed' = slaveUsed + 1
  /\ slaveFlag' = TRUE /\ slaveSem' = IF slaveSem = "none" THEN "taken" ELSE slaveSem
  /\ slaves' = slaves + 1
  /\ UNCHANGED <<slaveCall, masterSide>>

SlaveDeinit ==
  /\ slaveFlag /\ slaveCall = "idle" /\ slaveCall' = "wait" /\ slaveFlag' = FALSE
  /\ UNCHANGED <<slaveSem, slaves, slaveUsed, masterSide>>

SlaveStopped ==
  /\ slaveCall = "wait" /\ slaveSem = "given" /\ slaveCall' = "idle" /\ slaveSem' = "none"
  /\ UNCHANGED <<slaveFlag, slaves, slaveUsed, masterSide>>

\* The slave is configured, has no memory, or finds its flag off: it gives the semaphore,
\* and the flag stays.
SlaveEnds ==
  /\ slaves > 0 /\ slaves' = slaves - 1 /\ slaveSem' = "given"
  /\ UNCHANGED <<slaveFlag, slaveCall, slaveUsed, masterSide>>

-----------------------------------------------------------------------------
ControlInit ==
  /\ duration = FALSE /\ masterSem = "none" /\ masterCall = "idle"
  /\ masters = [c \in Call |-> "new"] /\ missed = FALSE /\ overlap = FALSE
  /\ slaveFlag = FALSE /\ slaveSem = "none" /\ slaveCall = "idle" /\ slaves = 0 /\ slaveUsed = 0

MasterTask(c) == MasterEnds(c) \/ MasterGives(c)
MasterCaller == MasterStop \/ MasterStopped \/ MasterStart \/ MasterStartFails

ControlNext ==
  \/ MasterCall \/ MasterCaller
  \/ \E c \in Call : MasterTask(c)
  \/ SlaveInit \/ SlaveDeinit \/ SlaveStopped \/ SlaveEnds

\* The tasks run, and every duration is over some time.
ControlFairness ==
  /\ WF_controlVars(MasterCaller) /\ \A c \in Call : WF_controlVars(MasterTask(c))
  /\ WF_controlVars(SlaveStopped) /\ WF_controlVars(SlaveEnds)

ControlSpec == ControlInit /\ [][ControlNext]_controlVars /\ ControlFairness

-----------------------------------------------------------------------------
ControlTypeOK ==
  /\ duration \in BOOLEAN /\ masterSem \in {"none", "taken", "given"}
  /\ masterCall \in {"idle", "stop", "wait", "start"}
  /\ masters \in [Call -> {"new", "serve", "ended", "gone"}]
  /\ slaveFlag \in BOOLEAN /\ slaveSem \in {"none", "taken", "given"}
  /\ slaveCall \in {"idle", "wait"} /\ slaves \in 0 .. 1 /\ slaveUsed \in 0 .. SlaveStarts
  /\ missed \in BOOLEAN /\ overlap \in BOOLEAN

\* mconfig_chain_master and mconfig_chain_slave_deinit return, unless the master that was
\* to be ended has ended by itself before there was a semaphore to give.
StopsReturn ==
  /\ []<>(masterCall = "idle" \/ missed)
  /\ []<>(slaveCall = "idle")

\* One master serves at a time, unless a call has started one while another was about to
\* look for the semaphore: it then gives the one that the next call creates.
OneMaster == ~ overlap => Cardinality({c \in Call : masters[c] = "serve"}) <= 1
=============================================================================
