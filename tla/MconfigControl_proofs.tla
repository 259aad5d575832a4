------------------------ MODULE MconfigControl_proofs ------------------------
(***************************************************************************)
(* The tasks of the configuration chain keep their types and serve one at  *)
(* a time, however often they are started and stopped.                     *)
(***************************************************************************)
EXTENDS MconfigControl, FiniteSetTheorems, TLAPS

USE ControlAssumption DEF ControlAssumption

\* There is a slave task only while the slave is on or being ended, and the semaphore
\* is given only when it is gone.
SlaveInv ==
  /\ slaves = 1 => slaveSem = "taken"
  /\ slaveCall = "wait" => ~ slaveFlag
  /\ (~ slaveFlag /\ slaveCall = "idle") => slaves = 0 /\ slaveSem = "none"

ControlInv == ControlTypeOK /\ SlaveInv

LEMMA ControlInvInit == ControlInit => ControlInv
  <1>. SUFFICES ASSUME ControlInit PROVE ControlInv
    OBVIOUS
  <1>1. masters \in [Call -> {"new", "serve", "ended", "gone"}]
    BY DEF ControlInit
  <1>2. slaveUsed \in 0 .. SlaveStarts /\ slaves \in 0 .. 1
    BY DEF ControlInit
  <1>3. ControlTypeOK
    BY <1>1, <1>2 DEF ControlInit, ControlTypeOK
  <1>4. SlaveInv
    BY DEF ControlInit, SlaveInv
  <1>. QED  BY <1>3, <1>4 DEF ControlInv

LEMMA MasterSet ==
  ASSUME NEW f \in [Call -> {"new", "serve", "ended", "gone"}], NEW c,
         NEW v \in {"serve", "ended", "gone"}
  PROVE  [f EXCEPT ![c] = v] \in [Call -> {"new", "serve", "ended", "gone"}]
  OBVIOUS

LEMMA MasterKeepsInv ==
  ASSUME ControlInv, MasterCall \/ MasterCaller \/ \E c \in Call : MasterTask(c)
  PROVE  ControlInv'
  <1>1. SlaveInv'
    <2>1. UNCHANGED slaveSide
      BY DEF MasterCall, MasterCaller, MasterStop, MasterStopped, MasterStart, MasterStartFails,
             MasterTask, MasterEnds, MasterGives
    <2>. QED  BY <2>1 DEF slaveSide, ControlInv, SlaveInv
  <1>2. masters' \in [Call -> {"new", "serve", "ended", "gone"}]
    <2>. USE MasterSet DEF ControlInv, ControlTypeOK
    <2>1. CASE MasterCall \/ MasterStop \/ MasterStopped
      BY <2>1 DEF MasterCall, MasterStop, MasterStopped
    <2>2. CASE MasterStart \/ MasterStartFails
      BY <2>2 DEF MasterStart, MasterStartFails
    <2>3. CASE \E c \in Call : MasterEnds(c) \/ MasterGives(c)
      BY <2>3 DEF MasterEnds, MasterGives
    <2>. QED  BY <2>1, <2>2, <2>3 DEF MasterCaller, MasterTask
  <1>3. ControlTypeOK'
    <2>. USE <1>2 DEF ControlInv, ControlTypeOK, slaveSide
    <2>1. CASE MasterCall
      BY <2>1 DEF MasterCall
    <2>2. CASE MasterStop
      BY <2>2 DEF MasterStop
    <2>3. CASE MasterStopped
      BY <2>3 DEF MasterStopped
    <2>4. CASE MasterStart
      BY <2>4 DEF MasterStart
    <2>5. CASE MasterStartFails
      BY <2>5 DEF MasterStartFails
    <2>6. CASE \E c \in Call : MasterEnds(c)
      BY <2>6 DEF MasterEnds
    <2>7. CASE \E c \in Call : MasterGives(c)
      BY <2>7 DEF MasterGives, Gives
    <2>. QED  BY <2>1, <2>2, <2>3, <2>4, <2>5, <2>6, <2>7 DEF MasterCaller, MasterTask
  <1>. QED  BY <1>1, <1>3 DEF ControlInv

LEMMA SlaveKeepsInv ==
  ASSUME ControlInv, SlaveInit \/ SlaveDeinit \/ SlaveStopped \/ SlaveEnds
  PROVE  ControlInv'
  <1>. USE DEF ControlInv, ControlTypeOK, SlaveInv, masterSide
  <1>1. CASE SlaveInit
    BY <1>1 DEF SlaveInit
  <1>2. CASE SlaveDeinit
    BY <1>2 DEF SlaveDeinit
  <1>3. CASE SlaveStopped
    BY <1>3 DEF SlaveStopped
  <1>4. CASE SlaveEnds
    BY <1>4 DEF SlaveEnds
  <1>. QED  BY <1>1, <1>2, <1>3, <1>4

LEMMA ControlStepInv == ControlInv /\ [ControlNext]_controlVars => ControlInv'
  <1>. SUFFICES ASSUME ControlInv, [ControlNext]_controlVars PROVE ControlInv'
    OBVIOUS
  <1>1. CASE MasterCall \/ MasterCaller \/ \E c \in Call : MasterTask(c)
    BY <1>1, MasterKeepsInv
  <1>2. CASE SlaveInit \/ SlaveDeinit \/ SlaveStopped \/ SlaveEnds
    BY <1>2, SlaveKeepsInv
  <1>3. CASE UNCHANGED controlVars
    BY <1>3 DEF controlVars, ControlInv, ControlTypeOK, SlaveInv
  <1>. QED  BY <1>1, <1>2, <1>3 DEF ControlNext

\* mconfig_chain.c keeps its flags, semaphores and tasks in their types, for any number
\* of starts: there is never a second slave task.
THEOREM ControlTypeCorrect == ControlSpec => []ControlTypeOK
  <1>1. ControlInv => ControlTypeOK
    BY DEF ControlInv
  <1>. QED  BY ControlInvInit, ControlStepInv, <1>1, PTL DEF ControlSpec

-----------------------------------------------------------------------------
Serving == {c \in Call : masters[c] = "serve"}

\* Unless a call has started a master while another was about to look for the semaphore,
\* at most one has not looked for it yet; and none serves where the next may be started.
MasterInv ==
  ~ overlap =>
    /\ \A c, d \in Call : masters[c] \in {"serve", "ended"} /\ masters[d] \in {"serve", "ended"} => c = d
    /\ masterCall = "start" => Serving = {}
    /\ (masterCall = "idle" /\ ~ duration) => Serving = {}
    /\ (masterCall = "wait" /\ masterSem = "given") => Serving = {}

LEMMA MasterInvInit == ControlInit => MasterInv
  BY DEF ControlInit, MasterInv, Serving

LEMMA CallerKeepsOne ==
  ASSUME ControlTypeOK, MasterInv, MasterCall \/ MasterCaller
  PROVE  MasterInv'
  <1>. USE DEF ControlTypeOK, MasterInv, Serving
  <1>1. CASE MasterCall
    BY <1>1 DEF MasterCall
  <1>2. CASE MasterStop
    BY <1>2 DEF MasterStop
  <1>3. CASE MasterStopped
    BY <1>3 DEF MasterStopped, MasterIsStopped
  <1>4. CASE MasterStart
    <2>1. \A c \in Call : masters'[c] = masters[c] \/ (c = NextCall /\ masters'[c] = "serve")
      BY <1>4 DEF MasterStart
    <2>2. ~ overlap' => ~ overlap /\ \A c \in Call : masters[c] \notin {"serve", "ended"}
      BY <1>4 DEF MasterStart
    <2>. QED  BY <1>4, <2>1, <2>2 DEF MasterStart
  <1>5. CASE MasterStartFails
    BY <1>5 DEF MasterStartFails
  <1>. QED  BY <1>1, <1>2, <1>3, <1>4, <1>5 DEF MasterCaller

LEMMA TaskKeepsOne ==
  ASSUME ControlTypeOK, MasterInv, NEW c \in Call, MasterTask(c)
  PROVE  MasterInv'
  <1>. USE DEF ControlTypeOK, MasterInv, Serving
  <1>1. CASE MasterEnds(c)
    BY <1>1 DEF MasterEnds
  <1>2. CASE MasterGives(c)
    BY <1>2 DEF MasterGives, Gives
  <1>. QED  BY <1>1, <1>2 DEF MasterTask

LEMMA MasterStepInv == ControlTypeOK /\ MasterInv /\ [ControlNext]_controlVars => MasterInv'
  <1>. SUFFICES ASSUME ControlTypeOK, MasterInv, [ControlNext]_controlVars PROVE MasterInv'
    OBVIOUS
  <1>1. CASE MasterCall \/ MasterCaller
    BY <1>1, CallerKeepsOne
  <1>2. CASE \E c \in Call : MasterTask(c)
    BY <1>2, TaskKeepsOne
  <1>3. CASE SlaveInit \/ SlaveDeinit \/ SlaveStopped \/ SlaveEnds
    BY <1>3 DEF SlaveInit, SlaveDeinit, SlaveStopped, SlaveEnds, masterSide, MasterInv, Serving
  <1>4. CASE UNCHANGED controlVars
    BY <1>4 DEF controlVars, MasterInv, Serving
  <1>. QED  BY <1>1, <1>2, <1>3, <1>4 DEF ControlNext

LEMMA OneOfThem == MasterInv => OneMaster
  <1>. SUFFICES ASSUME MasterInv, ~ overlap PROVE Cardinality(Serving) <= 1
    BY DEF OneMaster, Serving
  <1>1. \A c, d \in Serving : c = d
    BY DEF MasterInv, Serving
  <1>2. CASE Serving = {}
    BY <1>2, FS_EmptySet
  <1>3. CASE Serving # {}
    <2>1. PICK c \in Serving : TRUE
      BY <1>3
    <2>2. Serving = {c}
      BY <1>1, <2>1
    <2>3. Cardinality({c}) = 1
      BY FS_Singleton, Zenon
    <2>. QED  BY <2>2, <2>3
  <1>. QED  BY <1>2, <1>3

\* mconfig_chain_master never has two masters serve at a time, for any number of calls and
\* whenever masters end by themselves, unless it has started one while another was about
\* to look for the semaphore.
THEOREM OneMasterServes == ControlSpec => []OneMaster
  <1>. QED  BY ControlTypeCorrect, MasterInvInit, MasterStepInv, OneOfThem, PTL DEF ControlSpec
=============================================================================
