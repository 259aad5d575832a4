----------------------------- MODULE MconfigChain -----------------------------
(***************************************************************************)
(* How a device that has a network configuration hands it on to one that   *)
(* has not (mconfig_chain.c), with the white list.  The new device, the    *)
(* slave, finds a master that advertises itself, sends it a request with   *)
(* its public key and waits for the configuration and then the list; the   *)
(* answers of a master are encrypted and reach the slave only as long as   *)
(* the master is one of its ESP-NOW peers.                                 *)
(*                                                                         *)
(* A message is one of mespnow_write and mespnow_read.  A master needs an  *)
(* RSA encryption for an answer, which takes longer than the slave needs   *)
(* to note the master as a peer, and has answered by the time the slave    *)
(* has scanned anew, which takes 100 ms at least; an answer that is still  *)
(* late counts as a mishap.  The slave is on every white list.             *)
(***************************************************************************)
EXTENDS Naturals, Sequences

CONSTANTS
  ChainMaster,  \* devices that hand their configuration on
  ListTries,    \* MCONFIG_CHAIN_SEND_RETRY_NUM
  AnswerKeys,   \* how many answers are told apart, more than are in use at once
  ChainMishaps  \* bound on lost messages, expired waits and failing calls

ASSUME ChainAssumption ==
  /\ ChainMaster # {} /\ ListTries \in Nat \ {0} /\ AnswerKeys \in Nat \ {0}
  /\ ChainMishaps \in Nat

VARIABLES
  slaveAt,    \* mconfig_chain_slave_task, "off" before it is started
  dest,       \* dest_addr, in which mespnow_read notes whom a message is from
  chainKey,   \* the answer chain_data was decrypted from
  listLeft,   \* retry_count of the slave
  peers,      \* the masters that are peers of the slave
  slavePipe,  \* messages that wait for mespnow_read on the slave
  asked,      \* how many requests wait on each master
  chainMaster,  \* mconfig_chain_master_task of each master
  lastKey,    \* the key of the last answer made, each has one of its own
  chainMishaps  \* how much of the bound is used

chainVars == <<slaveAt, dest, chainKey, listLeft, peers, slavePipe, asked, chainMaster,
               lastKey, chainMishaps>>
mastersVars == <<asked, chainMaster, lastKey>>
slaveVars == <<slaveAt, dest, chainKey, listLeft, peers>>

ChainMishap == chainMishaps < ChainMishaps /\ chainMishaps' = chainMishaps + 1
NoMishap == UNCHANGED chainMishaps

\* mespnow_add_peer takes a peer that is already there away.
AddPeer(p, m) == IF m \in p THEN p \ {m} ELSE p \union {m}
DelPeer(p, m) == p \ {m}

\* No master has a request left.  Only then does a wait expire by itself.
Quiet == \A m \in ChainMaster : asked[m] = 0 /\ chainMaster[m].at = "read"
IfNotQuiet == IF Quiet THEN NoMishap ELSE ChainMishap
Expires == slavePipe = <<>> /\ IfNotQuiet

-----------------------------------------------------------------------------
\* The slave.  scan_mesh_device finds one of the masters, whichever is heard best.
Scan(m) ==
  /\ slaveAt = "scan" /\ slaveAt' = "drain" /\ dest' = m /\ peers' = AddPeer(peers, m)
  /\ IfNotQuiet /\ UNCHANGED <<chainKey, listLeft, slavePipe, mastersVars>>

\* What an earlier round has left is read first, and changes dest_addr.
Drain ==
  /\ slaveAt = "drain" /\ slavePipe # <<>>
  /\ slavePipe' = Tail(slavePipe) /\ dest' = Head(slavePipe).from
  /\ NoMishap /\ UNCHANGED <<slaveAt, chainKey, listLeft, peers, mastersVars>>

Asks(m) == asked' = [asked EXCEPT ![m] = @ + 1]

\* The master is a peer without a key for the request, and with one for the answer.
PeerKept(p, m) == AddPeer(p, m)  \* mutant
PeerAgain(p, m) == AddPeer(DelPeer(p, m), m)

RequestConfig ==
  /\ slaveAt = "drain" /\ slavePipe = <<>> /\ dest \in peers
  /\ slaveAt' = "config" /\ peers' = PeerAgain(peers, dest)
  /\ \/ Asks(dest) /\ NoMishap
     \/ ChainMishap /\ UNCHANGED asked
  /\ UNCHANGED <<dest, chainKey, listLeft, slavePipe, chainMaster, lastKey>>

\* Nothing can be sent to a device that is not a peer.
RequestFails ==
  /\ slaveAt = "drain" /\ slavePipe = <<>>
  /\ slaveAt' = "scan" /\ peers' = DelPeer(peers, dest)
  /\ IF dest \in peers THEN ChainMishap /\ (Asks(dest) \/ UNCHANGED asked)
     ELSE NoMishap /\ UNCHANGED asked
  /\ UNCHANGED <<dest, chainKey, listLeft, slavePipe, chainMaster, lastKey>>

\* Of the answer, only the size is looked at, and that it can be decrypted: whoever
\* sent it is from now on the one the list has to come from.
ConfigArrives ==
  LET msg == Head(slavePipe) IN
  /\ slaveAt = "config" /\ slavePipe # <<>> /\ msg.kind = "config"
  /\ slavePipe' = Tail(slavePipe) /\ dest' = msg.from
  /\ slaveAt' = "list" /\ chainKey' = msg.answer /\ listLeft' = ListTries
  /\ NoMishap /\ UNCHANGED <<peers, mastersVars>>

\* Another message or one that cannot be decrypted.  After a later failure the master
\* stays a peer.
ConfigRefused ==
  LET msg == Head(slavePipe) IN
  /\ slaveAt = "config" /\ slavePipe # <<>>
  /\ slavePipe' = Tail(slavePipe) /\ dest' = msg.from /\ slaveAt' = "scan"
  /\ \/ msg.kind # "config" /\ NoMishap /\ peers' = DelPeer(peers, msg.from)
     \/ msg.kind = "config" /\ ChainMishap /\ peers' \in {peers, DelPeer(peers, msg.from)}
  /\ UNCHANGED <<chainKey, listLeft, mastersVars>>

ConfigTimeout ==
  /\ slaveAt = "config" /\ Expires /\ slaveAt' = "scan" /\ peers' = DelPeer(peers, dest)
  /\ UNCHANGED <<dest, chainKey, listLeft, slavePipe, mastersVars>>

\* A message of another device is read up to so many times, and the last one is taken
\* whoever it is from.
ListFromOther ==
  /\ slaveAt = "list" /\ slavePipe # <<>> /\ Head(slavePipe).from # dest /\ listLeft > 1
  /\ slavePipe' = Tail(slavePipe) /\ listLeft' = listLeft - 1
  /\ NoMishap /\ UNCHANGED <<slaveAt, dest, chainKey, peers, mastersVars>>

\* A list that was encrypted with another key cannot be uncompressed.
IsTheList(msg) == msg.kind = "list" /\ msg.answer = chainKey

ListArrives ==
  LET msg == Head(slavePipe) IN
  /\ slaveAt = "list" /\ slavePipe # <<>> /\ (msg.from = dest \/ listLeft = 1)
  /\ slavePipe' = Tail(slavePipe) /\ peers' = DelPeer(peers, dest)
  /\ slaveAt' = IF IsTheList(msg) THEN "queue" ELSE "scan"
  /\ NoMishap /\ UNCHANGED <<dest, chainKey, listLeft, mastersVars>>

ListTimeout ==
  /\ slaveAt = "list" /\ Expires /\ slaveAt' = "scan" /\ peers' = DelPeer(peers, dest)
  /\ UNCHANGED <<dest, chainKey, listLeft, slavePipe, mastersVars>>

\* mconfig_queue_write does not wait for a place.
QueueWrite ==
  /\ slaveAt = "queue"
  /\ \/ slaveAt' = "done" /\ NoMishap
     \/ slaveAt' = "scan" /\ ChainMishap
  /\ UNCHANGED <<dest, chainKey, listLeft, peers, slavePipe, mastersVars>>

-----------------------------------------------------------------------------
\* A master takes the next request.
MasterRead(m) ==
  /\ chainMaster[m].at = "read" /\ asked[m] > 0 /\ asked' = [asked EXCEPT ![m] = @ - 1]
  /\ lastKey' = (lastKey % AnswerKeys) + 1
  /\ chainMaster' = [chainMaster EXCEPT ![m] = [at |-> "config", answer |-> lastKey', left |-> ListTries]]
  /\ NoMishap /\ UNCHANGED <<slavePipe, slaveVars>>

\* mespnow_write: what it sends arrives and it knows, or one of the two fails.
Delivered(m) ==
  LET msg == [kind |-> chainMaster[m].at, from |-> m, answer |-> chainMaster[m].answer]
  IN slavePipe' = IF m \in peers THEN Append(slavePipe, msg) ELSE slavePipe

WriteOk(m) == (Delivered(m) /\ NoMishap) \/ (ChainMishap /\ UNCHANGED slavePipe)
WriteFailed(m) == ChainMishap /\ (Delivered(m) \/ UNCHANGED slavePipe)

IdleMaster == [at |-> "read", answer |-> 0, left |-> 0]

MasterSendsConfig(m) ==
  /\ chainMaster[m].at = "config"
  /\ \/ WriteOk(m) /\ chainMaster' = [chainMaster EXCEPT ![m].at = "list"]
     \/ WriteFailed(m) /\ chainMaster' = [chainMaster EXCEPT ![m] = IdleMaster]
  /\ UNCHANGED <<asked, lastKey, slaveVars>>

\* The list is sent again until it is known to have arrived.
MasterSendsList(m) ==
  /\ chainMaster[m].at = "list"
  /\ \/ WriteOk(m) /\ chainMaster' = [chainMaster EXCEPT ![m] = IdleMaster]
     \/ /\ WriteFailed(m)
        /\ chainMaster' = [chainMaster EXCEPT ![m] =
             IF chainMaster[m].left > 1 THEN [chainMaster[m] EXCEPT !.left = @ - 1] ELSE IdleMaster]
  /\ UNCHANGED <<asked, lastKey, slaveVars>>

-----------------------------------------------------------------------------
\* mconfig_chain_slave_init
ChainSlaveInit ==
  /\ slaveAt = "off" /\ slaveAt' = "scan"
  /\ NoMishap /\ UNCHANGED <<dest, chainKey, listLeft, peers, slavePipe, mastersVars>>

\* dest_addr is not read before a scan has set it.
ChainInit ==
  /\ slaveAt = "off" /\ dest = (CHOOSE m \in ChainMaster : TRUE) /\ chainKey = 0 /\ listLeft = 0 /\ peers = {}
  /\ slavePipe = <<>> /\ asked = [m \in ChainMaster |-> 0]
  /\ chainMaster = [m \in ChainMaster |-> IdleMaster] /\ lastKey = 0 /\ chainMishaps = 0

SlaveStep ==
  \/ \E m \in ChainMaster : Scan(m)
  \/ Drain \/ RequestConfig \/ RequestFails
  \/ ConfigArrives \/ ConfigRefused \/ ConfigTimeout
  \/ ListFromOther \/ ListArrives \/ ListTimeout \/ QueueWrite

MasterStep(m) == MasterRead(m) \/ MasterSendsConfig(m) \/ MasterSendsList(m)

ChainNext == ChainSlaveInit \/ SlaveStep \/ \E m \in ChainMaster : MasterStep(m)

\* The tasks of all devices run.
ChainFairness ==
  WF_chainVars(SlaveStep) /\ \A m \in ChainMaster : WF_chainVars(MasterStep(m))

ChainSpec == ChainInit /\ [][ChainNext]_chainVars /\ ChainFairness

-----------------------------------------------------------------------------
ChainMessage == [kind : {"config", "list"}, from : ChainMaster, answer : 1 .. AnswerKeys]

ChainTypeOK ==
  /\ slaveAt \in {"off", "scan", "drain", "config", "list", "queue", "done"} /\ dest \in ChainMaster
  /\ chainKey \in 0 .. AnswerKeys /\ listLeft \in 0 .. ListTries /\ peers \subseteq ChainMaster
  /\ lastKey \in 0 .. AnswerKeys /\ slavePipe \in Seq(ChainMessage) /\ asked \in [ChainMaster -> Nat]
  /\ chainMaster \in [ChainMaster -> [at : {"read", "config", "list"}, answer : 0 .. AnswerKeys,
                                      left : 0 .. ListTries]]

\* A slave that is started is configured in the end, whatever it has read from other masters and
\* earlier rounds, and whatever it has left among its peers, once messages get through.
SlaveIsConfigured == []<>(slaveAt \in {"off", "done"})
=============================================================================
