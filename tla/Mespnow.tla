------------------------------- MODULE Mespnow -------------------------------
(***************************************************************************)
(* Messages over ESP-NOW without a mesh (mespnow.c): the tasks of one      *)
(* device write to another one over one pipe.  mespnow_write cuts a        *)
(* message into packets and sends each until the radio's callback says it  *)
(* was acknowledged; mespnow_recv_cb of the other device filters repeats   *)
(* and queues the packets; mespnow_read puts a message together again.     *)
(*                                                                         *)
(* esp_random is taken to give every packet a magic number of its own.  A  *)
(* size counts packets.                                                    *)
(***************************************************************************)
EXTENDS Integers, Sequences, FiniteSets

CONSTANTS
  Task,        \* the tasks that write
  EspnowSizes, \* packets of a message
  Writes,      \* how many messages are written
  Retransmit,  \* CONFIG_MESPNOW_RETRANSMIT_NUM
  QueueSize,   \* CONFIG_MESPNOW_TRANS_PIPE_*_QUEUE_SIZE
  EspnowSeqs,  \* values of the field seq, 256 in the code
  Troubles     \* bound on lost packets, expired waits and failing calls

Nobody == "nobody"

ASSUME MespnowAssumption ==
  /\ Nobody \notin Task
  /\ EspnowSizes \subseteq Nat \ {0} /\ Writes \in Nat /\ Retransmit \in Nat \ {0}
  /\ QueueSize \in Nat \ {0} /\ EspnowSeqs \in Nat \ {0} /\ Troubles \in Nat

VARIABLES
  sendLock,  \* s_send_lock: the mutex in use, 0 before one is created
  holder,    \* of every mutex created: who has it
  w,         \* a task in the middle of mespnow_write
  bits,      \* g_event_group
  air,       \* packets the radio has not sent yet
  lastMagic, \* g_last_magic of the pipe on the receiving device
  pipe,      \* its queue
  reader,    \* the task in mespnow_read
  announced, \* messages the application was told of (MDF_EVENT_MESPNOW_RECV)
  size, result,  \* of each message: its packets, and what mespnow_write returned
  troubles,  \* how much of the bound is used
  heard, accepted,  \* packets acknowledged, and packets that got a place in the queue
  expired, leaked  \* whether a wait has expired, and who has left with the lock

espnowVars == <<sendLock, holder, w, bits, air, lastMagic, pipe, reader, announced,
                size, result, troubles, heard, accepted, expired, leaked>>
writerVars == <<sendLock, holder, w, size, result, expired, leaked>>
receiverVars == <<lastMagic, pipe, announced, heard, accepted>>

Message == 1 .. Len(size)

\* mespnow_head_data_t: message and index stand for the magic number and the payload.
Packet(m, i) == [msg |-> m, idx |-> i, seq |-> i % EspnowSeqs, total |-> size[m]]
NoMagic == [msg |-> 0, idx |-> 0]
MagicOf(p) == [msg |-> p.msg, idx |-> p.idx]

Idle == [at |-> "idle", msg |-> 0, idx |-> 0, left |-> 0]

Trouble == troubles < Troubles /\ troubles' = troubles + 1

-----------------------------------------------------------------------------
\* mespnow_write.
WriteCall(t, n) ==
  /\ w[t].at = "idle" /\ Len(size) < Writes
  /\ size' = Append(size, n) /\ result' = Append(result, "open")
  /\ w' = [w EXCEPT ![t] = [at |-> IF sendLock = 0 THEN "create" ELSE "take",
                            msg |-> Len(size) + 1, idx |-> 0, left |-> 0]]
  /\ UNCHANGED <<sendLock, holder, bits, air, reader, troubles, expired, leaked, receiverVars>>

\* Another task may have created a mutex since s_send_lock was looked at.
LockCreate(t) ==
  /\ w[t].at = "create" /\ w' = [w EXCEPT ![t].at = "take"]
  /\ holder' = Append(holder, Nobody) /\ sendLock' = Len(holder) + 1
  /\ UNCHANGED <<bits, air, reader, size, result, troubles, expired, leaked, receiverVars>>

\* xSemaphoreTake, of the mutex s_send_lock is now, and the allocation.
LockIsFreeAlways == TRUE  \* mutant
LockIsFree == holder[sendLock] = Nobody

LockTake(t) ==
  /\ w[t].at = "take" /\ LockIsFree
  /\ holder' = [holder EXCEPT ![sendLock] = t] /\ w' = [w EXCEPT ![t].at = "packet"]
  /\ UNCHANGED <<sendLock, bits, air, reader, size, result, troubles, expired, leaked, receiverVars>>

Ends(t, ret) ==
  /\ w' = [w EXCEPT ![t] = Idle] /\ result' = [result EXCEPT ![w[t].msg] = ret]

LockTimeout(t) ==
  /\ w[t].at = "take" /\ ~ LockIsFree /\ Trouble /\ Ends(t, "timeout")
  /\ UNCHANGED <<sendLock, holder, bits, air, reader, size, expired, leaked, receiverVars>>

\* A failing allocation returns at once, and the lock is not given back.
AllocFails(t) ==
  /\ w[t].at = "take" /\ LockIsFree /\ Trouble
  /\ holder' = [holder EXCEPT ![sendLock] = t] /\ Ends(t, "no_mem")
  /\ leaked' = leaked \union {t}
  /\ UNCHANGED <<sendLock, bits, air, reader, size, expired, receiverVars>>

\* esp_now_send.  The bits are cleared once for a packet, before it is sent first.
Transmit(t, place, retries) ==
  /\ w[t].at = place /\ air' = Append(air, Packet(w[t].msg, w[t].idx))
  /\ w' = [w EXCEPT ![t].at = "wait", ![t].left = retries]
  /\ UNCHANGED <<sendLock, holder, reader, size, result, troubles, expired, leaked, receiverVars>>

Send(t) == Transmit(t, "packet", Retransmit) /\ bits' = {}

SendRepeat(t) == Transmit(t, "repeat", w[t].left) /\ UNCHANGED bits

\* xSemaphoreGive, of the mutex s_send_lock is now.
LockGivenNever == holder  \* mutant
LockGiven == [holder EXCEPT ![sendLock] = Nobody]

SendFails(t) ==
  /\ w[t].at \in {"packet", "repeat"} /\ Trouble /\ Ends(t, "fail") /\ holder' = LockGiven
  /\ bits' = IF w[t].at = "packet" THEN {} ELSE bits
  /\ UNCHANGED <<sendLock, air, reader, size, expired, leaked, receiverVars>>

\* xEventGroupWaitBits takes both bits away.
AckedByAnyBit == bits # {}  \* mutant
Acked == "ok" \in bits

\* The next packet, or MDF_OK and MDF_EVENT_MESPNOW_SEND after the last.
SendAcked(t) ==
  /\ w[t].at = "wait" /\ bits # {} /\ Acked /\ bits' = {}
  /\ IF w[t].idx + 1 < size[w[t].msg]
       THEN /\ w' = [w EXCEPT ![t].at = "packet", ![t].idx = @ + 1]
            /\ UNCHANGED <<holder, result>>
       ELSE Ends(t, "ok") /\ holder' = LockGiven
  /\ UNCHANGED <<sendLock, air, reader, size, troubles, expired, leaked, receiverVars>>

\* --retry_count; the last one gives up.
SendAgain(t) ==
  IF w[t].left > 1
    THEN /\ w' = [w EXCEPT ![t].at = "repeat", ![t].left = @ - 1]
         /\ UNCHANGED <<holder, result>>
    ELSE Ends(t, "fail") /\ holder' = LockGiven

SendRefused(t) ==
  /\ w[t].at = "wait" /\ bits # {} /\ ~ Acked /\ bits' = {} /\ SendAgain(t)
  /\ UNCHANGED <<sendLock, air, reader, size, troubles, expired, leaked, receiverVars>>

SendTimeout(t) ==
  /\ w[t].at = "wait" /\ bits = {} /\ Trouble /\ expired' = TRUE /\ SendAgain(t)
  /\ UNCHANGED <<sendLock, bits, air, reader, size, leaked, receiverVars>>

-----------------------------------------------------------------------------
\* mespnow_recv_cb.  The magic number is noted before anything else is looked at.
Repeat(p) == lastMagic = MagicOf(p)

RecvRepeat(p) == Repeat(p) /\ UNCHANGED <<lastMagic, announced, pipe, accepted>>

RecvDamaged(p) ==
  ~ Repeat(p) /\ lastMagic' = MagicOf(p) /\ UNCHANGED <<announced, pipe, accepted>>

Recv(p, room) ==
  /\ ~ Repeat(p) /\ lastMagic' = MagicOf(p)
  /\ announced' = IF p.seq = 0 THEN announced \union {p.msg} ELSE announced
  /\ IF room /\ Len(pipe) < QueueSize
       THEN pipe' = Append(pipe, p) /\ accepted' = accepted \union {MagicOf(p)}
       ELSE UNCHANGED <<pipe, accepted>>

\* The radio sends a packet; mespnow_send_cb tells whether it was acknowledged.
Radio(p, ack) ==
  /\ air # <<>> /\ p = Head(air) /\ air' = Tail(air)
  /\ bits' = bits \union {IF ack THEN "ok" ELSE "fail"}

Arrives(ack) ==
  LET p == Head(air) IN
  /\ Radio(p, ack) /\ heard' = heard \union {MagicOf(p)}
  /\ \/ RecvRepeat(p) \/ Recv(p, TRUE)
  /\ IF ack THEN UNCHANGED troubles ELSE Trouble
  /\ UNCHANGED <<writerVars, reader>>

\* CRC error, or no memory for the entry.
ArrivesInVain ==
  LET p == Head(air) IN
  /\ Radio(p, TRUE) /\ heard' = heard \union {MagicOf(p)}
  /\ \/ RecvDamaged(p) \/ Recv(p, FALSE)
  /\ Trouble /\ UNCHANGED <<writerVars, reader>>

IsLost ==
  /\ Radio(Head(air), FALSE) /\ Trouble
  /\ UNCHANGED <<writerVars, reader, lastMagic, pipe, announced, heard, accepted>>

-----------------------------------------------------------------------------
\* mespnow_read, with room for so many packets in the caller's buffer.
ReadCall(room) ==
  /\ reader.at = "idle" /\ reader' = [at |-> "first", room |-> room, got |-> <<>>]
  /\ UNCHANGED <<writerVars, receiverVars, bits, air, troubles>>

StaysQueued == UNCHANGED <<lastMagic, announced, heard, accepted>>

ReadFirst ==
  LET p == Head(pipe) IN
  /\ reader.at = "first" /\ pipe # <<>> /\ pipe' = Tail(pipe)
  /\ reader' = IF p.seq = 0 /\ reader.room > p.total
                 THEN [reader EXCEPT !.at = IF p.total = 1 THEN "whole" ELSE "more", !.got = <<p>>]
                 ELSE reader
  /\ StaysQueued /\ UNCHANGED <<writerVars, bits, air, troubles>>

\* expect_seq counts past the values of the field.
ExpectedAny(p) == TRUE  \* mutant
Expected(p) == p.seq = Len(reader.got)

ReadMore ==
  LET p == Head(pipe)
      got == Append(reader.got, p)
  IN
  /\ reader.at = "more" /\ pipe # <<>> /\ pipe' = Tail(pipe)
  /\ reader' = IF ~ Expected(p) THEN [reader EXCEPT !.at = "idle", !.got = <<>>]
               ELSE [reader EXCEPT !.at = IF Len(got) < Head(got).total THEN "more" ELSE "whole",
                                   !.got = got]
  /\ StaysQueued /\ UNCHANGED <<writerVars, bits, air, troubles>>

ReadTimeout ==
  /\ reader.at \in {"first", "more"} /\ pipe = <<>>
  /\ reader' = [reader EXCEPT !.at = "idle", !.got = <<>>]
  /\ UNCHANGED <<writerVars, receiverVars, bits, air, troubles>>

ReadReturn ==
  /\ reader.at = "whole" /\ reader' = [reader EXCEPT !.at = "idle", !.got = <<>>]
  /\ UNCHANGED <<writerVars, receiverVars, bits, air, troubles>>

-----------------------------------------------------------------------------
MespnowInit ==
  /\ sendLock = 0 /\ holder = <<>> /\ w = [t \in Task |-> Idle] /\ bits = {} /\ air = <<>>
  /\ lastMagic = NoMagic /\ pipe = <<>>
  /\ reader = [at |-> "idle", room |-> 0, got |-> <<>>] /\ announced = {}
  /\ size = <<>> /\ result = <<>> /\ troubles = 0 /\ heard = {} /\ accepted = {}
  /\ expired = FALSE /\ leaked = {}

WriteStep(t) ==
  \/ LockCreate(t) \/ LockTake(t) \/ LockTimeout(t) \/ AllocFails(t)
  \/ Send(t) \/ SendRepeat(t) \/ SendFails(t)
  \/ SendAcked(t) \/ SendRefused(t) \/ SendTimeout(t)

RadioStep == Arrives(TRUE) \/ Arrives(FALSE) \/ ArrivesInVain \/ IsLost

ReadStep == ReadFirst \/ ReadMore \/ ReadTimeout \/ ReadReturn

MespnowNext ==
  \/ \E t \in Task, n \in EspnowSizes : WriteCall(t, n)
  \/ \E t \in Task : WriteStep(t)
  \/ RadioStep
  \/ \E room \in {n + 1 : n \in EspnowSizes} : ReadCall(room)
  \/ ReadStep

\* The scheduler runs every task that can go on, and the radio empties its queue.
MespnowFairness ==
  (\A t \in Task : WF_espnowVars(WriteStep(t))) /\ WF_espnowVars(RadioStep)

MespnowSpec == MespnowInit /\ [][MespnowNext]_espnowVars /\ MespnowFairness

-----------------------------------------------------------------------------
MagicNumber == [msg : Nat, idx : Nat]
PacketType == [msg : Nat, idx : Nat, seq : 0 .. EspnowSeqs - 1, total : Nat]

MespnowTypeOK ==
  /\ sendLock \in 0 .. Len(holder) /\ holder \in Seq(Task \union {Nobody})
  /\ w \in [Task -> [at : {"idle", "create", "take", "packet", "repeat", "wait"},
                     msg : 0 .. Len(size), idx : Nat, left : 0 .. Retransmit]]
  /\ bits \subseteq {"ok", "fail"} /\ air \in Seq(PacketType)
  /\ lastMagic \in MagicNumber /\ pipe \in Seq(PacketType) /\ Len(pipe) <= QueueSize
  /\ reader \in [at : {"idle", "first", "more", "whole"}, room : Nat, got : Seq(PacketType)]
  /\ announced \subseteq Message /\ size \in Seq(EspnowSizes)
  /\ result \in Seq({"open", "ok", "fail", "timeout", "no_mem"}) /\ Len(result) = Len(size)
  /\ troubles \in 0 .. Troubles /\ heard \subseteq MagicNumber /\ accepted \subseteq MagicNumber
  /\ expired \in BOOLEAN /\ leaked \subseteq Task

Owners == {t \in Task : w[t].at \in {"packet", "repeat", "wait"}}

\* Unless two tasks have created the mutex at the same time, one task at a time
\* sends, it is the one that has the mutex, and a task that has it without sending
\* is one whose allocation failed: from then on every write waits in vain.
LockDiscipline ==
  Len(holder) <= 1 =>
    /\ \A t \in Owners : sendLock = 1 /\ holder[1] = t
    /\ \A h \in 1 .. Len(holder) : holder[h] \in Owners \union leaked \union {Nobody}

\* As long as no wait for the radio's callback has expired and one mutex exists,
\* mespnow_write says MDF_OK only of messages every packet of which was received.
OkMeansHeard ==
  (~ expired /\ Len(holder) <= 1) =>
    \A m \in Message : result[m] = "ok" =>
      \A i \in 0 .. size[m] - 1 : [msg |-> m, idx |-> i] \in heard

\* In what mespnow_read returns every packet is in its place, and it takes packets of
\* two messages for one only if a packet of each was lost: the one missing of the
\* first, and the one its place is filled with comes after the lost ones of the second.
MixedReadsHaveLosses ==
  (reader.at = "whole" /\ Len(holder) <= 1) =>
    /\ \A i \in 1 .. Len(reader.got) : (reader.got[i].idx - (i - 1)) % EspnowSeqs = 0
    /\ \A i \in 1 .. Len(reader.got) - 1 :
         LET p == reader.got[i]
             q == reader.got[i + 1]
         IN  p.msg # q.msg => /\ [msg |-> p.msg, idx |-> p.idx + 1] \notin accepted
                              /\ [msg |-> q.msg, idx |-> q.idx - 1] \notin accepted

\* Every write returns, unless the lock was left behind by a failing allocation
\* or a second mutex has been created.
WritesReturn ==
  \A t \in Task : []<>(w[t].at = "idle" \/ leaked # {} \/ Len(holder) > 1)
=============================================================================
