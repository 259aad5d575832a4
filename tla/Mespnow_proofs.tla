--------------------------- MODULE Mespnow_proofs ---------------------------
(***************************************************************************)
(* Messages over ESP-NOW: the lock keeps the tasks apart, MDF_OK is said   *)
(* of what was received, and a read mixes two messages only where packets  *)
(* of both were lost.                                                      *)
(***************************************************************************)
EXTENDS Mespnow, TLAPS

USE MespnowAssumption DEF MespnowAssumption

CallPlaces == {"idle", "create", "take", "packet", "repeat", "wait"}
CallType == [at : CallPlaces, msg : 0 .. Len(size), idx : Nat, left : 0 .. Retransmit]

\* The mutexes; s_send_lock is always the last one created.
LockTypes ==
  /\ holder \in Seq(Task \union {Nobody}) /\ sendLock = Len(holder)
  /\ leaked \subseteq Task /\ expired \in BOOLEAN

\* The calls of mespnow_write: a call waits for a mutex that exists, and a packet that is
\* sent is one of the message.
CallTypes ==
  /\ size \in Seq(EspnowSizes)
  /\ result \in Seq({"open", "ok", "fail", "timeout", "no_mem"}) /\ Len(result) = Len(size)
  /\ troubles \in 0 .. Troubles
  /\ w \in [Task -> CallType]
  /\ \A t \in Task : w[t].at # "idle" => w[t].msg \in Message /\ w[t].idx < size[w[t].msg]
  /\ \A t \in Task : w[t].at \notin {"idle", "create"} => holder # <<>>
  /\ \A t \in Task : w[t].at \in {"create", "take"} => w[t].idx = 0
  /\ \A t, u \in Task : t # u /\ w[t].at # "idle" /\ w[u].at # "idle" => w[t].msg # w[u].msg

\* A packet that was sent is one of a message.
Sent(p) == p \in PacketType /\ p.msg \in Message /\ p.seq = p.idx % EspnowSeqs
AllSent(s) == s \in Seq(PacketType) /\ \A i \in 1 .. Len(s) : Sent(s[i])

RadioTypes ==
  /\ bits \subseteq {"ok", "fail"} /\ AllSent(air)
  /\ lastMagic \in MagicNumber /\ lastMagic.msg \in 0 .. Len(size)
  /\ announced \subseteq Message
  /\ heard \subseteq MagicNumber /\ accepted \subseteq MagicNumber
  /\ \A a \in accepted : a.msg \in Message

ReaderType == [at : {"idle", "first", "more", "whole"}, room : Nat, got : Seq(PacketType)]

\* The queue and the reader: expect_seq is the place in the message.
ReaderTypes ==
  /\ AllSent(pipe) /\ Len(pipe) <= QueueSize
  /\ reader \in ReaderType /\ AllSent(reader.got)
  /\ reader.at \in {"idle", "first"} <=> reader.got = <<>>
  /\ \A i \in 1 .. Len(reader.got) : reader.got[i].seq = i - 1

EspnowTypes == LockTypes /\ CallTypes /\ RadioTypes /\ ReaderTypes

\* While no wait has expired only the packet of the task that waits is in the air, the
\* bits are about it, and what it has sent before was received.
SentIsHeard ==
  (~ expired /\ Len(holder) <= 1) =>
    /\ bits # {} => air = <<>>
    /\ \A t \in Owners : \A i \in 0 .. w[t].idx - 1 : [msg |-> w[t].msg, idx |-> i] \in heard
    /\ air # <<>> \/ bits # {} => \E t \in Task : w[t].at = "wait"
    /\ \A t \in Task : w[t].at = "wait" => air \in {<<>>, <<Packet(w[t].msg, w[t].idx)>>}
    /\ \A t \in Task : w[t].at = "wait" /\ "ok" \in bits =>
                         [msg |-> w[t].msg, idx |-> w[t].idx] \in heard

\* Nothing of a message is in the air, received or accepted.
Unsent(m) ==
  /\ lastMagic.msg # m /\ \A i \in 1 .. Len(air) : air[i].msg # m
  /\ \A a \in accepted : a.msg # m

\* The packets in the air are in the order they were cut in, one message after the other,
\* and follow the one received last.
AirInOrder ==
  /\ \A i, k \in 1 .. Len(air) : i <= k /\ air[i].msg = air[k].msg =>
       air[i].idx <= air[k].idx /\ \A j \in i .. k : air[j].msg = air[k].msg
  /\ \A k \in 1 .. Len(air) : lastMagic.msg = air[k].msg =>
       lastMagic.idx <= air[k].idx /\ \A j \in 1 .. k : air[j].msg = air[k].msg

\* The task with the lock sends the packets that come next.
SenderIsLast ==
  /\ \A t \in Task : w[t].at \in {"create", "take"} => Unsent(w[t].msg)
  /\ \A t \in Owners :
       /\ \A i \in 1 .. Len(air) : air[i].msg = w[t].msg =>
            air[i].idx <= w[t].idx /\ \A j \in i .. Len(air) : air[j].msg = w[t].msg
       /\ lastMagic.msg = w[t].msg =>
            lastMagic.idx <= w[t].idx /\ \A j \in 1 .. Len(air) : air[j].msg = w[t].msg

\* What was accepted of the message received last came before, and other messages of
\* which something was accepted are over.
Over(m) ==
  /\ \A i \in 1 .. Len(air) : air[i].msg # m
  /\ \A t \in Task : w[t].at # "idle" => w[t].msg # m

AcceptedIsPast ==
  \A a \in accepted : IF a.msg = lastMagic.msg THEN a.idx <= lastMagic.idx ELSE Over(a.msg)

\* Two packets one after the other, when a message was received last and some packets
\* were accepted: those between the two were not accepted, nor will they be.
Follows(p, q, last, acc) ==
  p.msg # q.msg => /\ p.msg # last
                   /\ [msg |-> p.msg, idx |-> p.idx + 1] \notin acc
                   /\ [msg |-> q.msg, idx |-> q.idx - 1] \notin acc

\* A packet after which none was accepted.
IsLatest(p, last, acc) ==
  \A a \in acc : /\ a.msg = p.msg => a.idx <= p.idx
                 /\ a.msg = last => p.msg = a.msg

\* What is read and what is still queued.
Stream(got, queue, last, acc) ==
  /\ \A i \in 1 .. Len(got) : MagicOf(got[i]) \in acc
  /\ \A i \in 1 .. Len(queue) : MagicOf(queue[i]) \in acc
  /\ \A i \in 1 .. Len(got) - 1 : Follows(got[i], got[i + 1], last, acc)
  /\ \A i \in 1 .. Len(queue) - 1 : Follows(queue[i], queue[i + 1], last, acc)
  /\ got # <<>> /\ queue # <<>> => Follows(got[Len(got)], queue[1], last, acc)
  /\ queue # <<>> => IsLatest(queue[Len(queue)], last, acc)
  /\ got # <<>> /\ queue = <<>> => IsLatest(got[Len(got)], last, acc)

StreamInOrder == Stream(reader.got, pipe, lastMagic.msg, accepted)

OneAtATime ==
  Len(holder) <= 1 => AirInOrder /\ SenderIsLast /\ AcceptedIsPast /\ StreamInOrder

EspnowInv == EspnowTypes /\ LockDiscipline /\ SentIsHeard /\ OkMeansHeard /\ OneAtATime

-----------------------------------------------------------------------------
LEMMA EspnowInvInit == MespnowInit => EspnowInv
  <1>. SUFFICES ASSUME MespnowInit PROVE EspnowInv
    OBVIOUS
  <1>1. \A t \in Task : w[t] = Idle
    BY DEF MespnowInit
  <1>2. LockTypes
    <2>1. holder \in Seq(Task \union {Nobody}) /\ Len(holder) = 0
      BY DEF MespnowInit
    <2>. QED  BY <2>1 DEF MespnowInit, LockTypes
  <1>3. CallTypes
    BY DEF MespnowInit, CallTypes, Idle, CallType, CallPlaces
  <1>4. RadioTypes
    BY DEF MespnowInit, RadioTypes, AllSent, NoMagic, MagicNumber
  <1>5. ReaderTypes
    BY DEF MespnowInit, ReaderTypes, ReaderType, AllSent
  <1>6. LockDiscipline /\ OkMeansHeard
    BY <1>1 DEF MespnowInit, LockDiscipline, OkMeansHeard, Owners, Idle, Message
  <1>7. SentIsHeard
    BY <1>1 DEF MespnowInit, SentIsHeard, Owners, Idle
  <1>8. OneAtATime
    BY <1>1 DEF MespnowInit, OneAtATime, AirInOrder, SenderIsLast, AcceptedIsPast, StreamInOrder,
      Stream, Owners, Idle
  <1>. QED  BY <1>2, <1>3, <1>4, <1>5, <1>6, <1>7, <1>8 DEF EspnowInv, EspnowTypes

-----------------------------------------------------------------------------
(* The types. *)

LEMMA UpdatedSeq ==
  ASSUME NEW S, NEW s \in Seq(S), NEW i, NEW v \in S
  PROVE  /\ [s EXCEPT ![i] = v] \in Seq(S)
         /\ Len([s EXCEPT ![i] = v]) = Len(s)
         /\ \A k \in 1 .. Len(s) : [s EXCEPT ![i] = v][k] = IF k = i THEN v ELSE s[k]
  <1>. DEFINE g == [s EXCEPT ![i] = v]
  <1>1. s \in [1 .. Len(s) -> S]
    OBVIOUS
  <1>2. g \in [1 .. Len(s) -> S]
    BY <1>1
  <1>3. g \in Seq(S) /\ Len(g) = Len(s)
    BY <1>2
  <1>4. \A k \in 1 .. Len(s) : g[k] = IF k = i THEN v ELSE s[k]
    BY <1>1
  <1>. QED  BY <1>3, <1>4

LEMMA LockTypesStep ==
  ASSUME EspnowTypes, [MespnowNext]_espnowVars
  PROVE  LockTypes'
  <1>. USE DEF EspnowTypes, LockTypes, writerVars
  <1>1. CASE UNCHANGED <<sendLock, holder, expired, leaked>>
    BY <1>1
  <1>2. ASSUME NEW t \in Task, LockCreate(t) PROVE LockTypes'
    BY <1>2 DEF LockCreate
  <1>3. ASSUME NEW t \in Task, LockTake(t) \/ AllocFails(t) PROVE LockTypes'
    <2>1. holder' = [holder EXCEPT ![sendLock] = t] /\ leaked' \subseteq Task
          /\ UNCHANGED <<sendLock, expired>>
      BY <1>3 DEF LockTake, AllocFails
    <2>. QED  BY <2>1, UpdatedSeq
  <1>4. ASSUME NEW t \in Task, SendFails(t) \/ SendAcked(t) \/ SendRefused(t) \/ SendTimeout(t)
        PROVE  LockTypes'
    <2>1. holder' \in {holder, LockGiven} /\ expired' \in BOOLEAN /\ UNCHANGED <<sendLock, leaked>>
      BY <1>4 DEF SendFails, SendAcked, SendRefused, SendTimeout, SendAgain
    <2>2. LockGiven \in Seq(Task \union {Nobody}) /\ Len(LockGiven) = Len(holder)
      BY UpdatedSeq DEF LockGiven
    <2>. QED  BY <2>1, <2>2
  <1>5. ASSUME NEW t \in Task, NEW n \in EspnowSizes, WriteCall(t, n) PROVE LockTypes'
    BY <1>1, <1>5 DEF WriteCall
  <1>6. ASSUME NEW t \in Task, LockTimeout(t) \/ Send(t) \/ SendRepeat(t) PROVE LockTypes'
    BY <1>1, <1>6 DEF LockTimeout, Send, SendRepeat, Transmit
  <1>7. CASE RadioStep
    BY <1>1, <1>7 DEF RadioStep, Arrives, ArrivesInVain, IsLost
  <1>8. ASSUME NEW room, ReadCall(room) PROVE LockTypes'
    BY <1>1, <1>8 DEF ReadCall
  <1>9. CASE ReadStep
    BY <1>1, <1>9 DEF ReadStep, ReadFirst, ReadMore, ReadTimeout, ReadReturn
  <1>10. CASE UNCHANGED espnowVars
    BY <1>1, <1>10 DEF espnowVars
  <1>. QED
    BY <1>2, <1>3, <1>4, <1>5, <1>6, <1>7, <1>8, <1>9, <1>10 DEF MespnowNext, WriteStep

\* A step of one call, which does not change its message.
LEMMA CallMoves ==
  ASSUME CallTypes, NEW t \in Task, NEW c \in CallType, w' = [w EXCEPT ![t] = c],
         w[t].at \notin {"idle", "create"},
         c.at # "idle" => c.msg = w[t].msg /\ c.idx < size[c.msg], c.at \notin {"create", "take"},
         Len(holder') = Len(holder), holder' = <<>> => holder = <<>>, UNCHANGED size,
         result' = result \/ \E r \in {"ok", "fail", "timeout", "no_mem"} :
                                result' = [result EXCEPT ![w[t].msg] = r],
         troubles' \in 0 .. Troubles
  PROVE  CallTypes'
  <1>. USE DEF CallTypes
  <1>1. w' \in [Task -> CallType]
    OBVIOUS
  <1>2. CallType' = CallType
    BY DEF CallType
  <1>3. result' \in Seq({"open", "ok", "fail", "timeout", "no_mem"}) /\ Len(result') = Len(size)
    <2>. DEFINE R == {"open", "ok", "fail", "timeout", "no_mem"}
    <2>1. CASE result' = result
      BY <2>1
    <2>2. ASSUME NEW r \in {"ok", "fail", "timeout", "no_mem"}, result' = [result EXCEPT ![w[t].msg] = r]
          PROVE  result' \in Seq(R) /\ Len(result') = Len(size)
      <3>1. r \in R /\ result \in Seq(R)
        OBVIOUS
      <3>. HIDE DEF R
      <3>2. /\ [result EXCEPT ![w[t].msg] = r] \in Seq(R)
            /\ Len([result EXCEPT ![w[t].msg] = r]) = Len(result)
        BY <3>1, UpdatedSeq
      <3>. QED  BY <2>2, <3>2
    <2>. QED  BY <2>1, <2>2
  <1>4. \A u \in Task : w'[u] = IF u = t THEN c ELSE w[u]
    OBVIOUS
  <1>5. \A u \in Task : w'[u].at # "idle" => w'[u].msg \in Message' /\ w'[u].idx < size'[w'[u].msg]
    BY <1>4 DEF Message
  <1>6. \A u \in Task : w'[u].at \notin {"idle", "create"} => holder' # <<>>
    BY <1>4
  <1>7. \A u, v \in Task : u # v /\ w'[u].at # "idle" /\ w'[v].at # "idle" => w'[u].msg # w'[v].msg
    BY <1>4
  <1>8. \A u \in Task : w'[u].at \in {"create", "take"} => w'[u].idx = 0
    BY <1>4
  <1>. QED  BY <1>1, <1>2, <1>3, <1>5, <1>6, <1>7, <1>8

\* mespnow_write is called: the message is a new one.
LEMMA WriteCallTypes ==
  ASSUME EspnowTypes, NEW t \in Task, NEW n \in EspnowSizes, WriteCall(t, n)
  PROVE  CallTypes'
  <1>. DEFINE c == [at |-> IF sendLock = 0 THEN "create" ELSE "take",
                    msg |-> Len(size) + 1, idx |-> 0, left |-> 0]
  <1>. USE DEF EspnowTypes, CallTypes, LockTypes
  <1>1. /\ w[t].at = "idle" /\ size' = Append(size, n) /\ result' = Append(result, "open")
        /\ w' = [w EXCEPT ![t] = c] /\ UNCHANGED <<holder, troubles>>
    BY DEF WriteCall
  <1>2. /\ size' \in Seq(EspnowSizes) /\ Len(size') = Len(size) + 1
        /\ \A m \in Message : size'[m] = size[m]
        /\ size'[Len(size) + 1] = n
    BY <1>1 DEF Message
  <1>3. /\ result' \in Seq({"open", "ok", "fail", "timeout", "no_mem"})
        /\ Len(result') = Len(size')
    BY <1>1, <1>2
  <1>4. c \in CallType' /\ CallType \subseteq CallType'
    BY <1>2 DEF CallType, CallPlaces
  <1>5. \A u \in Task : w'[u] = IF u = t THEN c ELSE w[u]
    BY <1>1
  <1>6. w' \in [Task -> CallType']
    BY <1>1, <1>4
  <1>7. \A u \in Task : w'[u].at # "idle" => w'[u].msg \in Message' /\ w'[u].idx < size'[w'[u].msg]
    <2>. SUFFICES ASSUME NEW u \in Task, w'[u].at # "idle"
                  PROVE  w'[u].msg \in Message' /\ w'[u].idx < size'[w'[u].msg]
      OBVIOUS
    <2>1. CASE u = t
      <3>1. w'[u].msg = Len(size) + 1 /\ w'[u].idx = 0 /\ n > 0
        BY <1>5, <2>1
      <3>. QED  BY <1>2, <3>1 DEF Message
    <2>2. CASE u # t
      <3>1. w'[u] = w[u] /\ w[u].msg \in Message /\ w[u].idx < size[w[u].msg]
        BY <1>5, <2>2
      <3>2. w[u].msg \in Message' /\ size'[w[u].msg] = size[w[u].msg]
        BY <1>2, <3>1 DEF Message
      <3>. QED  BY <3>1, <3>2
    <2>. QED  BY <2>1, <2>2
  <1>8. \A u \in Task : w'[u].at \notin {"idle", "create"} => holder' # <<>>
    BY <1>1, <1>5
  <1>9. \A u, v \in Task : u # v /\ w'[u].at # "idle" /\ w'[v].at # "idle" => w'[u].msg # w'[v].msg
    BY <1>5 DEF Message
  <1>10. \A u \in Task : w'[u].at \in {"create", "take"} => w'[u].idx = 0
    BY <1>5
  <1>. QED  BY <1>1, <1>2, <1>3, <1>6, <1>7, <1>8, <1>9, <1>10

LEMMA LockCreateTypes ==
  ASSUME EspnowTypes, NEW t \in Task, LockCreate(t)
  PROVE  CallTypes'
  <1>. DEFINE c == [w[t] EXCEPT !.at = "take"]
  <1>. USE DEF EspnowTypes, CallTypes, LockTypes
  <1>1. /\ w[t].at = "create" /\ w' = [w EXCEPT ![t] = c] /\ holder' # <<>>
        /\ UNCHANGED <<size, result, troubles>>
    BY DEF LockCreate
  <1>2. c \in CallType /\ c.at = "take" /\ c.msg = w[t].msg /\ c.idx = w[t].idx
    BY DEF CallType, CallPlaces
  <1>. HIDE DEF c
  <1>3. w' \in [Task -> CallType'] /\ \A u \in Task : w'[u] = IF u = t THEN c ELSE w[u]
    BY <1>1, <1>2 DEF CallType
  <1>. QED  BY <1>1, <1>2, <1>3 DEF Message

\* A packet is sent once more, or the call ends.
RepeatsOrGivesUp(t, c) ==
  /\ w' = [w EXCEPT ![t] = c]
  /\ c.at # "idle" => c.msg = w[t].msg /\ c.idx = w[t].idx
  /\ c.at \in {"idle", "repeat"}
  /\ c.at = "idle" => result' = [result EXCEPT ![w[t].msg] = "fail"] /\ holder' = LockGiven
  /\ c.at = "repeat" => UNCHANGED <<result, holder>>

LEMMA SendAgainMoves ==
  ASSUME CallTypes, NEW t \in Task, w[t].at = "wait", SendAgain(t)
  PROVE  \E c \in CallType : RepeatsOrGivesUp(t, c)
  <1>. USE DEF CallTypes, SendAgain, RepeatsOrGivesUp
  <1>1. CASE w[t].left > 1
    <2>. DEFINE c == [w[t] EXCEPT !.at = "repeat", !.left = @ - 1]
    <2>1. w[t] \in CallType /\ w[t].left - 1 \in 0 .. Retransmit
      BY <1>1 DEF CallType
    <2>2. c \in CallType /\ c.at = "repeat" /\ c.msg = w[t].msg /\ c.idx = w[t].idx
      BY <2>1 DEF CallType, CallPlaces
    <2>3. w' = [w EXCEPT ![t] = c] /\ UNCHANGED <<result, holder>>
      BY <1>1
    <2>. QED  BY <2>2, <2>3
  <1>2. CASE ~ (w[t].left > 1)
    <2>1. Idle \in CallType /\ Idle.at = "idle"
      BY DEF CallType, CallPlaces, Idle
    <2>2. w' = [w EXCEPT ![t] = Idle] /\ result' = [result EXCEPT ![w[t].msg] = "fail"]
          /\ holder' = LockGiven
      BY <1>2 DEF Ends
    <2>. QED  BY <2>1, <2>2
  <1>. QED  BY <1>1, <1>2

LEMMA CallTypesStep ==
  ASSUME EspnowTypes, [MespnowNext]_espnowVars
  PROVE  CallTypes'
  <1>. USE DEF EspnowTypes, writerVars
  <1>1. CASE UNCHANGED <<size, result, troubles, w, holder>>
    BY <1>1 DEF CallTypes, CallType, Message
  <1>2. CASE UNCHANGED <<size, result, w, holder>> /\ troubles' \in 0 .. Troubles
    BY <1>2 DEF CallTypes, CallType, Message
  <1>3. Trouble => troubles' \in 0 .. Troubles
    BY DEF Trouble, CallTypes
  <1>4. Idle \in CallType /\ Idle.at = "idle"
    BY DEF CallType, CallPlaces, Idle
  <1>5. troubles \in 0 .. Troubles
    BY DEF CallTypes
  <1>6. \A t \in Task : w[t] \in CallType
    BY DEF CallTypes
  <1>7. /\ Len(LockGiven) = Len(holder)
        /\ \A t \in Task : Len([holder EXCEPT ![sendLock] = t]) = Len(holder)
    BY UpdatedSeq DEF LockTypes, LockGiven
  <1>8. \A h : Len(h) = Len(holder) /\ h = <<>> => holder = <<>>
    BY DEF LockTypes
  <1>9. \A t \in Task : w[t].at # "idle" => w[t].msg \in Message /\ w[t].idx < size[w[t].msg]
    BY DEF CallTypes
  <1>11. ASSUME NEW t \in Task, NEW n \in EspnowSizes, WriteCall(t, n) PROVE CallTypes'
    BY <1>11, WriteCallTypes
  <1>12. ASSUME NEW t \in Task, LockCreate(t) PROVE CallTypes'
    BY <1>12, LockCreateTypes
  <1>13. ASSUME NEW t \in Task, LockTake(t) PROVE CallTypes'
    <2>. DEFINE c == [w[t] EXCEPT !.at = "packet"]
    <2>1. c \in CallType /\ c.at = "packet" /\ c.msg = w[t].msg /\ c.idx = w[t].idx
      BY <1>6 DEF CallType, CallPlaces
    <2>2. w[t].at = "take" /\ w' = [w EXCEPT ![t] = c] /\ Len(holder') = Len(holder)
          /\ UNCHANGED <<size, result, troubles>>
      BY <1>7, <1>13 DEF LockTake
    <2>. QED  BY <1>5, <1>8, <1>9, <2>1, <2>2, CallMoves
  <1>14. ASSUME NEW t \in Task, LockTimeout(t) \/ AllocFails(t) \/ SendFails(t) PROVE CallTypes'
    <2>1. /\ w[t].at \notin {"idle", "create"} /\ w' = [w EXCEPT ![t] = Idle]
          /\ Len(holder') = Len(holder) /\ troubles' \in 0 .. Troubles /\ UNCHANGED size
          /\ \E r \in {"ok", "fail", "timeout", "no_mem"} : result' = [result EXCEPT ![w[t].msg] = r]
      BY <1>3, <1>7, <1>14 DEF LockTimeout, AllocFails, SendFails, Ends
    <2>. QED  BY <1>4, <1>8, <2>1, CallMoves
  <1>15. ASSUME NEW t \in Task, Send(t) \/ SendRepeat(t) PROVE CallTypes'
    <2>1. PICK l \in 0 .. Retransmit :
               /\ w[t].at \in {"packet", "repeat"}
               /\ w' = [w EXCEPT ![t].at = "wait", ![t].left = l]
               /\ UNCHANGED <<holder, size, result, troubles>>
      <3>1. Retransmit \in 0 .. Retransmit /\ w[t].left \in 0 .. Retransmit
        BY <1>6 DEF CallType
      <3>2. CASE Send(t)
        BY <3>1, <3>2 DEF Send, Transmit
      <3>3. CASE SendRepeat(t)
        BY <3>1, <3>3 DEF SendRepeat, Transmit
      <3>. QED  BY <1>15, <3>2, <3>3
    <2>. DEFINE c == [w[t] EXCEPT !.at = "wait", !.left = l]
    <2>2. c \in CallType /\ c.at = "wait" /\ c.msg = w[t].msg /\ c.idx = w[t].idx
      BY <1>6 DEF CallType, CallPlaces
    <2>3. w' = [w EXCEPT ![t] = c]
      BY <2>1
    <2>. QED  BY <1>5, <1>9, <2>1, <2>2, <2>3, CallMoves
  <1>16. ASSUME NEW t \in Task, SendAcked(t) PROVE CallTypes'
    <2>1. CASE w[t].idx + 1 < size[w[t].msg]
      <3>. DEFINE c == [w[t] EXCEPT !.at = "packet", !.idx = @ + 1]
      <3>1. w[t] \in CallType /\ w[t].idx + 1 \in Nat
        BY <1>6 DEF CallType
      <3>2. c \in CallType /\ c.at = "packet" /\ c.msg = w[t].msg /\ c.idx = w[t].idx + 1
        BY <3>1 DEF CallType, CallPlaces
      <3>3. w[t].at = "wait" /\ w' = [w EXCEPT ![t] = c] /\ UNCHANGED <<holder, size, result, troubles>>
        BY <1>16, <2>1 DEF SendAcked
      <3>. QED  BY <1>5, <2>1, <3>2, <3>3, CallMoves
    <2>2. CASE ~ (w[t].idx + 1 < size[w[t].msg])
      <3>1. /\ w[t].at = "wait" /\ w' = [w EXCEPT ![t] = Idle] /\ holder' = LockGiven
            /\ UNCHANGED <<size, troubles>> /\ result' = [result EXCEPT ![w[t].msg] = "ok"]
        BY <1>16, <2>2 DEF SendAcked, Ends
      <3>. QED  BY <1>4, <1>5, <1>7, <1>8, <3>1, CallMoves
    <2>. QED  BY <2>1, <2>2
  <1>17. ASSUME NEW t \in Task, SendRefused(t) \/ SendTimeout(t) PROVE CallTypes'
    <2>1. w[t].at = "wait" /\ SendAgain(t) /\ troubles' \in 0 .. Troubles /\ UNCHANGED size
      BY <1>3, <1>5, <1>17 DEF SendRefused, SendTimeout
    <2>2. PICK c \in CallType : RepeatsOrGivesUp(t, c)
      BY <2>1, SendAgainMoves
    <2>3. Len(holder') = Len(holder)
      BY <1>7, <2>2 DEF RepeatsOrGivesUp
    <2>4. c.at # "idle" => c.msg = w[t].msg /\ c.idx < size[c.msg]
      BY <1>9, <2>1, <2>2 DEF RepeatsOrGivesUp
    <2>5. \/ result' = result
          \/ \E r \in {"ok", "fail", "timeout", "no_mem"} : result' = [result EXCEPT ![w[t].msg] = r]
      BY <2>2 DEF RepeatsOrGivesUp
    <2>6. w' = [w EXCEPT ![t] = c] /\ c.at \notin {"create", "take"}
      BY <2>2 DEF RepeatsOrGivesUp
    <2>. QED  BY <1>8, <2>1, <2>3, <2>4, <2>5, <2>6, CallMoves
  <1>18. CASE RadioStep
    BY <1>2, <1>3, <1>5, <1>18 DEF RadioStep, Arrives, ArrivesInVain, IsLost
  <1>19. ASSUME NEW room, ReadCall(room) PROVE CallTypes'
    BY <1>1, <1>19 DEF ReadCall
  <1>20. CASE ReadStep
    BY <1>1, <1>20 DEF ReadStep, ReadFirst, ReadMore, ReadTimeout, ReadReturn
  <1>21. CASE UNCHANGED espnowVars
    BY <1>1, <1>21 DEF espnowVars
  <1>. QED
    BY <1>11, <1>12, <1>13, <1>14, <1>15, <1>16, <1>17, <1>18, <1>19, <1>20, <1>21
    DEF MespnowNext, WriteStep

\* What is a packet of a message stays one.
LEMMA SentStays ==
  ASSUME NEW s, AllSent(s), Len(size) \in Nat, Len(size') \in Nat, Len(size) <= Len(size')
  PROVE  AllSent(s)'
  BY DEF AllSent, Sent, Message

LEMMA HeadAndTail ==
  ASSUME NEW s, AllSent(s), s # <<>>
  PROVE  /\ Sent(Head(s)) /\ AllSent(Tail(s)) /\ Head(s) = s[1] /\ Len(Tail(s)) = Len(s) - 1
         /\ \A i \in 1 .. Len(s) - 1 : Tail(s)[i] = s[i + 1]
  BY DEF AllSent

LEMMA OneMore ==
  ASSUME NEW s, AllSent(s), NEW p, Sent(p)
  PROVE  /\ AllSent(Append(s, p)) /\ Len(Append(s, p)) = Len(s) + 1
         /\ \A i \in 1 .. Len(s) : Append(s, p)[i] = s[i]
         /\ Append(s, p)[Len(s) + 1] = p
  BY DEF AllSent, Sent

LEMMA PacketIsSent ==
  ASSUME CallTypes, NEW t \in Task, w[t].at # "idle"
  PROVE  Sent(Packet(w[t].msg, w[t].idx))
  <1>. DEFINE m == w[t].msg
              i == w[t].idx
  <1>1. w[t] \in CallType /\ m \in Message /\ size \in Seq(EspnowSizes)
    BY DEF CallTypes
  <1>2. i \in Nat
    BY <1>1 DEF CallType
  <1>. HIDE DEF m, i
  <1>3. size[m] \in EspnowSizes
    BY <1>1 DEF Message
  <1>4. size[m] \in Nat
    BY <1>3
  <1>5. m \in Nat
    BY <1>1 DEF Message
  <1>6. i % EspnowSeqs \in 0 .. EspnowSeqs - 1
    BY <1>2
  <1>7. Packet(m, i) \in PacketType
    BY <1>2, <1>4, <1>5, <1>6 DEF Packet, PacketType
  <1>8. Sent(Packet(m, i))
    BY <1>1, <1>7 DEF Sent, Packet
  <1>. QED  BY <1>8 DEF m, i

LEMMA MagicOfSent ==
  ASSUME NEW p, Sent(p)
  PROVE  MagicOf(p) \in MagicNumber /\ MagicOf(p).msg \in Message /\ p.msg \in Message
  BY DEF Sent, PacketType, MagicOf, MagicNumber

\* What the radio does to the receiver's notes, and what is queued there.
LEMMA RadioSteps ==
  ASSUME EspnowTypes, RadioStep
  PROVE  LET p == Head(air) IN
         /\ air # <<>> /\ air' = Tail(air) /\ UNCHANGED <<writerVars, reader>>
         /\ \/ bits' = bits \union {"ok"} /\ heard' = heard \union {MagicOf(p)}
            \/ bits' = bits \union {"fail"} /\ heard' \in {heard, heard \union {MagicOf(p)}}
         /\ lastMagic' \in {lastMagic, MagicOf(p)}
         /\ announced' \in {announced, announced \union {p.msg}}
         /\ \/ UNCHANGED <<pipe, accepted>>
            \/ /\ lastMagic # MagicOf(p) /\ lastMagic' = MagicOf(p) /\ Len(pipe) < QueueSize
               /\ pipe' = Append(pipe, p) /\ accepted' = accepted \union {MagicOf(p)}
  <1>. USE DEF Radio, RecvRepeat, RecvDamaged, Recv, Repeat
  <1>1. CASE Arrives(TRUE)
    BY <1>1 DEF Arrives
  <1>2. CASE Arrives(FALSE)
    BY <1>2 DEF Arrives
  <1>3. CASE ArrivesInVain
    BY <1>3 DEF ArrivesInVain
  <1>4. CASE IsLost
    BY <1>4 DEF IsLost
  <1>. QED  BY <1>1, <1>2, <1>3, <1>4 DEF RadioStep

LEMMA RadioTypesStep ==
  ASSUME EspnowTypes, [MespnowNext]_espnowVars
  PROVE  RadioTypes'
  <1>. USE DEF EspnowTypes, RadioTypes
  <1>. DEFINE Notes == <<lastMagic, announced, heard, accepted>>
  <1>1. CASE UNCHANGED <<Notes, size, air>> /\ bits' \subseteq {"ok", "fail"}
    BY <1>1 DEF AllSent, Sent, Message
  <1>2. ASSUME NEW t \in Task, NEW n \in EspnowSizes, WriteCall(t, n) PROVE RadioTypes'
    <2>1. UNCHANGED <<Notes, air, bits>> /\ Len(size') = Len(size) + 1 /\ Len(size) \in Nat
      BY <1>2 DEF WriteCall, receiverVars, CallTypes
    <2>2. AllSent(air)'
      BY <2>1 DEF AllSent, Sent, Message
    <2>. QED  BY <2>1, <2>2 DEF Message
  <1>3. ASSUME NEW t \in Task, Send(t) \/ SendRepeat(t) PROVE RadioTypes'
    <2>1. /\ w[t].at # "idle" /\ air' = Append(air, Packet(w[t].msg, w[t].idx))
          /\ bits' \subseteq {"ok", "fail"} /\ UNCHANGED <<Notes, size>>
      BY <1>3 DEF Send, SendRepeat, Transmit, receiverVars
    <2>2. AllSent(air')
      BY <2>1, PacketIsSent, OneMore
    <2>3. AllSent(air)'
      BY <2>1, <2>2 DEF AllSent, Sent, Message
    <2>. QED  BY <2>1, <2>3 DEF Message
  <1>4. ASSUME NEW t \in Task,
               LockCreate(t) \/ LockTake(t) \/ LockTimeout(t) \/ AllocFails(t)
        PROVE  RadioTypes'
    BY <1>1, <1>4 DEF LockCreate, LockTake, LockTimeout, AllocFails, receiverVars
  <1>5. ASSUME NEW t \in Task,
               SendFails(t) \/ SendAcked(t) \/ SendRefused(t) \/ SendTimeout(t)
        PROVE  RadioTypes'
    BY <1>1, <1>5 DEF SendFails, SendAcked, SendRefused, SendTimeout, receiverVars
  <1>6. CASE RadioStep
    <2>. DEFINE p == Head(air)
    <2>1. air # <<>> /\ air' = Tail(air) /\ UNCHANGED size
      BY <1>6, RadioSteps DEF writerVars
    <2>2. Sent(p) /\ AllSent(air') /\ MagicOf(p) \in MagicNumber /\ MagicOf(p).msg \in Message
          /\ p.msg \in Message
      BY <2>1, HeadAndTail, MagicOfSent
    <2>3. AllSent(air)'
      BY <2>1, <2>2 DEF AllSent, Sent, Message
    <2>4. /\ bits' \subseteq {"ok", "fail"} /\ heard' \subseteq MagicNumber
          /\ announced' \subseteq Message
      BY <1>6, <2>2, RadioSteps
    <2>5. /\ lastMagic' \in MagicNumber /\ lastMagic'.msg \in 0 .. Len(size)
          /\ accepted' \subseteq MagicNumber /\ \A a \in accepted' : a.msg \in Message
      BY <1>6, <2>2, RadioSteps DEF Message, CallTypes
    <2>. QED  BY <2>1, <2>3, <2>4, <2>5 DEF Message
  <1>7. ASSUME NEW room, ReadCall(room) PROVE RadioTypes'
    BY <1>1, <1>7 DEF ReadCall, receiverVars, writerVars
  <1>8. CASE ReadStep
    BY <1>1, <1>8 DEF ReadStep, ReadFirst, ReadMore, ReadTimeout, ReadReturn, StaysQueued,
      receiverVars, writerVars
  <1>9. CASE UNCHANGED espnowVars
    BY <1>1, <1>9 DEF espnowVars
  <1>. QED
    BY <1>2, <1>3, <1>4, <1>5, <1>6, <1>7, <1>8, <1>9 DEF MespnowNext, WriteStep

\* What mespnow_read does: it gives up or returns, drops the packet at the head of the
\* queue, or takes it.
Leaves == pipe' = pipe /\ reader' = [reader EXCEPT !.at = "idle", !.got = <<>>]
Drops ==
  /\ pipe # <<>> /\ pipe' = Tail(pipe)
  /\ reader' = [reader EXCEPT !.at = IF reader.at = "first" THEN "first" ELSE "idle", !.got = <<>>]
Takes ==
  /\ pipe # <<>> /\ pipe' = Tail(pipe) /\ Head(pipe).seq = Len(reader.got)
  /\ \E a \in {"more", "whole"} :
       reader' = [reader EXCEPT !.at = a, !.got = Append(reader.got, Head(pipe))]

LEMMA ReadSteps ==
  ASSUME ReaderTypes, ReadStep
  PROVE  /\ Leaves \/ Drops \/ Takes
         /\ UNCHANGED <<writerVars, lastMagic, announced, heard, accepted, bits, air, troubles>>
  <1>. USE DEF Leaves, Drops, Takes, receiverVars, StaysQueued
  <1>1. CASE ReadFirst
    <2>1. reader \in ReaderType /\ reader.at = "first" /\ reader.got = <<>>
      BY <1>1 DEF ReadFirst, ReaderTypes
    <2>2. CASE Head(pipe).seq = 0 /\ reader.room > Head(pipe).total
      <3>1. <<Head(pipe)>> = Append(reader.got, Head(pipe)) /\ Len(reader.got) = 0
        BY <2>1
      <3>2. PICK a \in {"more", "whole"} : reader' = [reader EXCEPT !.at = a, !.got = <<Head(pipe)>>]
        BY <1>1, <2>2 DEF ReadFirst
      <3>. QED  BY <1>1, <2>2, <3>1, <3>2 DEF ReadFirst
    <2>3. CASE ~ (Head(pipe).seq = 0 /\ reader.room > Head(pipe).total)
      <3>1. reader = [reader EXCEPT !.at = "first", !.got = <<>>]
        BY <2>1 DEF ReaderType
      <3>. QED  BY <1>1, <2>1, <2>3, <3>1 DEF ReadFirst
    <2>. QED  BY <2>2, <2>3
  <1>2. CASE ReadMore
    <2>1. CASE Expected(Head(pipe))
      BY <1>2, <2>1 DEF ReadMore, Expected
    <2>2. CASE ~ Expected(Head(pipe))
      BY <1>2, <2>2 DEF ReadMore
    <2>. QED  BY <2>1, <2>2
  <1>3. CASE ReadTimeout
    BY <1>3 DEF ReadTimeout
  <1>4. CASE ReadReturn
    BY <1>4 DEF ReadReturn
  <1>. QED  BY <1>1, <1>2, <1>3, <1>4 DEF ReadStep

LEMMA ReaderTypesStep ==
  ASSUME EspnowTypes, [MespnowNext]_espnowVars
  PROVE  ReaderTypes'
  <1>. USE DEF EspnowTypes, ReaderTypes
  <1>1. CASE UNCHANGED <<pipe, reader, size>>
    BY <1>1 DEF AllSent, Sent, Message
  <1>2. ASSUME NEW t \in Task, NEW n \in EspnowSizes, WriteCall(t, n) PROVE ReaderTypes'
    <2>1. UNCHANGED <<pipe, reader>> /\ Len(size') = Len(size) + 1 /\ Len(size) \in Nat
      BY <1>2 DEF WriteCall, receiverVars, CallTypes
    <2>2. \A p : Sent(p) => Sent(p)'
      BY <2>1 DEF Sent, Message
    <2>3. AllSent(pipe)'
      BY <2>1, <2>2 DEF AllSent
    <2>4. AllSent(reader.got)'
      BY <2>1, <2>2 DEF AllSent
    <2>. QED  BY <2>1, <2>3, <2>4
  <1>3. ASSUME NEW t \in Task, WriteStep(t) PROVE ReaderTypes'
    BY <1>1, <1>3 DEF WriteStep, LockCreate, LockTake, LockTimeout, AllocFails, Send, SendRepeat,
      Transmit, SendFails, SendAcked, SendRefused, SendTimeout, receiverVars
  <1>4. CASE RadioStep
    <2>1. UNCHANGED <<reader, size>>
          /\ \/ pipe' = pipe
             \/ pipe' = Append(pipe, Head(air)) /\ Len(pipe) < QueueSize /\ air # <<>>
      BY <1>4, RadioSteps DEF writerVars
    <2>2. AllSent(pipe') /\ Len(pipe') <= QueueSize
      <3>1. CASE pipe' = pipe
        BY <3>1
      <3>2. CASE pipe' = Append(pipe, Head(air)) /\ Len(pipe) < QueueSize /\ air # <<>>
        <4>1. Sent(Head(air))
          BY <3>2, HeadAndTail DEF RadioTypes
        <4>2. AllSent(pipe') /\ Len(pipe') = Len(pipe) + 1
          BY <3>2, <4>1, OneMore
        <4>. QED  BY <3>2, <4>2 DEF AllSent
      <3>. QED  BY <2>1, <3>1, <3>2
    <2>. QED  BY <2>1, <2>2 DEF AllSent, Sent, Message
  <1>5. ASSUME NEW n \in EspnowSizes, ReadCall(n + 1) PROVE ReaderTypes'
    <2>1. reader' = [at |-> "first", room |-> n + 1, got |-> <<>>] /\ UNCHANGED <<pipe, size>>
      BY <1>5 DEF ReadCall, receiverVars, writerVars
    <2>2. <<>> \in Seq(PacketType) /\ n + 1 \in Nat
      OBVIOUS
    <2>3. reader' \in ReaderType /\ reader'.got = <<>> /\ reader'.at = "first"
      BY <2>1, <2>2 DEF ReaderType
    <2>. QED  BY <2>1, <2>3 DEF AllSent, Sent, Message
  <1>6. CASE ReadStep
    <2>1. UNCHANGED size
      BY <1>6, ReadSteps DEF writerVars
    <2>2. CASE Leaves \/ Drops
      <3>1. PICK a \in {"idle", "first"} : reader' = [reader EXCEPT !.at = a, !.got = <<>>]
        BY <2>2 DEF Leaves, Drops
      <3>2. reader' \in ReaderType /\ reader'.at \in {"idle", "first"} /\ reader'.got = <<>>
        <4>1. reader \in ReaderType /\ <<>> \in Seq(PacketType)
          OBVIOUS
        <4>. QED  BY <3>1, <4>1 DEF ReaderType
      <3>3. AllSent(pipe') /\ Len(pipe') <= QueueSize
        <4>1. CASE Leaves
          BY <4>1 DEF Leaves
        <4>2. CASE pipe # <<>> /\ pipe' = Tail(pipe)
          <5>1. AllSent(pipe') /\ Len(pipe') = Len(pipe) - 1
            BY <4>2, HeadAndTail
          <5>. QED  BY <5>1 DEF AllSent
        <4>. QED  BY <2>2, <4>1, <4>2 DEF Drops
      <3>. QED  BY <2>1, <3>2, <3>3 DEF AllSent, Sent, Message
    <2>3. CASE Takes
      <3>. DEFINE g == Append(reader.got, Head(pipe))
      <3>1. PICK a \in {"more", "whole"} : reader' = [reader EXCEPT !.at = a, !.got = g]
        BY <2>3 DEF Takes
      <3>2. /\ AllSent(g) /\ Len(g) = Len(reader.got) + 1 /\ \A i \in 1 .. Len(reader.got) : g[i] = reader.got[i]
            /\ g[Len(reader.got) + 1] = Head(pipe)
        <4>1. Sent(Head(pipe)) /\ AllSent(reader.got)
          BY <2>3, HeadAndTail DEF Takes
        <4>. QED  BY <4>1, OneMore
      <3>3. g \in Seq(PacketType) /\ g # <<>>
        <4>1. Len(reader.got) \in Nat /\ g \in Seq(PacketType)
          BY <3>2 DEF AllSent
        <4>. HIDE DEF g
        <4>. QED  BY <3>2, <4>1
      <3>4. reader' \in ReaderType /\ reader'.at = a /\ reader'.got = g
        <4>1. reader \in ReaderType
          OBVIOUS
        <4>. HIDE DEF g
        <4>. QED  BY <3>1, <3>3, <4>1 DEF ReaderType
      <3>5. \A i \in 1 .. Len(g) : g[i].seq = i - 1
        BY <2>3, <3>2 DEF Takes, AllSent
      <3>6. AllSent(pipe') /\ Len(pipe') <= QueueSize
        <4>1. AllSent(pipe') /\ Len(pipe') = Len(pipe) - 1
          BY <2>3, HeadAndTail DEF Takes
        <4>. QED  BY <4>1 DEF AllSent
      <3>. HIDE DEF g
      <3>. QED  BY <2>1, <3>2, <3>3, <3>4, <3>5, <3>6 DEF AllSent, Sent, Message
    <2>. QED  BY <1>6, <2>2, <2>3, ReadSteps
  <1>7. CASE UNCHANGED espnowVars
    BY <1>1, <1>7 DEF espnowVars
  <1>. QED  BY <1>2, <1>3, <1>4, <1>5, <1>6, <1>7 DEF MespnowNext

LEMMA EspnowTypesStep ==
  ASSUME EspnowTypes, [MespnowNext]_espnowVars
  PROVE  EspnowTypes'
  BY LockTypesStep, CallTypesStep, RadioTypesStep, ReaderTypesStep DEF EspnowTypes

-----------------------------------------------------------------------------
(* The lock. *)

\* With one mutex, a task has it when it sends, and gives it back.
LEMMA OwnerHasLock ==
  ASSUME EspnowTypes, LockDiscipline, Len(holder) <= 1, NEW t \in Task, w[t].at \notin {"idle", "create"}
  PROVE  /\ sendLock = 1 /\ Len(holder) = 1
         /\ t \in Owners => holder[1] = t /\ Owners = {t}
         /\ holder[1] = Nobody => Owners = {}
  <1>1. holder # <<>> /\ holder \in Seq(Task \union {Nobody}) /\ sendLock = Len(holder)
    BY DEF EspnowTypes, LockTypes, CallTypes
  <1>2. Len(holder) = 1
    BY <1>1
  <1>3. \A u \in Owners : u \in Task /\ holder[1] = u
    BY DEF LockDiscipline, Owners
  <1>. QED  BY <1>1, <1>2, <1>3

LEMMA LockDisciplineStep ==
  ASSUME EspnowTypes, LockDiscipline, [MespnowNext]_espnowVars
  PROVE  LockDiscipline'
  <1>1. EspnowTypes'
    BY EspnowTypesStep
  <1>2. CASE UNCHANGED <<w, sendLock, holder, leaked>>
    BY <1>2 DEF LockDiscipline, Owners
  <1>3. SUFFICES ASSUME Len(holder') <= 1
                 PROVE  /\ \A t \in Owners' : sendLock' = 1 /\ holder'[1] = t
                        /\ \A h \in 1 .. Len(holder') :
                             holder'[h] \in Owners' \union leaked' \union {Nobody}
    BY DEF LockDiscipline
  <1>4. /\ holder \in Seq(Task \union {Nobody}) /\ sendLock = Len(holder)
        /\ holder' \in Seq(Task \union {Nobody}) /\ sendLock' = Len(holder')
    BY <1>1 DEF EspnowTypes, LockTypes
  <1>5. w \in [Task -> CallType]
    BY DEF EspnowTypes, CallTypes
  <1>6. Len(holder) <= 1 =>
          /\ \A t \in Owners : sendLock = 1 /\ holder[1] = t
          /\ \A h \in 1 .. Len(holder) : holder[h] \in Owners \union leaked \union {Nobody}
    BY DEF LockDiscipline
  <1>11. ASSUME NEW t \in Task, NEW n \in EspnowSizes, WriteCall(t, n) PROVE LockDiscipline'
    <2>1. Owners' = Owners /\ UNCHANGED <<sendLock, holder, leaked>>
      BY <1>5, <1>11 DEF WriteCall, Owners
    <2>. QED  BY <2>1 DEF LockDiscipline
  <1>12. ASSUME NEW t \in Task, LockCreate(t) PROVE LockDiscipline'
    <2>1. Owners' = Owners /\ holder' = Append(holder, Nobody) /\ UNCHANGED leaked
      BY <1>5, <1>12 DEF LockCreate, Owners, CallType
    <2>2. Len(holder) = 0 /\ holder'[1] = Nobody
      BY <1>3, <1>4, <2>1
    <2>3. Owners = {}
      BY <1>4, <1>6, <2>2
    <2>. QED  BY <1>3, <1>4, <2>1, <2>2, <2>3 DEF LockDiscipline
  <1>13. ASSUME NEW t \in Task, LockTake(t) PROVE LockDiscipline'
    <2>1. /\ w[t].at = "take" /\ holder[sendLock] = Nobody /\ Owners' = Owners \union {t}
          /\ holder' = [holder EXCEPT ![sendLock] = t] /\ UNCHANGED leaked
      BY <1>5, <1>13 DEF LockTake, LockIsFree, Owners, CallType
    <2>2. Len(holder') = Len(holder)
      BY <1>4, <2>1, UpdatedSeq
    <2>3. Len(holder) = 1 /\ sendLock = 1 /\ Owners = {}
      BY <1>3, <2>1, <2>2, OwnerHasLock
    <2>4. holder'[1] = t
      BY <1>4, <2>1, <2>3
    <2>. QED  BY <1>4, <2>1, <2>2, <2>3, <2>4 DEF LockDiscipline
  <1>14. ASSUME NEW t \in Task, LockTimeout(t) PROVE LockDiscipline'
    <2>1. Owners' = Owners /\ UNCHANGED <<sendLock, holder, leaked>>
      BY <1>5, <1>14 DEF LockTimeout, Ends, Idle, Owners
    <2>. QED  BY <2>1 DEF LockDiscipline
  <1>15. ASSUME NEW t \in Task, AllocFails(t) PROVE LockDiscipline'
    <2>1. /\ w[t].at = "take" /\ holder[sendLock] = Nobody /\ Owners' = Owners
          /\ holder' = [holder EXCEPT ![sendLock] = t] /\ leaked' = leaked \union {t}
      BY <1>5, <1>15 DEF AllocFails, LockIsFree, Owners, Ends, Idle
    <2>2. Len(holder') = Len(holder)
      BY <1>4, <2>1, UpdatedSeq
    <2>3. Len(holder) = 1 /\ sendLock = 1 /\ Owners = {}
      BY <1>3, <2>1, <2>2, OwnerHasLock
    <2>4. holder'[1] = t
      BY <1>4, <2>1, <2>3
    <2>. QED  BY <1>4, <2>1, <2>2, <2>3, <2>4 DEF LockDiscipline
  <1>16. ASSUME NEW t \in Task, w[t].at \in {"packet", "repeat", "wait"},
                w' = [w EXCEPT ![t] = Idle], holder' = LockGiven, UNCHANGED leaked
         PROVE  LockDiscipline'
    <2>0. \A u \in Task : w'[u] = IF u = t THEN Idle ELSE w[u]
      BY <1>5, <1>16
    <2>1. holder' = [holder EXCEPT ![sendLock] = Nobody] /\ Len(holder') = Len(holder)
      BY <1>4, <1>16, UpdatedSeq DEF LockGiven
    <2>2. Len(holder) = 1 /\ sendLock = 1 /\ Owners = {t}
      BY <1>3, <1>16, <2>1, OwnerHasLock DEF Owners
    <2>3. holder'[1] = Nobody
      BY <1>4, <2>1, <2>2
    <2>4. Owners' = {}
      BY <2>0, <2>2 DEF Owners, Idle
    <2>. QED  BY <2>1, <2>2, <2>3, <2>4 DEF LockDiscipline
  <1>17. ASSUME Owners' = Owners, UNCHANGED <<sendLock, holder, leaked>> PROVE LockDiscipline'
    BY <1>17 DEF LockDiscipline
  <1>18. ASSUME NEW t \in Task, Send(t) \/ SendRepeat(t) PROVE LockDiscipline'
    <2>1. w[t] \in CallType /\ UNCHANGED <<sendLock, holder, leaked>>
          /\ \E l : w' = [w EXCEPT ![t].at = "wait", ![t].left = l]
          /\ w[t].at \in {"packet", "repeat"}
      BY <1>5, <1>18 DEF Send, SendRepeat, Transmit
    <2>2. w'[t].at = "wait" /\ \A u \in Task : u # t => w'[u] = w[u]
      BY <1>5, <2>1 DEF CallType
    <2>3. Owners' = Owners
      BY <2>1, <2>2 DEF Owners
    <2>. QED  BY <1>17, <2>1, <2>3
  <1>19. ASSUME NEW t \in Task, SendFails(t) PROVE LockDiscipline'
    <2>1. w[t].at \in {"packet", "repeat", "wait"} /\ w' = [w EXCEPT ![t] = Idle]
          /\ holder' = LockGiven /\ UNCHANGED leaked
      BY <1>19 DEF SendFails, Ends
    <2>. QED  BY <1>16, <2>1
  <1>20. ASSUME NEW t \in Task, SendAcked(t) PROVE LockDiscipline'
    <2>1. CASE w[t].idx + 1 < size[w[t].msg]
      <3>1. /\ w[t] \in CallType /\ w[t].at = "wait" /\ UNCHANGED <<sendLock, holder, leaked>>
            /\ w' = [w EXCEPT ![t].at = "packet", ![t].idx = @ + 1]
        BY <1>5, <1>20, <2>1 DEF SendAcked
      <3>2. w'[t].at = "packet" /\ \A u \in Task : u # t => w'[u] = w[u]
        BY <1>5, <3>1 DEF CallType
      <3>3. Owners' = Owners
        BY <3>1, <3>2 DEF Owners
      <3>. QED  BY <1>17, <3>1, <3>3
    <2>2. CASE ~ (w[t].idx + 1 < size[w[t].msg])
      <3>1. w[t].at \in {"packet", "repeat", "wait"} /\ w' = [w EXCEPT ![t] = Idle]
            /\ holder' = LockGiven /\ UNCHANGED leaked
        BY <1>20, <2>2 DEF SendAcked, Ends
      <3>. QED  BY <1>16, <3>1
    <2>. QED  BY <2>1, <2>2
  <1>21. ASSUME NEW t \in Task, SendRefused(t) \/ SendTimeout(t) PROVE LockDiscipline'
    <2>1. w[t].at = "wait" /\ SendAgain(t) /\ UNCHANGED <<sendLock, leaked>>
      BY <1>21 DEF SendRefused, SendTimeout
    <2>2. CASE w[t].left > 1
      <3>1. w[t] \in CallType /\ UNCHANGED holder
            /\ w' = [w EXCEPT ![t].at = "repeat", ![t].left = @ - 1]
        BY <1>5, <2>1, <2>2 DEF SendAgain
      <3>2. w'[t].at = "repeat" /\ \A u \in Task : u # t => w'[u] = w[u]
        BY <1>5, <3>1 DEF CallType
      <3>3. Owners' = Owners
        BY <2>1, <3>2 DEF Owners
      <3>. QED  BY <1>17, <2>1, <3>1, <3>3
    <2>3. CASE ~ (w[t].left > 1)
      <3>1. w[t].at \in {"packet", "repeat", "wait"} /\ w' = [w EXCEPT ![t] = Idle]
            /\ holder' = LockGiven /\ UNCHANGED leaked
        BY <2>1, <2>3 DEF SendAgain, Ends
      <3>. QED  BY <1>16, <3>1
    <2>. QED  BY <2>2, <2>3
  <1>22. ASSUME RadioStep PROVE LockDiscipline'
    BY <1>2, <1>22, RadioSteps DEF writerVars
  <1>23. ASSUME NEW room, ReadCall(room) PROVE LockDiscipline'
    BY <1>2, <1>23 DEF ReadCall, writerVars
  <1>24. ASSUME ReadStep PROVE LockDiscipline'
    BY <1>2, <1>24, ReadSteps DEF writerVars, EspnowTypes
  <1>25. ASSUME UNCHANGED espnowVars PROVE LockDiscipline'
    BY <1>2, <1>25 DEF espnowVars
  <1>26. LockDiscipline'
    BY <1>11, <1>12, <1>13, <1>14, <1>15, <1>18, <1>19, <1>20, <1>21, <1>22, <1>23, <1>24, <1>25
    DEF MespnowNext, WriteStep
  <1>. QED  BY <1>3, <1>26 DEF LockDiscipline

-----------------------------------------------------------------------------
(* What the steps of mespnow_write do to the call, the radio and the result. *)

SameCall(t) == w'[t].msg = w[t].msg /\ w'[t].idx = w[t].idx
Failed(t) ==
  /\ w'[t] = Idle
  /\ \E r \in {"fail", "timeout", "no_mem"} : result' = [result EXCEPT ![w[t].msg] = r]

ComesCloser(t) ==
  /\ w[t].at \in {"create", "take"} /\ UNCHANGED <<air, bits>>
  /\ \/ Failed(t)
     \/ w'[t].at \in {"take", "packet"} /\ SameCall(t) /\ UNCHANGED result
Transmits(t) ==
  /\ w[t].at \in {"packet", "repeat"} /\ w'[t].at = "wait" /\ SameCall(t) /\ UNCHANGED result
  /\ air' = Append(air, Packet(w[t].msg, w[t].idx)) /\ bits' \in {bits, {}}
Fails(t) ==
  /\ w[t].at \in {"packet", "repeat"} /\ Failed(t) /\ UNCHANGED air /\ bits' \in {bits, {}}
GoesOn(t) ==
  /\ w[t].at = "wait" /\ bits # {} /\ "ok" \in bits /\ bits' = {} /\ UNCHANGED air
  /\ \/ w'[t].at = "packet" /\ w'[t].msg = w[t].msg /\ w'[t].idx = w[t].idx + 1 /\ UNCHANGED result
     \/ /\ w[t].idx + 1 >= size[w[t].msg] /\ w'[t] = Idle
        /\ result' = [result EXCEPT ![w[t].msg] = "ok"]
TriesAgain(t) ==
  /\ w[t].at = "wait" /\ bits' = {} /\ UNCHANGED air
  /\ bits = {} => expired'
  /\ \/ Failed(t)
     \/ w'[t].at = "repeat" /\ SameCall(t) /\ UNCHANGED result

LEMMA WriteSteps ==
  ASSUME EspnowTypes, NEW t \in Task, WriteStep(t)
  PROVE  /\ \A u \in Task : u # t => w'[u] = w[u]
         /\ ComesCloser(t) \/ Transmits(t) \/ Fails(t) \/ GoesOn(t) \/ TriesAgain(t)
         /\ UNCHANGED <<reader, size, receiverVars>>
  <1>. USE DEF SameCall, Failed
  <1>1. w \in [Task -> CallType] /\ w[t] \in CallType
    BY DEF EspnowTypes, CallTypes
  <1>2. CASE LockCreate(t)
    BY <1>1, <1>2 DEF LockCreate, ComesCloser, CallType
  <1>3. CASE LockTake(t)
    BY <1>1, <1>3 DEF LockTake, ComesCloser, CallType
  <1>4. CASE LockTimeout(t)
    BY <1>1, <1>4 DEF LockTimeout, Ends, ComesCloser
  <1>5. CASE AllocFails(t)
    BY <1>1, <1>5 DEF AllocFails, Ends, ComesCloser
  <1>6. CASE Send(t)
    BY <1>1, <1>6 DEF Send, Transmit, Transmits, CallType
  <1>7. CASE SendRepeat(t)
    BY <1>1, <1>7 DEF SendRepeat, Transmit, Transmits, CallType
  <1>8. CASE SendFails(t)
    BY <1>1, <1>8 DEF SendFails, Ends, Fails
  <1>9. CASE SendAcked(t)
    <2>1. CASE w[t].idx + 1 < size[w[t].msg]
      BY <1>1, <1>9, <2>1 DEF SendAcked, Acked, GoesOn, CallType
    <2>2. CASE ~ (w[t].idx + 1 < size[w[t].msg])
      <3>1. w[t].idx + 1 >= size[w[t].msg]
        <4>1. w[t].at = "wait" /\ w[t].msg \in Message /\ size \in Seq(EspnowSizes)
          BY <1>9 DEF SendAcked, EspnowTypes, CallTypes
        <4>2. w[t].idx \in Nat
          BY <1>1 DEF CallType
        <4>3. size[w[t].msg] \in EspnowSizes
          BY <4>1 DEF Message
        <4>4. size[w[t].msg] \in Nat
          BY <4>3
        <4>. QED  BY <2>2, <4>2, <4>4
      <3>. QED  BY <1>1, <1>9, <2>2, <3>1 DEF SendAcked, Acked, GoesOn, Ends
    <2>. QED  BY <2>1, <2>2
  <1>10. ASSUME SendAgain(t)
         PROVE  /\ \/ Failed(t)
                   \/ w'[t].at = "repeat" /\ SameCall(t) /\ UNCHANGED result
                /\ \A u \in Task : u # t => w'[u] = w[u]
    <2>1. CASE w[t].left > 1
      BY <1>1, <1>10, <2>1 DEF SendAgain, CallType
    <2>2. CASE ~ (w[t].left > 1)
      <3>1. w' = [w EXCEPT ![t] = Idle] /\ result' = [result EXCEPT ![w[t].msg] = "fail"]
        BY <1>10, <2>2 DEF SendAgain, Ends
      <3>2. w'[t] = Idle /\ \A u \in Task : u # t => w'[u] = w[u]
        BY <1>1, <3>1
      <3>. QED  BY <3>1, <3>2
    <2>. QED  BY <2>1, <2>2
  <1>11. CASE SendRefused(t)
    BY <1>10, <1>11 DEF SendRefused, TriesAgain
  <1>12. CASE SendTimeout(t)
    BY <1>10, <1>12 DEF SendTimeout, TriesAgain
  <1>. QED
    BY <1>2, <1>3, <1>4, <1>5, <1>6, <1>7, <1>8, <1>9, <1>11, <1>12 DEF WriteStep

\* Neither a mutex nor the fact that a wait has expired goes away.
LEMMA NothingIsForgotten ==
  ASSUME EspnowTypes, [MespnowNext]_espnowVars
  PROVE  /\ Len(holder') <= 1 => Len(holder) <= 1
         /\ expired => expired'
  <1>. DEFINE P == (Len(holder') <= 1 => Len(holder) <= 1) /\ (expired => expired')
  <1>1. holder \in Seq(Task \union {Nobody})
    BY DEF EspnowTypes, LockTypes
  <1>2. Len(LockGiven) = Len(holder) /\ \A t \in Task : Len([holder EXCEPT ![sendLock] = t]) = Len(holder)
    BY <1>1, UpdatedSeq DEF LockGiven
  <1>3. ASSUME NEW t \in Task, WriteStep(t) PROVE P
    <2>1. CASE LockCreate(t)
      BY <1>1, <2>1 DEF LockCreate
    <2>2. CASE LockTake(t) \/ AllocFails(t)
      BY <1>2, <2>2 DEF LockTake, AllocFails
    <2>3. CASE LockTimeout(t) \/ Send(t) \/ SendRepeat(t)
      BY <2>3 DEF LockTimeout, Send, SendRepeat, Transmit
    <2>4. CASE SendFails(t) \/ SendAcked(t) \/ SendRefused(t) \/ SendTimeout(t)
      BY <1>2, <2>4 DEF SendFails, SendAcked, SendRefused, SendTimeout, SendAgain
    <2>. QED  BY <1>3, <2>1, <2>2, <2>3, <2>4 DEF WriteStep
  <1>4. ASSUME NEW t \in Task, NEW n \in EspnowSizes, WriteCall(t, n) PROVE P
    BY <1>4 DEF WriteCall
  <1>5. CASE RadioStep
    BY <1>5, RadioSteps DEF writerVars
  <1>6. ASSUME NEW room, ReadCall(room) PROVE P
    BY <1>6 DEF ReadCall, writerVars
  <1>7. CASE ReadStep
    BY <1>7, ReadSteps DEF writerVars, EspnowTypes
  <1>8. CASE UNCHANGED espnowVars
    BY <1>8 DEF espnowVars
  <1>. QED  BY <1>3, <1>4, <1>5, <1>6, <1>7, <1>8 DEF MespnowNext

-----------------------------------------------------------------------------
(* MDF_OK. *)

MagicAt(t) == [msg |-> w[t].msg, idx |-> w[t].idx]

\* While one task sends no other one waits for the radio.
LEMMA OneOwner ==
  ASSUME EspnowTypes, LockDiscipline, Len(holder) <= 1, NEW t \in Owners
  PROVE  Owners = {t} /\ \A u \in Task : u # t => w[u].at \notin {"packet", "repeat", "wait"}
  BY OwnerHasLock DEF Owners

LEMMA WriteStepKeepsHeard ==
  ASSUME EspnowTypes, LockDiscipline, SentIsHeard, ~ expired, Len(holder) <= 1,
         NEW t \in Task, WriteStep(t), ~ expired'
  PROVE  SentIsHeard'
  <1>1. /\ \A u \in Task : u # t => w'[u] = w[u]
        /\ ComesCloser(t) \/ Transmits(t) \/ Fails(t) \/ GoesOn(t) \/ TriesAgain(t)
        /\ UNCHANGED <<size, heard>>
    BY WriteSteps DEF receiverVars
  <1>2. /\ bits # {} => air = <<>>
        /\ \A u \in Owners : \A i \in 0 .. w[u].idx - 1 : [msg |-> w[u].msg, idx |-> i] \in heard
        /\ air # <<>> \/ bits # {} => \E u \in Task : w[u].at = "wait"
        /\ \A u \in Task : w[u].at = "wait" => air \in {<<>>, <<Packet(w[u].msg, w[u].idx)>>}
        /\ \A u \in Task : w[u].at = "wait" /\ "ok" \in bits => MagicAt(u) \in heard
    BY DEF SentIsHeard, MagicAt
  <1>3. \A m, i : Packet(m, i)' = Packet(m, i)
    BY <1>1 DEF Packet
  <1>4. \A u \in Task : w[u].idx \in Nat
    BY DEF EspnowTypes, CallTypes, CallType
  <1>5. SUFFICES
          /\ bits' # {} => air' = <<>>
          /\ \A u \in Owners' : \A i \in 0 .. w'[u].idx - 1 : [msg |-> w'[u].msg, idx |-> i] \in heard'
          /\ air' # <<>> \/ bits' # {} => \E u \in Task : w'[u].at = "wait"
          /\ \A u \in Task : w'[u].at = "wait" => air' \in {<<>>, <<Packet(w'[u].msg, w'[u].idx)>>}
          /\ \A u \in Task : w'[u].at = "wait" /\ "ok" \in bits' =>
                               [msg |-> w'[u].msg, idx |-> w'[u].idx] \in heard'
    BY <1>3 DEF SentIsHeard
  <1>. USE <1>1, <1>2, <1>4 DEF Owners, MagicAt, Failed, SameCall, Idle
  <1>6. CASE ComesCloser(t)
    <2>1. w[t].at \in {"create", "take"} /\ w[t].idx = 0
      BY <1>6 DEF ComesCloser, EspnowTypes, CallTypes
    <2>. QED  BY <1>6, <2>1 DEF ComesCloser
  <1>7. ASSUME w[t].at \in {"packet", "repeat"}
        PROVE  /\ air = <<>> /\ bits = {}
               /\ \A u \in Task : u # t => w[u].at \notin {"packet", "repeat", "wait"}
    BY <1>7, OneOwner
  <1>8. CASE Transmits(t)
    <2>1. air = <<>> /\ air' = Append(air, Packet(w[t].msg, w[t].idx)) /\ bits' = {}
      BY <1>7, <1>8 DEF Transmits
    <2>2. \A p : Append(<<>>, p) = <<p>>
      OBVIOUS
    <2>3. air' = <<Packet(w[t].msg, w[t].idx)>>
      BY <2>1, <2>2
    <2>. QED  BY <1>7, <1>8, <2>1, <2>3 DEF Transmits
  <1>9. CASE Fails(t)
    <2>1. air' = <<>> /\ bits' = {}
      BY <1>7, <1>9 DEF Fails
    <2>. QED  BY <2>1, <1>7, <1>9 DEF Fails
  <1>10. CASE GoesOn(t)
    <2>1. /\ \A u \in Task : u # t => w[u].at \notin {"packet", "repeat", "wait"}
          /\ air' = <<>> /\ bits' = {} /\ MagicAt(t) \in heard
      BY <1>10, OneOwner DEF GoesOn
    <2>2. CASE w'[t].at = "packet" /\ w'[t].msg = w[t].msg /\ w'[t].idx = w[t].idx + 1
      BY <1>10, <2>1, <2>2 DEF GoesOn
    <2>3. CASE w'[t] = Idle
      BY <1>10, <2>1, <2>3 DEF GoesOn
    <2>. QED  BY <1>10, <2>2, <2>3 DEF GoesOn
  <1>11. CASE TriesAgain(t)
    <2>1. /\ \A u \in Task : u # t => w[u].at \notin {"packet", "repeat", "wait"}
          /\ air' = <<>> /\ bits' = {}
      BY <1>11, OneOwner DEF TriesAgain
    <2>2. w'[t] = Idle \/ (w'[t].at = "repeat" /\ SameCall(t))
      BY <1>11 DEF TriesAgain
    <2>. QED  BY <1>11, <2>1, <2>2 DEF TriesAgain
  <1>. QED  BY <1>6, <1>8, <1>9, <1>10, <1>11

LEMMA SentIsHeardStep ==
  ASSUME EspnowTypes, LockDiscipline, SentIsHeard, [MespnowNext]_espnowVars
  PROVE  SentIsHeard'
  <1>1. SUFFICES ASSUME ~ expired', Len(holder') <= 1 PROVE SentIsHeard'
    BY DEF SentIsHeard
  <1>2. ~ expired /\ Len(holder) <= 1
    BY <1>1, NothingIsForgotten
  <1>3. CASE UNCHANGED <<w, size, air, bits, heard>>
    BY <1>2, <1>3 DEF SentIsHeard, Owners, Packet
  <1>4. ASSUME NEW t \in Task, WriteStep(t) PROVE SentIsHeard'
    BY <1>1, <1>2, <1>4, WriteStepKeepsHeard
  <1>5. ASSUME NEW t \in Task, NEW n \in EspnowSizes, WriteCall(t, n) PROVE SentIsHeard'
    <2>1. /\ \A u \in Task : u # t => w'[u] = w[u]
          /\ w[t].at = "idle" /\ w'[t].at \in {"create", "take"}
          /\ size' = Append(size, n) /\ UNCHANGED <<air, bits, heard>>
      BY <1>5 DEF WriteCall, EspnowTypes, CallTypes, receiverVars
    <2>2. \A u \in Task : w'[u].at = "wait" =>
            w[u].at = "wait" /\ w'[u] = w[u] /\ Packet(w[u].msg, w[u].idx)' = Packet(w[u].msg, w[u].idx)
      BY <2>1 DEF EspnowTypes, CallTypes, Packet, Message
    <2>3. \A u \in Owners' : u \in Owners /\ w'[u] = w[u]
      BY <2>1 DEF Owners
    <2>4. \A u \in Task : w[u].at = "wait" => w'[u].at = "wait"
      BY <2>1
    <2>. QED  BY <1>2, <2>1, <2>2, <2>3, <2>4 DEF SentIsHeard
  <1>6. CASE RadioStep
    <2>1. /\ air # <<>> /\ air' = Tail(air) /\ UNCHANGED <<w, size>>
          /\ \/ bits' = bits \union {"ok"} /\ heard' = heard \union {MagicOf(Head(air))}
             \/ bits' = bits \union {"fail"} /\ heard \subseteq heard'
      BY <1>6, RadioSteps DEF writerVars
    <2>2. PICK t \in Task : w[t].at = "wait" /\ air = <<Packet(w[t].msg, w[t].idx)>> /\ bits = {}
      BY <1>2, <2>1 DEF SentIsHeard
    <2>3. \A u \in Task : u # t => w[u].at # "wait"
      BY <1>2, <2>2, OneOwner DEF Owners
    <2>4. air' = <<>> /\ MagicOf(Head(air)) = MagicAt(t)
      BY <2>1, <2>2 DEF MagicOf, MagicAt, Packet
    <2>. QED  BY <1>2, <2>1, <2>2, <2>3, <2>4 DEF SentIsHeard, Owners, MagicAt
  <1>7. ASSUME NEW room, ReadCall(room) PROVE SentIsHeard'
    BY <1>3, <1>7 DEF ReadCall, writerVars, receiverVars
  <1>8. CASE ReadStep
    BY <1>3, <1>8, ReadSteps DEF writerVars, EspnowTypes
  <1>9. CASE UNCHANGED espnowVars
    BY <1>3, <1>9 DEF espnowVars
  <1>. QED  BY <1>4, <1>5, <1>6, <1>7, <1>8, <1>9 DEF MespnowNext

LEMMA OkMeansHeardStep ==
  ASSUME EspnowTypes, LockDiscipline, SentIsHeard, OkMeansHeard, [MespnowNext]_espnowVars
  PROVE  OkMeansHeard'
  <1>1. SUFFICES ASSUME ~ expired', Len(holder') <= 1, NEW m \in Message', result'[m] = "ok"
                 PROVE  \A i \in 0 .. size'[m] - 1 : [msg |-> m, idx |-> i] \in heard'
    BY DEF OkMeansHeard
  <1>2. ~ expired /\ Len(holder) <= 1
    BY <1>1, NothingIsForgotten
  <1>3. /\ size \in Seq(EspnowSizes) /\ Len(result) = Len(size)
        /\ result \in Seq({"open", "ok", "fail", "timeout", "no_mem"})
    BY DEF EspnowTypes, CallTypes
  <1>4. ASSUME m \in Message, result[m] = "ok", size'[m] = size[m], heard \subseteq heard'
        PROVE  \A i \in 0 .. size'[m] - 1 : [msg |-> m, idx |-> i] \in heard'
    BY <1>2, <1>4 DEF OkMeansHeard
  <1>5. CASE UNCHANGED <<size, result>> /\ heard \subseteq heard'
    BY <1>1, <1>4, <1>5 DEF Message
  <1>6. ASSUME NEW t \in Task, NEW n \in EspnowSizes, WriteCall(t, n)
        PROVE  \A i \in 0 .. size'[m] - 1 : [msg |-> m, idx |-> i] \in heard'
    <2>1. size' = Append(size, n) /\ result' = Append(result, "open") /\ UNCHANGED heard
      BY <1>6 DEF WriteCall, receiverVars
    <2>2. m \in Message /\ result[m] = "ok" /\ size'[m] = size[m]
      BY <1>1, <1>3, <2>1 DEF Message
    <2>. QED  BY <1>4, <2>1, <2>2
  <1>7. ASSUME NEW t \in Task, WriteStep(t)
        PROVE  \A i \in 0 .. size'[m] - 1 : [msg |-> m, idx |-> i] \in heard'
    <2>1. ComesCloser(t) \/ Transmits(t) \/ Fails(t) \/ GoesOn(t) \/ TriesAgain(t)
      BY <1>7, WriteSteps
    <2>2. UNCHANGED <<size, heard>>
      BY <1>7, WriteSteps DEF receiverVars
    <2>3. CASE UNCHANGED result
      BY <1>5, <2>2, <2>3
    <2>4. CASE Failed(t)
      <3>1. PICK r \in {"fail", "timeout", "no_mem"} : result' = [result EXCEPT ![w[t].msg] = r]
        BY <2>4 DEF Failed
      <3>2. m \in Message /\ result[m] = "ok"
        BY <1>1, <1>3, <2>2, <3>1 DEF Message
      <3>. QED  BY <1>4, <2>2, <3>2
    <2>5. CASE GoesOn(t) /\ result' = [result EXCEPT ![w[t].msg] = "ok"]
                /\ w[t].idx + 1 >= size[w[t].msg]
      <3>1. CASE m = w[t].msg
        <4>1. \A i \in 0 .. w[t].idx : [msg |-> m, idx |-> i] \in heard
          <5>1. w[t].at = "wait" /\ "ok" \in bits /\ t \in Owners /\ w[t].idx \in Nat
            BY <2>5 DEF GoesOn, Owners, EspnowTypes, CallTypes, CallType
          <5>. QED  BY <1>2, <3>1, <5>1 DEF SentIsHeard
        <4>2. size[m] \in EspnowSizes
          BY <1>1, <1>3, <2>2 DEF Message
        <4>3. size[m] \in Nat
          BY <4>2
        <4>4. w[t].idx \in Nat
          BY DEF EspnowTypes, CallTypes, CallType
        <4>. QED  BY <2>2, <2>5, <3>1, <4>1, <4>3, <4>4
      <3>2. CASE m # w[t].msg
        <4>1. m \in Message /\ result[m] = "ok"
          BY <1>1, <1>3, <2>2, <2>5, <3>2 DEF Message
        <4>. QED  BY <1>4, <2>2, <4>1
      <3>. QED  BY <3>1, <3>2
    <2>. QED
      BY <2>1, <2>3, <2>4, <2>5 DEF ComesCloser, Transmits, Fails, GoesOn, TriesAgain
  <1>8. CASE RadioStep
    <2>1. UNCHANGED <<size, result>> /\ heard \subseteq heard'
      BY <1>8, RadioSteps DEF writerVars
    <2>. QED  BY <1>5, <2>1
  <1>9. ASSUME NEW room, ReadCall(room)
        PROVE  \A i \in 0 .. size'[m] - 1 : [msg |-> m, idx |-> i] \in heard'
    BY <1>5, <1>9 DEF ReadCall, writerVars, receiverVars
  <1>10. CASE ReadStep
    BY <1>5, <1>10, ReadSteps DEF writerVars, EspnowTypes
  <1>11. CASE UNCHANGED espnowVars
    BY <1>5, <1>11 DEF espnowVars
  <1>. QED  BY <1>6, <1>7, <1>8, <1>9, <1>10, <1>11 DEF MespnowNext

-----------------------------------------------------------------------------
(* Two messages are mixed only where packets of both were lost. *)

\* What is in the air or being written is not over.
LEMMA CallStarts ==
  ASSUME EspnowTypes, Len(holder) <= 1, OneAtATime,
         NEW t \in Task, NEW n \in EspnowSizes, WriteCall(t, n)
  PROVE  OneAtATime'
  <1>1. /\ w[t].at = "idle" /\ w'[t].at \in {"create", "take"} /\ w'[t].msg = Len(size) + 1
        /\ \A u \in Task : u # t => w'[u] = w[u]
        /\ UNCHANGED <<air, lastMagic, accepted, pipe, reader>>
    BY DEF WriteCall, EspnowTypes, CallTypes, receiverVars
  <1>2. AirInOrder /\ SenderIsLast /\ AcceptedIsPast /\ StreamInOrder
    BY DEF OneAtATime
  <1>3. AirInOrder'
    BY <1>1, <1>2 DEF AirInOrder
  <1>4. /\ \A i \in 1 .. Len(air) : air[i].msg \in Message
        /\ \A a \in accepted : a.msg \in Message
        /\ lastMagic.msg \in 0 .. Len(size) /\ Len(size) \in Nat
    BY DEF EspnowTypes, RadioTypes, AllSent, Sent, CallTypes
  <1>5. SenderIsLast'
    <2>1. Unsent(w'[t].msg)
      BY <1>1, <1>4 DEF Unsent, Message
    <2>. QED  BY <1>1, <1>2, <2>1 DEF SenderIsLast, Unsent, Owners
  <1>6. AcceptedIsPast'
    <2>1. \A a \in accepted : Over(a.msg) => Over(a.msg)'
      BY <1>1, <1>4 DEF Over, Message
    <2>. QED  BY <1>1, <1>2, <2>1 DEF AcceptedIsPast
  <1>7. StreamInOrder'
    BY <1>1, <1>2 DEF StreamInOrder
  <1>. QED  BY <1>3, <1>5, <1>6, <1>7 DEF OneAtATime

\* A packet goes into the air behind those of its message.
LEMMA PacketFollows ==
  ASSUME EspnowTypes, AirInOrder, SenderIsLast, AcceptedIsPast,
         NEW t \in Owners, air' = Append(air, Packet(w[t].msg, w[t].idx)),
         UNCHANGED lastMagic
  PROVE  /\ AirInOrder'
         /\ \A i \in 1 .. Len(air') : air'[i].msg = w[t].msg =>
              air'[i].idx <= w[t].idx /\ \A j \in i .. Len(air') : air'[j].msg = w[t].msg
         /\ lastMagic.msg = w[t].msg => \A j \in 1 .. Len(air') : air'[j].msg = w[t].msg
         /\ \A i \in 1 .. Len(air') : \/ i \in 1 .. Len(air) /\ air'[i] = air[i]
                                      \/ air'[i].msg = w[t].msg
  <1>. DEFINE p == Packet(w[t].msg, w[t].idx)
              n == Len(air)
  <1>1. p.msg = w[t].msg /\ p.idx = w[t].idx /\ p.idx \in Int
    BY DEF Packet, Owners, EspnowTypes, CallTypes, CallType
  <1>2. AllSent(air) /\ Sent(p)
    BY PacketIsSent DEF EspnowTypes, RadioTypes, Owners
  <1>3. Len(air') = n + 1 /\ n \in Nat /\ air'[n + 1] = p /\ \A i \in 1 .. n : air'[i] = air[i]
    BY <1>2, OneMore DEF AllSent
  <1>4. /\ \A i \in 1 .. n : air[i].msg = p.msg =>
             air[i].idx <= p.idx /\ \A j \in i .. n : air[j].msg = p.msg
        /\ lastMagic.msg = p.msg => lastMagic.idx <= p.idx /\ \A j \in 1 .. n : air[j].msg = p.msg
    BY <1>1 DEF SenderIsLast
  <1>5. /\ \A i, k \in 1 .. n : i <= k /\ air[i].msg = air[k].msg =>
             air[i].idx <= air[k].idx /\ \A j \in i .. k : air[j].msg = air[k].msg
        /\ \A k \in 1 .. n : lastMagic.msg = air[k].msg =>
             lastMagic.idx <= air[k].idx /\ \A j \in 1 .. k : air[j].msg = air[k].msg
    BY DEF AirInOrder
  <1>. HIDE DEF p, n
  <1>6. \A i \in 1 .. n + 1 : i \in 1 .. n \/ i = n + 1
    BY <1>3
  <1>7. \A i \in 1 .. n + 1 : air'[i].msg = p.msg =>
          air'[i].idx <= p.idx /\ \A j \in i .. n + 1 : air'[j].msg = p.msg
    BY <1>1, <1>3, <1>4, <1>6
  <1>8. \A i, k \in 1 .. n + 1 : i <= k /\ air'[i].msg = air'[k].msg =>
          air'[i].idx <= air'[k].idx /\ \A j \in i .. k : air'[j].msg = air'[k].msg
    <2>. SUFFICES ASSUME NEW i \in 1 .. n + 1, NEW k \in 1 .. n + 1, i <= k, air'[i].msg = air'[k].msg
                  PROVE  air'[i].idx <= air'[k].idx /\ \A j \in i .. k : air'[j].msg = air'[k].msg
      OBVIOUS
    <2>1. CASE k = n + 1
      BY <1>3, <1>7, <2>1
    <2>2. CASE k \in 1 .. n
      <3>1. i \in 1 .. n /\ \A j \in i .. k : j \in 1 .. n
        BY <1>3, <2>2
      <3>. QED  BY <1>3, <1>5, <2>2, <3>1
    <2>. QED  BY <1>6, <2>1, <2>2
  <1>9. lastMagic.msg = p.msg => \A j \in 1 .. n + 1 : air'[j].msg = p.msg
    BY <1>3, <1>4, <1>6
  <1>10. \A k \in 1 .. n + 1 : lastMagic.msg = air'[k].msg =>
           lastMagic.idx <= air'[k].idx /\ \A j \in 1 .. k : air'[j].msg = air'[k].msg
    <2>. SUFFICES ASSUME NEW k \in 1 .. n + 1, lastMagic.msg = air'[k].msg
                  PROVE  lastMagic.idx <= air'[k].idx /\ \A j \in 1 .. k : air'[j].msg = air'[k].msg
      OBVIOUS
    <2>1. CASE k = n + 1
      BY <1>3, <1>4, <1>9, <2>1
    <2>2. CASE k \in 1 .. n
      <3>1. \A j \in 1 .. k : j \in 1 .. n
        BY <1>3, <2>2
      <3>. QED  BY <1>3, <1>5, <2>2, <3>1
    <2>. QED  BY <1>6, <2>1, <2>2
  <1>11. AirInOrder'
    BY <1>3, <1>8, <1>10 DEF AirInOrder
  <1>. QED  BY <1>1, <1>3, <1>6, <1>7, <1>9, <1>11

LEMMA CallProceeds ==
  ASSUME EspnowTypes, LockDiscipline, Len(holder) <= 1, OneAtATime, NEW t \in Task, WriteStep(t)
  PROVE  OneAtATime'
  <1>1. /\ \A u \in Task : u # t => w'[u] = w[u]
        /\ ComesCloser(t) \/ Transmits(t) \/ Fails(t) \/ GoesOn(t) \/ TriesAgain(t)
        /\ UNCHANGED <<lastMagic, accepted, pipe, reader>>
    BY WriteSteps DEF receiverVars
  <1>2. AirInOrder /\ SenderIsLast /\ AcceptedIsPast /\ StreamInOrder
    BY DEF OneAtATime
  <1>3. StreamInOrder'
    BY <1>1, <1>2 DEF StreamInOrder
  <1>4. w'[t].at # "idle" => w[t].at # "idle" /\ w'[t].msg = w[t].msg
    BY <1>1 DEF ComesCloser, Transmits, Fails, GoesOn, TriesAgain, Failed, SameCall, Idle
  <1>5. w[t].idx \in Nat
    BY DEF EspnowTypes, CallTypes, CallType
  <1>6. CASE UNCHANGED air
    <2>1. AirInOrder'
      BY <1>1, <1>2, <1>6 DEF AirInOrder
    <2>2. w'[t].at \in {"create", "take"} => w[t].at \in {"create", "take"}
      BY <1>1 DEF ComesCloser, Transmits, Fails, GoesOn, TriesAgain, Failed, SameCall, Idle
    <2>3. t \in Owners' => /\ t \in Owners \/ w[t].at \in {"create", "take"}
                           /\ w[t].idx <= w'[t].idx /\ w'[t].idx \in Nat
      BY <1>1, <1>5
      DEF ComesCloser, Transmits, Fails, GoesOn, TriesAgain, Failed, SameCall, Idle, Owners
    <2>4. \A u \in Task : w'[u].at \in {"create", "take"} => Unsent(w[u].msg)'
      BY <1>1, <1>2, <1>4, <1>6, <2>2 DEF SenderIsLast, Unsent
    <2>5. ASSUME NEW u \in Owners'
          PROVE  /\ \A i \in 1 .. Len(air) : air[i].msg = w'[u].msg =>
                      air[i].idx <= w'[u].idx /\ \A j \in i .. Len(air) : air[j].msg = w'[u].msg
                 /\ lastMagic.msg = w'[u].msg =>
                      lastMagic.idx <= w'[u].idx /\ \A j \in 1 .. Len(air) : air[j].msg = w'[u].msg
      <3>1. CASE u # t
        <4>1. u \in Owners /\ w'[u] = w[u]
          BY <1>1, <3>1 DEF Owners
        <4>. QED  BY <1>2, <4>1 DEF SenderIsLast
      <3>2. CASE u = t /\ t \in Owners
        <4>1. /\ \A i \in 1 .. Len(air) : air[i].idx \in Nat
              /\ lastMagic.idx \in Nat
          BY DEF EspnowTypes, RadioTypes, AllSent, Sent, PacketType, MagicNumber
        <4>2. w'[t].msg = w[t].msg /\ w[t].idx <= w'[t].idx /\ w'[t].idx \in Nat
          BY <1>4, <2>3, <3>2 DEF Owners
        <4>3. /\ \A i \in 1 .. Len(air) : air[i].msg = w[t].msg =>
                   air[i].idx <= w[t].idx /\ \A j \in i .. Len(air) : air[j].msg = w[t].msg
              /\ lastMagic.msg = w[t].msg =>
                   lastMagic.idx <= w[t].idx /\ \A j \in 1 .. Len(air) : air[j].msg = w[t].msg
          BY <1>2, <3>2 DEF SenderIsLast
        <4>. QED  BY <1>5, <3>2, <4>1, <4>2, <4>3
      <3>3. CASE u = t /\ w[t].at \in {"create", "take"}
        <4>1. Unsent(w'[t].msg)
          BY <1>2, <1>4, <3>3 DEF SenderIsLast, Owners
        <4>. QED  BY <3>3, <4>1 DEF Unsent
      <3>. QED  BY <2>3, <3>1, <3>2, <3>3
    <2>6. SenderIsLast'
      BY <1>1, <1>6, <2>4, <2>5 DEF SenderIsLast
    <2>7. \A m : Over(m) => Over(m)'
      BY <1>1, <1>4, <1>6 DEF Over
    <2>8. AcceptedIsPast'
      BY <1>1, <1>2, <2>7 DEF AcceptedIsPast
    <2>. QED  BY <1>3, <2>1, <2>6, <2>8 DEF OneAtATime
  <1>7. CASE Transmits(t)
    <2>1. /\ t \in Owners /\ air' = Append(air, Packet(w[t].msg, w[t].idx)) /\ w'[t].at = "wait"
          /\ w'[t].msg = w[t].msg /\ w'[t].idx = w[t].idx
      BY <1>7 DEF Transmits, SameCall, Owners
    <2>2. /\ AirInOrder'
          /\ \A i \in 1 .. Len(air') : air'[i].msg = w[t].msg =>
               air'[i].idx <= w[t].idx /\ \A j \in i .. Len(air') : air'[j].msg = w[t].msg
          /\ lastMagic.msg = w[t].msg => \A j \in 1 .. Len(air') : air'[j].msg = w[t].msg
          /\ \A i \in 1 .. Len(air') : \/ i \in 1 .. Len(air) /\ air'[i] = air[i]
                                       \/ air'[i].msg = w[t].msg
      BY <1>1, <1>2, <2>1, PacketFollows
    <2>3. Owners' = {t}
      BY <1>1, <2>1, OneOwner DEF Owners
    <2>4. \A u \in Task : w'[u].at \in {"create", "take"} => Unsent(w[u].msg)'
      <3>. SUFFICES ASSUME NEW u \in Task, w'[u].at \in {"create", "take"} PROVE Unsent(w[u].msg)'
        OBVIOUS
      <3>1. u # t /\ w'[u] = w[u] /\ Unsent(w[u].msg)
        BY <1>1, <1>2, <2>1 DEF SenderIsLast
      <3>2. w[u].msg # w[t].msg
        BY <2>1, <3>1 DEF EspnowTypes, CallTypes, Owners
      <3>. QED  BY <1>1, <2>2, <3>1, <3>2 DEF Unsent
    <2>5. SenderIsLast'
      <3>1. lastMagic.msg = w[t].msg => lastMagic.idx <= w[t].idx
        BY <1>2, <2>1 DEF SenderIsLast
      <3>. QED  BY <1>1, <2>1, <2>2, <2>3, <2>4, <3>1 DEF SenderIsLast
    <2>6. \A m : Over(m) => Over(m)'
      BY <1>1, <1>4, <2>1, <2>2 DEF Over, Owners
    <2>7. AcceptedIsPast'
      BY <1>1, <1>2, <2>6 DEF AcceptedIsPast
    <2>. QED  BY <1>3, <2>2, <2>5, <2>7 DEF OneAtATime
  <1>. QED  BY <1>1, <1>6, <1>7 DEF ComesCloser, Fails, GoesOn, TriesAgain

\* The head of the air follows what was received, and goes away.
LEMMA HeadFollows ==
  ASSUME EspnowTypes, AirInOrder, SenderIsLast, AcceptedIsPast, air # <<>>, air' = Tail(air),
         lastMagic' \in {lastMagic, MagicOf(Head(air))}, UNCHANGED w
  PROVE  /\ AirInOrder'
         /\ \A a \in accepted : a.msg = Head(air).msg =>
              a.msg = lastMagic.msg /\ a.idx <= lastMagic.idx /\ lastMagic.idx <= Head(air).idx
         /\ \A a \in accepted : IF a.msg = lastMagic'.msg THEN a.idx <= lastMagic'.idx
                                                         ELSE Over(a.msg)'
         /\ \A u \in Owners :
              /\ \A i \in 1 .. Len(air') : air'[i].msg = w[u].msg =>
                   air'[i].idx <= w[u].idx /\ \A j \in i .. Len(air') : air'[j].msg = w[u].msg
              /\ lastMagic'.msg = w[u].msg =>
                   lastMagic'.idx <= w[u].idx /\ \A j \in 1 .. Len(air') : air'[j].msg = w[u].msg
  <1>. DEFINE p == Head(air)
              n == Len(air)
  <1>1. AllSent(air)
    BY DEF EspnowTypes, RadioTypes
  <1>2. /\ n \in Nat /\ n >= 1 /\ Len(air') = n - 1 /\ air[1] = p
        /\ \A i \in 1 .. n - 1 : air'[i] = air[i + 1] /\ i + 1 \in 1 .. n
    BY <1>1, HeadAndTail DEF AllSent
  <1>3. MagicOf(p).msg = p.msg /\ MagicOf(p).idx = p.idx
    BY DEF MagicOf
  <1>4. /\ \A i, k \in 1 .. n : i <= k /\ air[i].msg = air[k].msg =>
             air[i].idx <= air[k].idx /\ \A j \in i .. k : air[j].msg = air[k].msg
        /\ \A k \in 1 .. n : lastMagic.msg = air[k].msg =>
             lastMagic.idx <= air[k].idx /\ \A j \in 1 .. k : air[j].msg = air[k].msg
    BY DEF AirInOrder
  <1>5. \A u \in Owners :
          /\ \A i \in 1 .. n : air[i].msg = w[u].msg =>
               air[i].idx <= w[u].idx /\ \A j \in i .. n : air[j].msg = w[u].msg
          /\ lastMagic.msg = w[u].msg =>
               lastMagic.idx <= w[u].idx /\ \A j \in 1 .. n : air[j].msg = w[u].msg
    BY DEF SenderIsLast
  <1>6. \A a \in accepted : IF a.msg = lastMagic.msg THEN a.idx <= lastMagic.idx ELSE Over(a.msg)
    BY DEF AcceptedIsPast
  <1>7. \A a \in accepted : a.idx \in Nat
    BY DEF EspnowTypes, RadioTypes, MagicNumber
  <1>8. lastMagic.idx \in Nat /\ \A i \in 1 .. n : air[i].idx \in Nat
    BY <1>1 DEF EspnowTypes, RadioTypes, MagicNumber, AllSent, Sent, PacketType
  <1>. HIDE DEF p, n
  <1>9. /\ \A i, k \in 1 .. n - 1 : i <= k /\ air'[i].msg = air'[k].msg =>
             air'[i].idx <= air'[k].idx /\ \A j \in i .. k : air'[j].msg = air'[k].msg
        /\ \A k \in 1 .. n - 1 : lastMagic'.msg = air'[k].msg =>
             lastMagic'.idx <= air'[k].idx /\ \A j \in 1 .. k : air'[j].msg = air'[k].msg
    <2>1. \A i, k \in 1 .. n - 1 : i <= k /\ air'[i].msg = air'[k].msg =>
            air'[i].idx <= air'[k].idx /\ \A j \in i .. k : air'[j].msg = air'[k].msg
      <3>. SUFFICES ASSUME NEW i \in 1 .. n - 1, NEW k \in 1 .. n - 1, i <= k, air'[i].msg = air'[k].msg
                    PROVE  air'[i].idx <= air'[k].idx /\ \A j \in i .. k : air'[j].msg = air'[k].msg
        OBVIOUS
      <3>1. /\ air'[i] = air[i + 1] /\ air'[k] = air[k + 1] /\ i + 1 \in 1 .. n /\ k + 1 \in 1 .. n
            /\ i + 1 <= k + 1
        BY <1>2
      <3>2. \A j \in i .. k : air'[j] = air[j + 1] /\ j + 1 \in (i + 1) .. (k + 1)
        BY <1>2
      <3>3. air[i + 1].msg = air[k + 1].msg
        BY <3>1
      <3>4. /\ air[i + 1].idx <= air[k + 1].idx
            /\ \A j \in (i + 1) .. (k + 1) : air[j].msg = air[k + 1].msg
        BY <1>4, <3>1, <3>3
      <3>. QED  BY <3>1, <3>2, <3>4
    <2>2. \A k \in 1 .. n - 1 : lastMagic'.msg = air'[k].msg =>
            lastMagic'.idx <= air'[k].idx /\ \A j \in 1 .. k : air'[j].msg = air'[k].msg
      <3>. SUFFICES ASSUME NEW k \in 1 .. n - 1, lastMagic'.msg = air'[k].msg
                    PROVE  lastMagic'.idx <= air'[k].idx /\ \A j \in 1 .. k : air'[j].msg = air'[k].msg
        OBVIOUS
      <3>1. air'[k] = air[k + 1] /\ k + 1 \in 1 .. n /\ 1 \in 1 .. n /\ 1 <= k + 1
        BY <1>2
      <3>2. \A j \in 1 .. k : air'[j] = air[j + 1] /\ j + 1 \in 1 .. (k + 1)
        BY <1>2
      <3>3. CASE lastMagic' = lastMagic
        <4>1. /\ lastMagic.idx <= air[k + 1].idx
              /\ \A j \in 1 .. (k + 1) : air[j].msg = air[k + 1].msg
          BY <1>4, <3>1, <3>3
        <4>. QED  BY <3>1, <3>2, <3>3, <4>1
      <3>4. CASE lastMagic' = MagicOf(p)
        BY <1>2, <1>3, <1>4, <3>1, <3>2, <3>4
      <3>. QED  BY <3>3, <3>4 DEF p
    <2>. QED  BY <2>1, <2>2
  <1>10. AirInOrder'
    BY <1>2, <1>9 DEF AirInOrder
  <1>11. \A a \in accepted : a.msg = p.msg =>
           a.msg = lastMagic.msg /\ a.idx <= lastMagic.idx /\ lastMagic.idx <= p.idx
    BY <1>2, <1>4, <1>6 DEF Over, n
  <1>12. \A m : Over(m) => Over(m)'
    BY <1>2 DEF Over, n
  <1>13. \A a \in accepted : IF a.msg = lastMagic'.msg THEN a.idx <= lastMagic'.idx ELSE Over(a.msg)'
    <2>1. CASE lastMagic' = lastMagic
      BY <1>6, <1>12, <2>1
    <2>2. CASE lastMagic' = MagicOf(p)
      <3>. SUFFICES ASSUME NEW a \in accepted
                    PROVE  IF a.msg = p.msg THEN a.idx <= p.idx ELSE Over(a.msg)'
        BY <1>3, <2>2
      <3>1. CASE a.msg = p.msg
        BY <1>2, <1>7, <1>8, <1>11, <3>1
      <3>2. CASE a.msg # p.msg /\ a.msg # lastMagic.msg
        BY <1>6, <1>12, <3>2
      <3>3. CASE a.msg # p.msg /\ a.msg = lastMagic.msg
        <4>1. \A i \in 1 .. n : air[i].msg # a.msg
          BY <1>2, <1>4, <3>3
        <4>2. \A u \in Task : w[u].at # "idle" => w[u].msg # a.msg
          <5>. SUFFICES ASSUME NEW u \in Task, w[u].at # "idle", w[u].msg = a.msg PROVE FALSE
            OBVIOUS
          <5>1. CASE u \in Owners
            BY <1>2, <1>5, <3>3, <5>1
          <5>2. CASE w[u].at \in {"create", "take"}
            BY <3>3, <5>2 DEF SenderIsLast, Unsent
          <5>3. w[u] \in CallType
            BY DEF EspnowTypes, CallTypes
          <5>4. w[u].at \in CallPlaces
            BY <5>3 DEF CallType
          <5>. QED  BY <5>1, <5>2, <5>4 DEF Owners, CallPlaces
        <4>3. Over(a.msg)
          BY <4>1, <4>2 DEF Over, n
        <4>. QED  BY <1>12, <3>3, <4>3
      <3>. QED  BY <3>1, <3>2, <3>3
    <2>. QED  BY <2>1, <2>2 DEF p
  <1>14. ASSUME NEW u \in Owners
         PROVE  /\ \A i \in 1 .. n - 1 : air'[i].msg = w[u].msg =>
                     air'[i].idx <= w[u].idx /\ \A j \in i .. n - 1 : air'[j].msg = w[u].msg
                /\ lastMagic'.msg = w[u].msg =>
                     lastMagic'.idx <= w[u].idx /\ \A j \in 1 .. n - 1 : air'[j].msg = w[u].msg
    <2>1. /\ \A i \in 1 .. n : air[i].msg = w[u].msg =>
               air[i].idx <= w[u].idx /\ \A j \in i .. n : air[j].msg = w[u].msg
          /\ lastMagic.msg = w[u].msg =>
               lastMagic.idx <= w[u].idx /\ \A j \in 1 .. n : air[j].msg = w[u].msg
      BY <1>5
    <2>2. \A i \in 1 .. n - 1 : air'[i].msg = w[u].msg =>
            air'[i].idx <= w[u].idx /\ \A j \in i .. n - 1 : air'[j].msg = w[u].msg
      <3>. SUFFICES ASSUME NEW i \in 1 .. n - 1, air'[i].msg = w[u].msg
                    PROVE  air'[i].idx <= w[u].idx /\ \A j \in i .. n - 1 : air'[j].msg = w[u].msg
        OBVIOUS
      <3>1. air'[i] = air[i + 1] /\ i + 1 \in 1 .. n
        BY <1>2
      <3>2. \A j \in i .. n - 1 : air'[j] = air[j + 1] /\ j + 1 \in (i + 1) .. n
        BY <1>2
      <3>. QED  BY <2>1, <3>1, <3>2
    <2>3. lastMagic'.msg = w[u].msg =>
            lastMagic'.idx <= w[u].idx /\ \A j \in 1 .. n - 1 : air'[j].msg = w[u].msg
      <3>1. CASE lastMagic' = lastMagic
        <4>1. \A j \in 1 .. n - 1 : air'[j] = air[j + 1] /\ j + 1 \in 1 .. n
          BY <1>2
        <4>. QED  BY <2>1, <3>1, <4>1
      <3>2. CASE lastMagic' = MagicOf(p)
        <4>1. \A j \in 1 .. n - 1 : air'[j] = air[j + 1] /\ j + 1 \in 1 .. n
          BY <1>2
        <4>2. 1 \in 1 .. n /\ air[1] = p /\ lastMagic'.msg = p.msg /\ lastMagic'.idx = p.idx
          BY <1>2, <1>3, <3>2
        <4>3. p.msg = w[u].msg => p.idx <= w[u].idx /\ \A j \in 1 .. n : air[j].msg = w[u].msg
          BY <2>1, <4>2
        <4>. QED  BY <4>1, <4>2, <4>3
      <3>. QED  BY <3>1, <3>2 DEF p
    <2>. QED  BY <2>2, <2>3
  <1>. QED  BY <1>2, <1>10, <1>11, <1>13, <1>14 DEF p

\* A packet leaves the air, and the messages accepted before it are not those of Head(air).
LEMMA StreamStays ==
  ASSUME NEW got, AllSent(got), NEW queue, AllSent(queue), NEW last, NEW acc, NEW next,
         Stream(got, queue, last, acc),
         \A a \in acc : a.msg = next => a.msg = last
  PROVE  Stream(got, queue, next, acc)
  <1>1. \A q, r : MagicOf(q) \in acc /\ Follows(q, r, last, acc) => Follows(q, r, next, acc)
    BY DEF Follows, MagicOf
  <1>2. \A x : IsLatest(x, last, acc) => IsLatest(x, next, acc)
    BY DEF IsLatest
  <1>3. /\ \A i \in 1 .. Len(got) : MagicOf(got[i]) \in acc
        /\ \A i \in 1 .. Len(queue) : MagicOf(queue[i]) \in acc
    BY DEF Stream
  <1>4. \A i \in 1 .. Len(got) - 1 : Follows(got[i], got[i + 1], next, acc)
    BY <1>1, <1>3 DEF Stream, AllSent
  <1>5. \A i \in 1 .. Len(queue) - 1 : Follows(queue[i], queue[i + 1], next, acc)
    BY <1>1, <1>3 DEF Stream, AllSent
  <1>6. got # <<>> /\ queue # <<>> => Follows(got[Len(got)], queue[1], next, acc)
    BY <1>1, <1>3 DEF Stream, AllSent
  <1>. QED  BY <1>2, <1>3, <1>4, <1>5, <1>6 DEF Stream

\* A packet that comes after all those accepted is the last of the stream.
LEMMA StreamGrows ==
  ASSUME NEW got, AllSent(got), NEW queue, AllSent(queue), NEW acc, NEW p, Sent(p),
         Stream(got, queue, p.msg, acc),
         \A a \in acc : a.idx \in Nat /\ (a.msg = p.msg => a.idx <= p.idx)
  PROVE  Stream(got, Append(queue, p), p.msg, acc \union {MagicOf(p)})
  <1>. DEFINE more == acc \union {MagicOf(p)}
              g == Len(got)
              n == Len(queue)
              new == Append(queue, p)
  <1>1. p.idx \in Nat /\ MagicOf(p).msg = p.msg /\ MagicOf(p).idx = p.idx
    BY DEF Sent, PacketType, MagicOf
  <1>2. /\ \A i \in 1 .. g : got[i].idx \in Nat /\ MagicOf(got[i]) \in acc
        /\ \A i \in 1 .. n : queue[i].idx \in Nat /\ MagicOf(queue[i]) \in acc
    BY DEF AllSent, Sent, PacketType, Stream
  <1>3. /\ n \in Nat /\ g \in Nat /\ Len(new) = n + 1 /\ new[n + 1] = p /\ new # <<>>
        /\ \A i \in 1 .. n : new[i] = queue[i]
        /\ (queue # <<>> <=> n >= 1) /\ (got # <<>> <=> g >= 1)
    BY OneMore DEF AllSent
  <1>4. ASSUME NEW q, NEW r, MagicOf(q) \in acc, MagicOf(r) \in acc, q.idx \in Nat, r.idx \in Nat,
               Follows(q, r, p.msg, acc)
        PROVE  Follows(q, r, p.msg, more)
    <2>. SUFFICES ASSUME q.msg # r.msg
                  PROVE  /\ q.msg # p.msg
                         /\ [msg |-> q.msg, idx |-> q.idx + 1] \notin more
                         /\ [msg |-> r.msg, idx |-> r.idx - 1] \notin more
      BY DEF Follows
    <2>1. /\ q.msg # p.msg
          /\ [msg |-> q.msg, idx |-> q.idx + 1] \notin acc
          /\ [msg |-> r.msg, idx |-> r.idx - 1] \notin acc
      BY <1>4 DEF Follows
    <2>2. r.msg = p.msg => r.idx <= p.idx
      BY <1>4 DEF MagicOf
    <2>3. MagicOf(p) # [msg |-> q.msg, idx |-> q.idx + 1]
      BY <1>1, <2>1
    <2>4. MagicOf(p) # [msg |-> r.msg, idx |-> r.idx - 1]
      BY <1>1, <1>4, <2>2
    <2>. QED  BY <2>1, <2>3, <2>4
  <1>5. ASSUME NEW x, x.idx \in Nat, IsLatest(x, p.msg, acc) PROVE Follows(x, p, p.msg, more)
    <2>. SUFFICES ASSUME x.msg # p.msg
                  PROVE  /\ [msg |-> x.msg, idx |-> x.idx + 1] \notin more
                         /\ [msg |-> p.msg, idx |-> p.idx - 1] \notin more
      BY DEF Follows
    <2>1. [msg |-> x.msg, idx |-> x.idx + 1] \notin acc
      <3>. SUFFICES ASSUME [msg |-> x.msg, idx |-> x.idx + 1] \in acc PROVE FALSE
        OBVIOUS
      <3>1. x.idx + 1 <= x.idx
        BY <1>5 DEF IsLatest
      <3>. QED  BY <1>5, <3>1
    <2>2. [msg |-> p.msg, idx |-> p.idx - 1] \notin acc
      BY <1>5 DEF IsLatest
    <2>3. MagicOf(p) # [msg |-> x.msg, idx |-> x.idx + 1]
      BY <1>1
    <2>4. MagicOf(p) # [msg |-> p.msg, idx |-> p.idx - 1]
      BY <1>1
    <2>. QED  BY <2>1, <2>2, <2>3, <2>4
  <1>6. IsLatest(p, p.msg, more)
    BY <1>1 DEF IsLatest
  <1>7. /\ \A i \in 1 .. g - 1 : Follows(got[i], got[i + 1], p.msg, acc)
        /\ \A i \in 1 .. n - 1 : Follows(queue[i], queue[i + 1], p.msg, acc)
    BY DEF Stream
  <1>14. /\ g >= 1 /\ n >= 1 => Follows(got[g], queue[1], p.msg, acc)
         /\ n >= 1 => IsLatest(queue[n], p.msg, acc)
         /\ g >= 1 /\ n = 0 => IsLatest(got[g], p.msg, acc)
    <2>1. n = 0 => queue = <<>>
      BY <1>3
    <2>2. /\ got # <<>> /\ queue # <<>> => Follows(got[g], queue[1], p.msg, acc)
          /\ queue # <<>> => IsLatest(queue[n], p.msg, acc)
          /\ got # <<>> /\ queue = <<>> => IsLatest(got[g], p.msg, acc)
      BY DEF Stream
    <2>. QED  BY <1>3, <2>1, <2>2
  <1>. HIDE DEF new, more, n, g
  <1>8. \A i \in 1 .. g - 1 : Follows(got[i], got[i + 1], p.msg, more)
    <2>. SUFFICES ASSUME NEW i \in 1 .. g - 1 PROVE Follows(got[i], got[i + 1], p.msg, more)
      OBVIOUS
    <2>1. i \in 1 .. g /\ i + 1 \in 1 .. g
      BY <1>3
    <2>. QED  BY <1>2, <1>4, <1>7, <2>1
  <1>9. \A i \in 1 .. n : Follows(new[i], new[i + 1], p.msg, more)
    <2>. SUFFICES ASSUME NEW i \in 1 .. n PROVE Follows(new[i], new[i + 1], p.msg, more)
      OBVIOUS
    <2>1. CASE i = n
      BY <1>2, <1>3, <1>5, <1>14, <2>1
    <2>2. CASE i # n
      <3>1. i \in 1 .. n - 1 /\ i + 1 \in 1 .. n
        BY <1>3, <2>2
      <3>. QED  BY <1>2, <1>3, <1>4, <1>7, <3>1
    <2>. QED  BY <2>1, <2>2
  <1>10. g >= 1 => Follows(got[g], new[1], p.msg, more)
    <2>1. CASE n >= 1
      BY <1>2, <1>3, <1>4, <1>14, <2>1
    <2>2. CASE n = 0
      BY <1>2, <1>3, <1>5, <1>14, <2>2
    <2>. QED  BY <1>3, <2>1, <2>2
  <1>11. /\ \A i \in 1 .. g : MagicOf(got[i]) \in more
         /\ \A i \in 1 .. n + 1 : MagicOf(new[i]) \in more
    <2>1. acc \subseteq more /\ MagicOf(p) \in more
      BY DEF more
    <2>2. \A i \in 1 .. n + 1 : i \in 1 .. n \/ i = n + 1
      BY <1>3
    <2>. QED  BY <1>2, <1>3, <2>1, <2>2
  <1>12. Len(new) - 1 = n
    BY <1>3
  <1>13. Stream(got, new, p.msg, more)
    BY <1>3, <1>6, <1>8, <1>9, <1>10, <1>11, <1>12 DEF Stream, g
  <1>. QED  BY <1>13 DEF new, more

\* The reader takes the packet at the head of the queue, or drops it.
LEMMA StreamIsRead ==
  ASSUME NEW got, AllSent(got), NEW queue, AllSent(queue), NEW last, NEW acc,
         Stream(got, queue, last, acc)
  PROVE  /\ Stream(<<>>, queue, last, acc)
         /\ queue # <<>> => Stream(<<>>, Tail(queue), last, acc)
         /\ queue # <<>> => Stream(Append(got, Head(queue)), Tail(queue), last, acc)
  <1>. DEFINE g == Len(got)
              n == Len(queue)
  <1>1. n \in Nat /\ g \in Nat /\ (queue # <<>> <=> n >= 1) /\ (got # <<>> <=> g >= 1)
        /\ <<>> \in Seq(PacketType) /\ Len(<<>>) = 0
    BY DEF AllSent
  <1>2. Stream(<<>>, queue, last, acc)
    BY <1>1 DEF Stream
  <1>3. /\ \A i \in 1 .. g : MagicOf(got[i]) \in acc
        /\ \A i \in 1 .. n : MagicOf(queue[i]) \in acc
        /\ \A i \in 1 .. g - 1 : Follows(got[i], got[i + 1], last, acc)
        /\ \A i \in 1 .. n - 1 : Follows(queue[i], queue[i + 1], last, acc)
        /\ g >= 1 /\ n >= 1 => Follows(got[g], queue[1], last, acc)
        /\ n >= 1 => IsLatest(queue[n], last, acc)
        /\ g >= 1 /\ n = 0 => IsLatest(got[g], last, acc)
    BY <1>1 DEF Stream
  <1>4. ASSUME queue # <<>>
        PROVE  /\ Stream(<<>>, Tail(queue), last, acc)
               /\ Stream(Append(got, Head(queue)), Tail(queue), last, acc)
    <2>. DEFINE rest == Tail(queue)
                all == Append(got, Head(queue))
    <2>1. /\ Sent(Head(queue)) /\ Head(queue) = queue[1] /\ Len(rest) = n - 1 /\ n >= 1
          /\ (rest # <<>> <=> n - 1 >= 1)
          /\ \A i \in 1 .. n - 1 : rest[i] = queue[i + 1] /\ i + 1 \in 1 .. n
      <3>1. /\ Sent(Head(queue)) /\ Head(queue) = queue[1] /\ Len(rest) = n - 1
            /\ \A i \in 1 .. n - 1 : rest[i] = queue[i + 1]
        BY <1>4, HeadAndTail
      <3>3. AllSent(rest)
        BY <1>4, HeadAndTail
      <3>2. rest # <<>> <=> n - 1 >= 1
        <4>1. rest \in Seq(PacketType) /\ Len(rest) = n - 1
          BY <3>1, <3>3 DEF AllSent
        <4>. HIDE DEF rest
        <4>. QED  BY <1>1, <4>1
      <3>. QED  BY <1>1, <1>4, <3>1, <3>2
    <2>2. /\ Len(all) = g + 1 /\ all[g + 1] = queue[1] /\ \A i \in 1 .. g : all[i] = got[i]
          /\ all # <<>>
      <3>1. Len(all) = g + 1 /\ all[g + 1] = queue[1] /\ \A i \in 1 .. g : all[i] = got[i]
        BY <2>1, OneMore
      <3>2. AllSent(all)
        BY <2>1, OneMore
      <3>. QED  BY <1>1, <3>1, <3>2 DEF AllSent
    <2>. HIDE DEF rest, all, n, g
    <2>3. \A i \in 1 .. n - 1 : MagicOf(rest[i]) \in acc
      BY <1>3, <2>1
    <2>4. \A i \in 1 .. (n - 1) - 1 : Follows(rest[i], rest[i + 1], last, acc)
      <3>. SUFFICES ASSUME NEW i \in 1 .. (n - 1) - 1 PROVE Follows(rest[i], rest[i + 1], last, acc)
        OBVIOUS
      <3>1. i \in 1 .. n - 1 /\ i + 1 \in 1 .. n - 1
        BY <1>1, <2>1
      <3>. QED  BY <1>3, <2>1, <3>1
    <2>5. n - 1 >= 1 => rest[n - 1] = queue[n] /\ rest[1] = queue[2]
      <3>. SUFFICES ASSUME n - 1 >= 1 PROVE rest[n - 1] = queue[n] /\ rest[1] = queue[2]
        OBVIOUS
      <3>1. n - 1 \in 1 .. n - 1 /\ 1 \in 1 .. n - 1 /\ (n - 1) + 1 = n /\ 1 + 1 = 2
        BY <1>1
      <3>. QED  BY <2>1, <3>1
    <2>6. Stream(<<>>, rest, last, acc)
      BY <1>1, <1>3, <2>1, <2>3, <2>4, <2>5 DEF Stream
    <2>7. \A i \in 1 .. g + 1 : MagicOf(all[i]) \in acc
      <3>1. \A i \in 1 .. g + 1 : i \in 1 .. g \/ i = g + 1
        BY <1>1
      <3>2. 1 \in 1 .. n
        BY <1>1, <2>1
      <3>. QED  BY <1>3, <2>2, <3>1, <3>2
    <2>8. \A i \in 1 .. (g + 1) - 1 : Follows(all[i], all[i + 1], last, acc)
      <3>. SUFFICES ASSUME NEW i \in 1 .. g PROVE Follows(all[i], all[i + 1], last, acc)
        BY <1>1
      <3>1. CASE i = g
        BY <1>1, <1>3, <2>1, <2>2, <3>1
      <3>2. CASE i # g
        <4>1. i \in 1 .. g - 1 /\ i + 1 \in 1 .. g
          BY <1>1, <3>2
        <4>. QED  BY <1>3, <2>2, <4>1
      <3>. QED  BY <3>1, <3>2
    <2>9. n - 1 >= 1 => Follows(all[g + 1], rest[1], last, acc)
      <3>. SUFFICES ASSUME n - 1 >= 1 PROVE Follows(queue[1], queue[2], last, acc)
        BY <2>2, <2>5
      <3>1. 1 \in 1 .. n - 1 /\ 1 + 1 = 2
        BY <1>1
      <3>. QED  BY <1>3, <3>1
    <2>10. n = 1 => IsLatest(all[g + 1], last, acc)
      BY <1>3, <2>1, <2>2
    <2>11. ~ (n - 1 >= 1) => n = 1
      BY <1>1, <2>1
    <2>12. Stream(all, rest, last, acc)
      BY <2>1, <2>2, <2>3, <2>4, <2>5, <2>7, <2>8, <2>9, <2>10, <2>11, <1>3 DEF Stream
    <2>. QED  BY <2>6, <2>12 DEF rest, all
  <1>. QED  BY <1>2, <1>4

LEMMA RadioGoesOn ==
  ASSUME EspnowTypes, LockDiscipline, Len(holder) <= 1, OneAtATime, RadioStep
  PROVE  OneAtATime'
  <1>. DEFINE p == Head(air)
  <1>1. /\ air # <<>> /\ air' = Tail(air) /\ UNCHANGED <<w, reader>>
        /\ lastMagic' \in {lastMagic, MagicOf(p)}
        /\ \/ UNCHANGED <<pipe, accepted>>
           \/ /\ lastMagic' = MagicOf(p) /\ pipe' = Append(pipe, p)
              /\ accepted' = accepted \union {MagicOf(p)}
    BY RadioSteps DEF writerVars
  <1>2. AirInOrder /\ SenderIsLast /\ AcceptedIsPast /\ StreamInOrder
    BY DEF OneAtATime
  <1>3. /\ AirInOrder'
        /\ \A a \in accepted : a.msg = p.msg =>
             a.msg = lastMagic.msg /\ a.idx <= lastMagic.idx /\ lastMagic.idx <= p.idx
        /\ \A a \in accepted : IF a.msg = lastMagic'.msg THEN a.idx <= lastMagic'.idx ELSE Over(a.msg)'
        /\ \A u \in Owners :
             /\ \A i \in 1 .. Len(air') : air'[i].msg = w[u].msg =>
                  air'[i].idx <= w[u].idx /\ \A j \in i .. Len(air') : air'[j].msg = w[u].msg
             /\ lastMagic'.msg = w[u].msg =>
                  lastMagic'.idx <= w[u].idx /\ \A j \in 1 .. Len(air') : air'[j].msg = w[u].msg
    BY <1>1, <1>2, HeadFollows
  <1>4. /\ Sent(p) /\ air[1] = p /\ Len(air) >= 1 /\ Len(air) \in Nat /\ Len(air') = Len(air) - 1
        /\ \A i \in 1 .. Len(air) - 1 : air'[i] = air[i + 1] /\ i + 1 \in 1 .. Len(air)
    BY <1>1, HeadAndTail DEF EspnowTypes, RadioTypes, AllSent
  <1>5. /\ p.idx \in Nat /\ MagicOf(p).msg = p.msg /\ MagicOf(p).idx = p.idx
        /\ \A a \in accepted : a.idx \in Nat /\ lastMagic.idx \in Nat
    BY <1>4 DEF EspnowTypes, RadioTypes, Sent, PacketType, MagicNumber, MagicOf
  <1>6. \A u \in Task : w[u].at \in {"create", "take"} => Unsent(w[u].msg)'
    <2>. SUFFICES ASSUME NEW u \in Task, w[u].at \in {"create", "take"} PROVE Unsent(w[u].msg)'
      OBVIOUS
    <2>1. Unsent(w[u].msg)
      BY <1>2 DEF SenderIsLast
    <2>2. p.msg # w[u].msg
      BY <1>4, <2>1 DEF Unsent
    <2>. HIDE DEF p
    <2>3. lastMagic'.msg # w[u].msg
      BY <1>1, <1>5, <2>1, <2>2 DEF Unsent
    <2>4. \A i \in 1 .. Len(air') : air'[i].msg # w[u].msg
      BY <1>4, <2>1 DEF Unsent
    <2>5. \A a \in accepted' : a.msg # w[u].msg
      BY <1>1, <1>5, <2>1, <2>2 DEF Unsent
    <2>. QED  BY <1>1, <2>3, <2>4, <2>5 DEF Unsent
  <1>7. SenderIsLast'
    BY <1>1, <1>3, <1>6 DEF SenderIsLast, Owners
  <1>8. AcceptedIsPast'
    BY <1>1, <1>3, <1>5 DEF AcceptedIsPast
  <1>9. StreamInOrder'
    <2>1. /\ AllSent(reader.got) /\ AllSent(pipe)
          /\ Stream(reader.got, pipe, lastMagic.msg, accepted)
      BY <1>2 DEF EspnowTypes, ReaderTypes, StreamInOrder
    <2>2. Stream(reader.got, pipe, p.msg, accepted)
      BY <1>3, <2>1, StreamStays
    <2>3. CASE UNCHANGED <<pipe, accepted>>
      BY <1>1, <1>5, <2>1, <2>2, <2>3 DEF StreamInOrder
    <2>4. CASE lastMagic' = MagicOf(p) /\ pipe' = Append(pipe, p) /\ accepted' = accepted \union {MagicOf(p)}
      <3>1. \A a \in accepted : a.idx \in Nat /\ (a.msg = p.msg => a.idx <= p.idx)
        BY <1>3, <1>5, <2>4
      <3>2. Stream(reader.got, Append(pipe, p), p.msg, accepted \union {MagicOf(p)})
        BY <1>4, <2>1, <2>2, <3>1, StreamGrows
      <3>. QED  BY <1>1, <1>5, <2>4, <3>2 DEF StreamInOrder
    <2>. QED  BY <1>1, <2>3, <2>4
  <1>. QED  BY <1>3, <1>7, <1>8, <1>9 DEF OneAtATime

LEMMA ReaderGoesOn ==
  ASSUME EspnowTypes, Len(holder) <= 1, OneAtATime, ReadStep
  PROVE  OneAtATime'
  <1>1. (Leaves \/ Drops \/ Takes) /\ UNCHANGED <<w, air, lastMagic, accepted>>
    BY ReadSteps DEF EspnowTypes, writerVars
  <1>2. AirInOrder /\ SenderIsLast /\ AcceptedIsPast /\ StreamInOrder
    BY DEF OneAtATime
  <1>3. AirInOrder' /\ SenderIsLast' /\ AcceptedIsPast'
    BY <1>1, <1>2 DEF AirInOrder, SenderIsLast, AcceptedIsPast, Owners, Unsent, Over
  <1>4. StreamInOrder'
    <2>1. /\ AllSent(reader.got) /\ AllSent(pipe) /\ reader \in ReaderType
          /\ Stream(reader.got, pipe, lastMagic.msg, accepted)
      BY <1>2 DEF EspnowTypes, ReaderTypes, StreamInOrder
    <2>2. CASE Leaves
      <3>1. reader'.got = <<>> /\ pipe' = pipe
        BY <2>1, <2>2 DEF Leaves, ReaderType
      <3>. QED  BY <1>1, <2>1, <3>1, StreamIsRead DEF StreamInOrder
    <2>3. CASE Drops
      <3>1. reader'.got = <<>> /\ pipe' = Tail(pipe) /\ pipe # <<>>
        BY <2>1, <2>3 DEF Drops, ReaderType
      <3>. QED  BY <1>1, <2>1, <3>1, StreamIsRead DEF StreamInOrder
    <2>4. CASE Takes
      <3>1. reader'.got = Append(reader.got, Head(pipe)) /\ pipe' = Tail(pipe) /\ pipe # <<>>
        BY <2>1, <2>4 DEF Takes, ReaderType
      <3>. QED  BY <1>1, <2>1, <3>1, StreamIsRead DEF StreamInOrder
    <2>. QED  BY <1>1, <2>2, <2>3, <2>4
  <1>. QED  BY <1>3, <1>4 DEF OneAtATime

LEMMA OneAtATimeStep ==
  ASSUME EspnowTypes, LockDiscipline, OneAtATime, [MespnowNext]_espnowVars
  PROVE  OneAtATime'
  <1>1. SUFFICES ASSUME Len(holder') <= 1 PROVE OneAtATime'
    BY DEF OneAtATime
  <1>2. Len(holder) <= 1
    BY <1>1, NothingIsForgotten
  <1>3. ASSUME UNCHANGED <<w, air, lastMagic, accepted, pipe, reader>> PROVE OneAtATime'
    BY <1>2, <1>3
    DEF OneAtATime, AirInOrder, SenderIsLast, AcceptedIsPast, StreamInOrder, Owners, Unsent, Over
  <1>4. ASSUME NEW t \in Task, WriteStep(t) PROVE OneAtATime'
    BY <1>2, <1>4, CallProceeds
  <1>5. ASSUME NEW t \in Task, NEW n \in EspnowSizes, WriteCall(t, n) PROVE OneAtATime'
    BY <1>2, <1>5, CallStarts
  <1>6. CASE RadioStep
    BY <1>2, <1>6, RadioGoesOn
  <1>7. ASSUME NEW room, ReadCall(room) PROVE OneAtATime'
    <2>1. /\ reader.at = "idle" /\ reader'.got = <<>>
          /\ UNCHANGED <<w, air, lastMagic, accepted, pipe>>
      BY <1>7 DEF ReadCall, writerVars, receiverVars
    <2>2. reader.got = <<>>
      BY <2>1 DEF EspnowTypes, ReaderTypes
    <2>. QED
      BY <1>2, <2>1, <2>2
      DEF OneAtATime, AirInOrder, SenderIsLast, AcceptedIsPast, StreamInOrder, Owners, Unsent, Over
  <1>8. CASE ReadStep
    BY <1>2, <1>8, ReaderGoesOn
  <1>9. CASE UNCHANGED espnowVars
    BY <1>3, <1>9 DEF espnowVars
  <1>. QED  BY <1>4, <1>5, <1>6, <1>7, <1>8, <1>9 DEF MespnowNext

-----------------------------------------------------------------------------
LEMMA EspnowInvStep == EspnowInv /\ [MespnowNext]_espnowVars => EspnowInv'
  <1>. SUFFICES ASSUME EspnowInv, [MespnowNext]_espnowVars PROVE EspnowInv'
    OBVIOUS
  <1>1. EspnowTypes' /\ LockDiscipline'
    BY EspnowTypesStep, LockDisciplineStep DEF EspnowInv
  <1>2. SentIsHeard' /\ OkMeansHeard'
    BY SentIsHeardStep, OkMeansHeardStep DEF EspnowInv
  <1>3. OneAtATime'
    BY OneAtATimeStep DEF EspnowInv
  <1>. QED  BY <1>1, <1>2, <1>3 DEF EspnowInv

LEMMA EspnowInvHolds == MespnowSpec => []EspnowInv
  BY EspnowInvInit, EspnowInvStep, PTL DEF MespnowSpec

LEMMA EspnowTypesOK == EspnowInv => MespnowTypeOK
  <1>. SUFFICES ASSUME EspnowInv PROVE MespnowTypeOK
    OBVIOUS
  <1>. USE DEF EspnowInv, EspnowTypes
  <1>1. sendLock \in 0 .. Len(holder) /\ holder \in Seq(Task \union {Nobody})
        /\ expired \in BOOLEAN /\ leaked \subseteq Task
    BY DEF LockTypes
  <1>2. w \in [Task -> [at : {"idle", "create", "take", "packet", "repeat", "wait"},
                        msg : 0 .. Len(size), idx : Nat, left : 0 .. Retransmit]]
    BY DEF CallTypes, CallType, CallPlaces
  <1>3. /\ size \in Seq(EspnowSizes) /\ troubles \in 0 .. Troubles /\ Len(result) = Len(size)
        /\ result \in Seq({"open", "ok", "fail", "timeout", "no_mem"})
    BY DEF CallTypes
  <1>4. /\ bits \subseteq {"ok", "fail"} /\ air \in Seq(PacketType) /\ lastMagic \in MagicNumber
        /\ announced \subseteq Message /\ heard \subseteq MagicNumber /\ accepted \subseteq MagicNumber
    BY DEF RadioTypes, AllSent
  <1>5. /\ pipe \in Seq(PacketType) /\ Len(pipe) <= QueueSize
        /\ reader \in [at : {"idle", "first", "more", "whole"}, room : Nat, got : Seq(PacketType)]
    BY DEF ReaderTypes, ReaderType, AllSent
  <1>. QED  BY <1>1, <1>2, <1>3, <1>4, <1>5 DEF MespnowTypeOK

\* The variables of mespnow.c have their types.
THEOREM MespnowTypesHold == MespnowSpec => []MespnowTypeOK
  BY EspnowTypesOK, EspnowInvHolds, PTL

\* Unless two tasks have created the mutex at the same time, one task at a time sends, it is
\* the one that has the mutex, and one that has it without sending is one whose allocation
\* failed.
THEOREM LockIsDisciplined == MespnowSpec => []LockDiscipline
  <1>1. EspnowInv => LockDiscipline
    BY DEF EspnowInv
  <1>. QED  BY <1>1, EspnowInvHolds, PTL

\* As long as no wait for the radio's callback has expired and one mutex exists,
\* mespnow_write says MDF_OK only of messages every packet of which was received.
THEOREM OkIsHeard == MespnowSpec => []OkMeansHeard
  <1>1. EspnowInv => OkMeansHeard
    BY DEF EspnowInv
  <1>. QED  BY <1>1, EspnowInvHolds, PTL

\* A number less its remainder is a multiple.
LEMMA RemainderGoes ==
  ASSUME NEW a \in Nat, NEW n \in Nat \ {0}
  PROVE  (a - (a % n)) % n = 0
  <1>. DEFINE k == a \div n
  <1>1. k \in Int /\ a = n * k + (a % n)
    OBVIOUS
  <1>. HIDE DEF k
  <1>2. a - (a % n) = n * k
    BY <1>1
  <1>3. (n * k) % n = 0
    BY <1>1
  <1>. QED  BY <1>2, <1>3

\* In what mespnow_read returns every packet is in its place, and it takes packets of two
\* messages for one only if the packets between the two were lost.
THEOREM MixingNeedsLosses == MespnowSpec => []MixedReadsHaveLosses
  <1>1. ASSUME EspnowInv PROVE MixedReadsHaveLosses
    <2>. SUFFICES ASSUME reader.at = "whole", Len(holder) <= 1
                  PROVE  /\ \A i \in 1 .. Len(reader.got) : (reader.got[i].idx - (i - 1)) % EspnowSeqs = 0
                         /\ \A i \in 1 .. Len(reader.got) - 1 :
                              LET p == reader.got[i]
                                  q == reader.got[i + 1]
                              IN  p.msg # q.msg => /\ [msg |-> p.msg, idx |-> p.idx + 1] \notin accepted
                                                   /\ [msg |-> q.msg, idx |-> q.idx - 1] \notin accepted
      BY DEF MixedReadsHaveLosses
    <2>1. \A i \in 1 .. Len(reader.got) : (reader.got[i].idx - (i - 1)) % EspnowSeqs = 0
      <3>. SUFFICES ASSUME NEW i \in 1 .. Len(reader.got)
                    PROVE  (reader.got[i].idx - (i - 1)) % EspnowSeqs = 0
        OBVIOUS
      <3>1. /\ reader.got[i].seq = i - 1 /\ reader.got[i].idx \in Nat
            /\ reader.got[i].seq = reader.got[i].idx % EspnowSeqs
        BY <1>1 DEF EspnowInv, EspnowTypes, ReaderTypes, AllSent, Sent, PacketType
      <3>. QED  BY <3>1, RemainderGoes
    <2>2. \A i \in 1 .. Len(reader.got) - 1 :
            Follows(reader.got[i], reader.got[i + 1], lastMagic.msg, accepted)
      BY <1>1 DEF EspnowInv, OneAtATime, StreamInOrder, Stream
    <2>. QED  BY <2>1, <2>2 DEF Follows
  <1>. QED  BY <1>1, EspnowInvHolds, PTL
=============================================================================
