---------------------------- MODULE MwifiTransfer ----------------------------
(***************************************************************************)
(* A message of mwifi is longer than a packet of the mesh: it is cut by    *)
(* mwifi_subcontract_write and put together again by mwifi_read, or by     *)
(* mwifi_root_read for what the nodes send to the root (mwifi.c).  Any     *)
(* number of tasks, of one device or of several, write to one reader.  The *)
(* mesh keeps the order of each writer's packets and may lose or repeat a  *)
(* packet.                                                                 *)
(*                                                                         *)
(* Sizes are counted in packets of MWIFI_PAYLOAD_LEN bytes.                *)
(***************************************************************************)
EXTENDS Integers, Sequences, FiniteSets

CONSTANTS
  Writer,    \* tasks that write to the reader
  Sizes,     \* sizes of messages, in packets
  Messages,  \* messages each writer writes
  SeqMod,    \* values of packet_seq, a field of 3 bits
  TotalMod,  \* values of the total size, two fields of 12 bits and 1 bit
  RootReads, \* is the reader mwifi_root_read?
  WireLimit, \* packets of one writer under way before esp_mesh_send blocks
  Gaps,      \* how often a packet is lost, or a message given up on either side
  Repeats    \* how often the mesh repeats a packet

ASSUME TransferAssumption ==
  /\ Sizes \subseteq Nat \ {0}
  /\ Messages \in Nat /\ SeqMod \in Nat \ {0} /\ TotalMod \in Nat \ {0}
  /\ RootReads \in BOOLEAN
  /\ WireLimit \in Nat \ {0}
  /\ Gaps \in Nat /\ Repeats \in Nat

VARIABLES
  msg,     \* per writer: the message under way, its size and its next packet
  wire,    \* per writer: packets under way to the reader
  buf,     \* recv_data: the packets put together so far
  total,   \* total_size, of the last packet accepted
  expect,  \* expect_seq
  magic,   \* s_data_magic: the last packet accepted by mwifi_read
  got,     \* messages handed to the application
  gaps, repeats  \* how much of both bounds is used

transferVars == <<msg, wire, buf, total, expect, magic, got, gaps, repeats>>

\* data_head->magic is drawn at random for each packet: two packets with the same
\* one are copies.  It stands for what the packet carries: a part of a message,
\* its number, and of how many.
Piece == [from : Writer, msg : 1 .. Messages, num : Nat, of : Sizes]
Packets == [piece : Piece, seq : 0 .. SeqMod - 1, total : 0 .. TotalMod - 1]
NoPiece == [from |-> "none"]

PacketOf(w) ==
  [piece |-> [from |-> w, msg |-> msg[w].num, num |-> msg[w].next,
              of |-> msg[w].size],
   seq   |-> msg[w].next % SeqMod,
   total |-> msg[w].size % TotalMod]

Gap == gaps < Gaps /\ gaps' = gaps + 1

Repeat == repeats < Repeats /\ repeats' = repeats + 1

-----------------------------------------------------------------------------
(* mwifi_subcontract_write.  The lock is taken for one packet at a time.   *)

Writing(w) == msg[w].next < msg[w].size

WriteBegin(w) ==
  /\ ~ Writing(w) /\ msg[w].num < Messages
  /\ \E size \in Sizes :
       msg' = [msg EXCEPT ![w] = [num |-> @.num + 1, size |-> size, next |-> 0]]
  /\ UNCHANGED <<wire, buf, total, expect, magic, got, gaps, repeats>>

\* The mesh takes the packet; a packet to a node is acknowledged and sent again
\* when the acknowledgement does not come.
WritePacket(w) ==
  /\ Writing(w) /\ Len(wire[w]) < WireLimit
  /\ msg' = [msg EXCEPT ![w].next = @ + 1]
  /\ \/ /\ wire' = [wire EXCEPT ![w] = Append(@, PacketOf(w))]
        /\ UNCHANGED <<gaps, repeats>>
     \/ Gap /\ UNCHANGED <<wire, repeats>>
     \/ /\ Repeat /\ UNCHANGED gaps
        /\ wire' = [wire EXCEPT ![w] = @ \o <<PacketOf(w), PacketOf(w)>>]
  /\ UNCHANGED <<buf, total, expect, magic, got>>

\* esp_mesh_send fails, or has no memory for three tries, or the lock is not free
\* and the writer does not wait for it: the rest of the message is not sent.
WriteFails(w) ==
  /\ Writing(w) /\ Gap
  /\ msg' = [msg EXCEPT ![w].next = msg[w].size]
  /\ UNCHANGED <<wire, buf, total, expect, magic, got, repeats>>

-----------------------------------------------------------------------------
(* mwifi_read and mwifi_root_read: one step takes one packet off the mesh. *)

\* "Discard this packet if there is a packet loss in the middle".
CutNever(p) == FALSE  \* mutant

Cut(p) == p.seq # expect

\* What is kept of the packets before p, and the number p should have.  After a
\* cut expect_seq is -1: the loop adds one to it, whatever p is.
KeptBefore(p) == IF Cut(p) THEN <<>> ELSE buf

NumberOf(p) == IF Cut(p) THEN -1 ELSE expect

\* "Filter retransmitted packets": in mwifi_read only.
RepeatedNever(p) == FALSE  \* mutant

Repeated(p) == ~ RootReads /\ p.piece = magic

\* The number expected after a packet from the middle of a message whose beginning
\* is missing.
AfterDiscardKept == expect + 1  \* mutant

AfterDiscard == 0

ReadDiscard(w) ==
  LET p == Head(wire[w]) IN
  /\ wire[w] # <<>> /\ Cut(p) /\ p.seq # 0
  /\ wire' = [wire EXCEPT ![w] = Tail(@)]
  /\ buf' = <<>>
  /\ expect' = AfterDiscard
  /\ UNCHANGED <<msg, total, magic, got, gaps, repeats>>

ReadRepeated(w) ==
  LET p == Head(wire[w]) IN
  /\ wire[w] # <<>> /\ (Cut(p) => p.seq = 0) /\ Repeated(p)
  /\ wire' = [wire EXCEPT ![w] = Tail(@)]
  /\ buf' = KeptBefore(p)
  /\ expect' = NumberOf(p)
  /\ UNCHANGED <<msg, total, magic, got, gaps, repeats>>

\* The end of the loop: mwifi_root_read does not leave it after a cut, even when
\* the message is complete.
Complete(data, size, next) == Len(data) >= size /\ (RootReads => next # 0)

ReadAccept(w) ==
  LET p == Head(wire[w])
      data == Append(KeptBefore(p), p.piece)
      next == NumberOf(p) + 1
      done == Complete(data, p.total, next)
  IN
  /\ wire[w] # <<>> /\ (Cut(p) => p.seq = 0) /\ ~ Repeated(p)
  /\ wire' = [wire EXCEPT ![w] = Tail(@)]
  /\ magic' = IF RootReads THEN magic ELSE p.piece
  /\ got' = IF done THEN Append(got, data) ELSE got
  /\ buf' = IF done THEN <<>> ELSE data
  /\ expect' = IF done THEN 0 ELSE next
  /\ total' = IF done THEN 0 ELSE p.total
  /\ UNCHANGED <<msg, gaps, repeats>>

\* The time given to the read is over, or esp_mesh_recv fails.  What was put
\* together is freed; the next read begins anew.
ReadFails ==
  /\ buf # <<>> \/ expect # 0
  /\ Gap
  /\ buf' = <<>> /\ expect' = 0 /\ total' = 0
  /\ UNCHANGED <<msg, wire, magic, got, repeats>>

\* The mesh has stopped: the read waits for it, and the loop adds one to expect_seq.
\* That ends the loop of mwifi_root_read, when nothing more is needed.
ReadNotStarted ==
  LET next == expect + 1
      done == RootReads /\ Complete(buf, total, next)
  IN
  /\ Gap
  /\ got' = IF done THEN Append(got, buf) ELSE got
  /\ buf' = IF done THEN <<>> ELSE buf
  /\ expect' = IF done THEN 0 ELSE next
  /\ total' = IF done THEN 0 ELSE total
  /\ UNCHANGED <<msg, wire, magic, repeats>>

-----------------------------------------------------------------------------
TransferInit ==
  /\ msg = [w \in Writer |-> [num |-> 0, size |-> 0, next |-> 0]]
  /\ wire = [w \in Writer |-> <<>>]
  /\ buf = <<>> /\ total = 0 /\ expect = 0
  /\ magic = NoPiece
  /\ got = <<>>
  /\ gaps = 0 /\ repeats = 0

Write(w) == WriteBegin(w) \/ WritePacket(w) \/ WriteFails(w)

Read(w) == ReadDiscard(w) \/ ReadRepeated(w) \/ ReadAccept(w)

TransferNext ==
  \/ ReadFails \/ ReadNotStarted
  \/ \E w \in Writer : Write(w) \/ Read(w)

TransferSpec == TransferInit /\ [][TransferNext]_transferVars

-----------------------------------------------------------------------------
IsMessage(data) ==
  /\ data # <<>>
  /\ Len(data) = data[1].of
  /\ \A i \in DOMAIN data :
       /\ data[i].from = data[1].from /\ data[i].msg = data[1].msg
       /\ data[i].num = i - 1

\* The types; the number that is expected gets ahead of the packets that were put
\* together only while the mesh is stopped (mwifi.c:1002-1059).
TransferTypeOK ==
  /\ msg \in [Writer -> [num : 0 .. Messages, size : Sizes \union {0}, next : Nat]]
  /\ \A w \in Writer : msg[w].next =< msg[w].size /\ (Writing(w) => msg[w].num > 0)
  /\ wire \in [Writer -> Seq(Packets)]
  /\ buf \in Seq(Piece)
  /\ total \in 0 .. TotalMod - 1
  /\ expect \in Int /\ -1 =< expect /\ expect =< Len(buf) + gaps
  /\ magic \in Piece \union {NoPiece}
  /\ got \in Seq(Seq(Piece))
  /\ gaps \in 0 .. Gaps /\ repeats \in 0 .. Repeats

\* What the application reads is what somebody wrote: the pieces of one message,
\* each in its place (mwifi.c:1002-1059, 1330-1374).
MessagesAreWhole == \A i \in DOMAIN got : IsMessage(got[i])

\* No message is read twice, or after a later one of the same writer, though
\* packets are repeated by the mesh (mwifi.c:1046-1055).
ReadInOrder ==
  \A i, j \in DOMAIN got :
    i < j /\ got[i][1].from = got[j][1].from => got[i][1].msg < got[j][1].msg

\* Everything is written and read.
Quiet == \A w \in Writer : ~ Writing(w) /\ msg[w].num = Messages /\ wire[w] = <<>>

\* What one lost or repeated packet or one message given up costs: the message it
\* belongs to, and the one after (mwifi.c:1029-1044).
DamageIsLocal ==
  Quiet =>
    \A w \in Writer :
      LET read == {got[i][1].msg : i \in {j \in DOMAIN got : got[j][1].from = w}}
      IN  Messages =< Cardinality(read) + 2 * (gaps + repeats)
=============================================================================
