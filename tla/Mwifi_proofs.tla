-------------------------- MODULE Mwifi_proofs ----------------------------
(***************************************************************************)
(* The type invariant of MwifiTransfer, for any writers, sizes of messages *)
(* and of fields, and any number of lost and repeated packets; for one     *)
(* writer to mwifi_read, that messages are read in order and, while there  *)
(* was one gap at most, whole, and that each packet that is lost or        *)
(* repeated and each call that fails costs two messages at most; and, of   *)
(* MwifiMulticast, that nobody reads a message twice, for any nodes, any   *)
(* trees, moves and failing calls.                                         *)
(***************************************************************************)
EXTENDS MCMwifi, MwifiMesh_proofs, FiniteSetTheorems

USE TransferAssumption DEF TransferAssumption

\* What the writers keep of their messages.
MsgType == [num : 0 .. Messages, size : Sizes \union {0}, next : Nat]

MsgInOrder(m) == m.next =< m.size /\ (m.next < m.size => m.num > 0)

LEMMA MsgStep ==
  ASSUME TransferTypeOK, NEW w \in Writer, NEW m \in MsgType, MsgInOrder(m),
         msg' = [msg EXCEPT ![w] = m]
  PROVE  /\ msg' \in [Writer -> MsgType]
         /\ \A v \in Writer : msg'[v].next =< msg'[v].size
                              /\ (Writing(v)' => msg'[v].num > 0)
<1>1. msg \in [Writer -> MsgType] /\ \A v \in Writer : MsgInOrder(msg[v])
  BY DEF TransferTypeOK, MsgType, MsgInOrder, Writing
<1>2. msg' \in [Writer -> MsgType] /\ \A v \in Writer : MsgInOrder(msg'[v])
  BY <1>1
<1> QED
  BY <1>2 DEF MsgInOrder, Writing

\* A packet that is written has its place in its message.
LEMMA PacketType ==
  ASSUME TransferTypeOK, NEW w \in Writer, Writing(w)
  PROVE  PacketOf(w) \in Packets
<1>1. /\ msg[w].num \in 1 .. Messages /\ msg[w].size \in Sizes
      /\ msg[w].next \in Nat /\ msg[w].size \in Nat
  <2>1. msg[w] \in [num : 0 .. Messages, size : Sizes \union {0}, next : Nat]
    BY DEF TransferTypeOK
  <2>2. msg[w].num > 0 /\ msg[w].next < msg[w].size
    BY DEF TransferTypeOK, Writing
  <2>3. msg[w].num \in 0 .. Messages /\ msg[w].next \in Nat
        /\ msg[w].size \in Sizes \union {0}
    BY <2>1
  <2>4. msg[w].size \in Nat /\ msg[w].size # 0
    <3>1. \A size \in Sizes \union {0} : size \in Nat
      OBVIOUS
    <3>2. msg[w].size \in Nat
      BY <2>3, <3>1
    <3> QED
      BY <2>2, <2>3, <3>2
  <2>5. msg[w].num \in 1 .. Messages
    BY <2>2, <2>3
  <2> QED
    BY <2>3, <2>4, <2>5
<1>2. /\ msg[w].next % SeqMod \in 0 .. SeqMod - 1
      /\ msg[w].size % TotalMod \in 0 .. TotalMod - 1
  BY <1>1
<1>3. [from |-> w, msg |-> msg[w].num, num |-> msg[w].next, of |-> msg[w].size]
        \in Piece
  BY <1>1 DEF Piece
<1> QED
  BY <1>2, <1>3 DEF PacketOf, Packets

LEMMA CountTypes ==
  ASSUME TransferTypeOK
  PROVE  /\ gaps \in Nat
         /\ Gap => gaps' \in 0 .. Gaps /\ gaps =< gaps'
         /\ Repeat => repeats' \in 0 .. Repeats
<1>1. gaps \in 0 .. Gaps /\ repeats \in 0 .. Repeats
  BY DEF TransferTypeOK
<1>2. gaps \in Int /\ repeats \in Int /\ gaps >= 0 /\ repeats >= 0
  BY <1>1
<1> QED
  BY <1>2 DEF Gap, Repeat

\* A step of a writer keeps the types when what it changes has them.
LEMMA WriterStep ==
  ASSUME TransferTypeOK,
         UNCHANGED <<buf, total, expect, magic, got>>,
         msg' \in [Writer -> MsgType],
         \A v \in Writer : msg'[v].next =< msg'[v].size
                           /\ (Writing(v)' => msg'[v].num > 0),
         wire' \in [Writer -> Seq(Packets)],
         gaps' \in 0 .. Gaps, gaps =< gaps',
         repeats' \in 0 .. Repeats
  PROVE  TransferTypeOK'
<1>1. expect' =< Len(buf') + gaps'
  <2>1. expect \in Int /\ expect =< Len(buf) + gaps /\ Len(buf) \in Nat /\ gaps \in Nat
    BY DEF TransferTypeOK
  <2>2. expect' = expect /\ buf' = buf /\ gaps' \in Nat
    OBVIOUS
  <2> QED
    BY <2>1, <2>2
<1> QED
  BY <1>1 DEF TransferTypeOK, MsgType

LEMMA WriteTypes ==
  ASSUME TransferTypeOK, NEW w \in Writer, Write(w)
  PROVE  TransferTypeOK'
<1>1. msg[w] \in MsgType /\ MsgInOrder(msg[w])
  BY DEF TransferTypeOK, MsgType, MsgInOrder, Writing
<1>2. CASE WriteBegin(w)
  <2>1. PICK size \in Sizes :
          msg' = [msg EXCEPT ![w] = [num |-> msg[w].num + 1, size |-> size, next |-> 0]]
    BY <1>2 DEF WriteBegin
  <2> DEFINE m == [num |-> msg[w].num + 1, size |-> size, next |-> 0]
  <2>2. m \in MsgType /\ MsgInOrder(m)
    <3>1. msg[w].num \in 0 .. Messages /\ msg[w].num < Messages
      BY <1>1, <1>2 DEF WriteBegin, MsgType
    <3>2. size \in Nat /\ size > 0
      OBVIOUS
    <3> QED
      BY <3>1, <3>2 DEF MsgType, MsgInOrder
  <2> QED
    <3>1. UNCHANGED <<wire, buf, total, expect, magic, got, gaps, repeats>>
      BY <1>2 DEF WriteBegin
    <3>2. /\ wire \in [Writer -> Seq(Packets)]
          /\ gaps \in 0 .. Gaps /\ repeats \in 0 .. Repeats
      BY DEF TransferTypeOK
    <3>3. msg' = [msg EXCEPT ![w] = m]
      BY <2>1
    <3> HIDE DEF m
    <3>4. /\ msg' \in [Writer -> MsgType]
          /\ \A v \in Writer : msg'[v].next =< msg'[v].size
                               /\ (Writing(v)' => msg'[v].num > 0)
      BY <2>2, <3>3, MsgStep
    <3>5. /\ wire' \in [Writer -> Seq(Packets)]
          /\ gaps' \in 0 .. Gaps /\ gaps =< gaps' /\ repeats' \in 0 .. Repeats
      BY <3>1, <3>2
    <3> QED
      BY <3>1, <3>4, <3>5, WriterStep
<1>3. CASE WritePacket(w)
  <2> DEFINE m == [msg[w] EXCEPT !.next = msg[w].next + 1]
  <2>1. msg' = [msg EXCEPT ![w] = m] /\ Writing(w)
    BY <1>3 DEF WritePacket
  <2>2. m \in MsgType /\ MsgInOrder(m)
    <3>1. /\ msg[w].next \in Nat /\ msg[w].size \in Nat
          /\ msg[w].next < msg[w].size /\ msg[w].num > 0
      BY <1>1, <2>1 DEF MsgType, MsgInOrder, Writing
    <3>2. m \in MsgType
      BY <1>1, <3>1 DEF MsgType
    <3>3. m.next = msg[w].next + 1 /\ m.size = msg[w].size /\ m.num = msg[w].num
      BY <1>1 DEF MsgType
    <3> QED
      BY <3>1, <3>2, <3>3 DEF MsgInOrder
  <2> HIDE DEF m
  <2>3. /\ msg' \in [Writer -> MsgType]
        /\ \A v \in Writer : msg'[v].next =< msg'[v].size
                             /\ (Writing(v)' => msg'[v].num > 0)
    BY <2>1, <2>2, MsgStep
  <2>4. PacketOf(w) \in Packets
    BY <2>1, PacketType
  <2>5. wire' \in [Writer -> Seq(Packets)]
    <3>1. wire \in [Writer -> Seq(Packets)] /\ wire[w] \in Seq(Packets)
      BY DEF TransferTypeOK
    <3>2. /\ Append(wire[w], PacketOf(w)) \in Seq(Packets)
          /\ wire[w] \o <<PacketOf(w), PacketOf(w)>> \in Seq(Packets)
      BY <3>1, <2>4
    <3> QED
      BY <1>3, <3>1, <3>2 DEF WritePacket
  <2>6. gaps' \in 0 .. Gaps /\ repeats' \in 0 .. Repeats /\ gaps =< gaps'
    <3>1. gaps \in 0 .. Gaps /\ repeats \in 0 .. Repeats
      BY DEF TransferTypeOK
    <3>2. (Gap \/ gaps' = gaps) /\ (Repeat \/ repeats' = repeats)
      BY <1>3 DEF WritePacket
    <3> QED
      BY <3>1, <3>2, CountTypes
  <2> QED
    BY <1>3, <2>3, <2>5, <2>6, WriterStep DEF WritePacket
<1>4. CASE WriteFails(w)
  <2> DEFINE m == [msg[w] EXCEPT !.next = msg[w].size]
  <2>1. msg' = [msg EXCEPT ![w] = m]
    BY <1>4 DEF WriteFails
  <2>2. m \in MsgType /\ MsgInOrder(m)
    BY <1>1 DEF MsgType, MsgInOrder
  <2>3. gaps' \in 0 .. Gaps /\ gaps =< gaps'
    BY <1>4, CountTypes DEF WriteFails
  <2>4. UNCHANGED <<wire, buf, total, expect, magic, got, repeats>>
    BY <1>4 DEF WriteFails
  <2>5. wire \in [Writer -> Seq(Packets)] /\ repeats \in 0 .. Repeats
    BY DEF TransferTypeOK
  <2> HIDE DEF m
  <2> QED
    BY <2>1, <2>2, <2>3, <2>4, <2>5, MsgStep, WriterStep
<1> QED
  BY <1>2, <1>3, <1>4 DEF Write

\* A step that changes what the reader holds keeps the types when the new values
\* have them.
LEMMA ReaderStep ==
  ASSUME TransferTypeOK,
         UNCHANGED <<msg, repeats>>,
         wire' \in [Writer -> Seq(Packets)],
         gaps' \in 0 .. Gaps,
         buf' \in Seq(Piece),
         expect' \in Int, -1 =< expect', expect' =< Len(buf') + gaps',
         total' \in 0 .. TotalMod - 1,
         magic' \in Piece \union {NoPiece},
         got' \in Seq(Seq(Piece))
  PROVE  TransferTypeOK'
BY DEF TransferTypeOK, Writing

LEMMA ReaderTypes ==
  ASSUME TransferTypeOK
  PROVE  /\ gaps \in 0 .. Gaps
         /\ wire \in [Writer -> Seq(Packets)]
         /\ buf \in Seq(Piece) /\ Len(buf) \in Nat /\ total \in 0 .. TotalMod - 1
         /\ expect \in Int /\ -1 =< expect /\ expect =< Len(buf) + gaps
         /\ magic \in Piece \union {NoPiece} /\ got \in Seq(Seq(Piece))
BY DEF TransferTypeOK

LEMMA ReadTypes ==
  ASSUME TransferTypeOK, NEW w \in Writer, Read(w)
  PROVE  TransferTypeOK'
<1> DEFINE p == Head(wire[w])
<1>1. /\ wire[w] \in Seq(Packets) /\ wire[w] # <<>>
      /\ wire' = [wire EXCEPT ![w] = Tail(wire[w])]
  BY ReaderTypes DEF Read, ReadDiscard, ReadRepeated, ReadAccept
<1>2. p \in Packets /\ wire' \in [Writer -> Seq(Packets)]
  BY <1>1, ReaderTypes
<1>3. p.piece \in Piece /\ p.seq \in 0 .. SeqMod - 1 /\ p.total \in 0 .. TotalMod - 1
  BY <1>2 DEF Packets
<1> HIDE DEF p
<1>4. /\ KeptBefore(p) \in Seq(Piece) /\ Len(KeptBefore(p)) \in Nat
      /\ NumberOf(p) \in Int /\ -1 =< NumberOf(p)
      /\ NumberOf(p) =< Len(KeptBefore(p)) + gaps
  <2>1. <<>> \in Seq(Piece) /\ Len(<<>>) = 0
    OBVIOUS
  <2> QED
    BY <2>1, ReaderTypes DEF KeptBefore, NumberOf
<1>5. CASE ReadDiscard(w)
  <2>1. /\ buf' = <<>> /\ expect' = 0
        /\ UNCHANGED <<msg, total, magic, got, gaps, repeats>>
    BY <1>5 DEF ReadDiscard, AfterDiscard
  <2>2. /\ buf' \in Seq(Piece) /\ expect' \in Int /\ -1 =< expect'
        /\ expect' =< Len(buf') + gaps'
    BY <2>1, ReaderTypes
  <2> QED
    BY <1>2, <2>1, <2>2, ReaderTypes, ReaderStep
<1>6. CASE ReadRepeated(w)
  <2>1. /\ buf' = KeptBefore(p) /\ expect' = NumberOf(p)
        /\ UNCHANGED <<msg, total, magic, got, gaps, repeats>>
    BY <1>6 DEF ReadRepeated, p
  <2>2. /\ buf' \in Seq(Piece) /\ expect' \in Int /\ -1 =< expect'
        /\ expect' =< Len(buf') + gaps'
    BY <1>4, <2>1
  <2> QED
    BY <1>2, <2>1, <2>2, ReaderTypes, ReaderStep
<1>7. CASE ReadAccept(w)
  <2> DEFINE data == Append(KeptBefore(p), p.piece)
             next == NumberOf(p) + 1
             done == Complete(data, p.total, next)
  <2>1. /\ data \in Seq(Piece) /\ Len(data) = Len(KeptBefore(p)) + 1
        /\ next \in Int /\ 0 =< next /\ next =< Len(data) + gaps
    <3>1. data \in Seq(Piece) /\ Len(data) = Len(KeptBefore(p)) + 1
      BY <1>3, <1>4
    <3>2. gaps \in Nat
      BY ReaderTypes
    <3> QED
      BY <1>4, <3>1, <3>2
  <2>2. /\ magic' = (IF RootReads THEN magic ELSE p.piece)
        /\ got' = (IF done THEN Append(got, data) ELSE got)
        /\ buf' = (IF done THEN <<>> ELSE data)
        /\ expect' = (IF done THEN 0 ELSE next)
        /\ total' = (IF done THEN 0 ELSE p.total)
        /\ UNCHANGED <<msg, gaps, repeats>>
    BY <1>7 DEF ReadAccept, p
  <2> HIDE DEF data, next, done
  <2>3. /\ got' \in Seq(Seq(Piece)) /\ buf' \in Seq(Piece)
        /\ magic' \in Piece \union {NoPiece}
    BY <1>3, <2>1, <2>2, ReaderTypes
  <2>4. /\ expect' \in Int /\ -1 =< expect' /\ expect' =< Len(buf') + gaps'
        /\ total' \in 0 .. TotalMod - 1
    <3>1. Len(<<>>) = 0 /\ gaps \in Nat /\ 0 \in 0 .. TotalMod - 1
      BY ReaderTypes
    <3> QED
      BY <1>3, <2>1, <2>2, <3>1
  <2> QED
    BY <1>2, <2>2, <2>3, <2>4, ReaderTypes, ReaderStep
<1> QED
  BY <1>5, <1>6, <1>7 DEF Read

\* The read that gives up, and the read that waits for the mesh to start again.
LEMMA GapTypes ==
  ASSUME TransferTypeOK, ReadFails \/ ReadNotStarted
  PROVE  TransferTypeOK'
<1>1. gaps' \in 0 .. Gaps /\ gaps' = gaps + 1 /\ gaps \in Nat
  BY CountTypes DEF ReadFails, ReadNotStarted, Gap
<1>2. UNCHANGED <<msg, wire, magic, repeats>>
  BY DEF ReadFails, ReadNotStarted
<1>3. /\ \/ buf' = <<>> /\ expect' = 0 /\ total' = 0
         \/ buf' = buf /\ expect' = expect + 1 /\ total' = total
      /\ got' = got \/ got' = Append(got, buf)
  BY DEF ReadFails, ReadNotStarted
<1>4. buf' \in Seq(Piece) /\ total' \in 0 .. TotalMod - 1 /\ got' \in Seq(Seq(Piece))
  <2>1. 0 \in 0 .. TotalMod - 1
    OBVIOUS
  <2>2. Append(got, buf) \in Seq(Seq(Piece)) /\ got \in Seq(Seq(Piece))
    BY ReaderTypes
  <2>3. buf \in Seq(Piece) /\ <<>> \in Seq(Piece) /\ total \in 0 .. TotalMod - 1
    BY ReaderTypes
  <2> QED
    BY <1>3, <2>1, <2>2, <2>3
<1>5. expect' \in Int /\ -1 =< expect' /\ expect' =< Len(buf') + gaps'
  BY <1>1, <1>3, ReaderTypes
<1> QED
  BY <1>1, <1>2, <1>4, <1>5, ReaderTypes, ReaderStep

LEMMA TransferTypeInit == TransferInit => TransferTypeOK
BY DEF TransferInit, TransferTypeOK, Writing

LEMMA TransferTypeStep == TransferTypeOK /\ [TransferNext]_transferVars => TransferTypeOK'
<1> SUFFICES ASSUME TransferTypeOK, [TransferNext]_transferVars
             PROVE  TransferTypeOK'
  OBVIOUS
<1>1. CASE UNCHANGED transferVars
  BY <1>1 DEF transferVars, TransferTypeOK, Writing
<1> QED
  BY <1>1, GapTypes, WriteTypes, ReadTypes DEF TransferNext

\* The state of writers, mesh and reader keeps its type, and the number the
\* reader expects runs ahead of the packets it holds only by the times the mesh was
\* stopped.
THEOREM TransferTypeCorrect == TransferSpec => []TransferTypeOK
  BY TransferTypeInit, TransferTypeStep, PTL DEF TransferSpec

-----------------------------------------------------------------------------
(* One writer to mwifi_read.                                               *)

\* The number and the size of a message fit the packet's header, as mwifi_write refuses
\* to send what does not.
MessagesFit == \A s \in Sizes : s =< SeqMod /\ s < TotalMod

\* The packet that is written next, and a line of all the packets the reader has not
\* taken yet, which ends with it.
Next(w) == IF Writing(w) THEN PacketOf(w).piece
           ELSE [from |-> w, msg |-> msg[w].num + 1, num |-> 0, of |-> 0]

Line(w, i) == IF i =< Len(wire[w]) THEN wire[w][i].piece ELSE Next(w)

Later(p, q) == p.msg < q.msg \/ (p.msg = q.msg /\ p.num < q.num)

SamePlace(p, q) == p.msg = q.msg /\ p.num = q.num

\* A packet is followed by a copy of it or by a later one.
Ordered(w) ==
  \A i \in 1 .. Len(wire[w]) :
    /\ wire[w][i].seq = wire[w][i].piece.num
    /\ wire[w][i].total = wire[w][i].piece.of
    /\ wire[w][i].piece.num < wire[w][i].piece.of
    /\ \/ Later(Line(w, i), Line(w, i + 1))
       \/ i < Len(wire[w]) /\ Line(w, i + 1) = Line(w, i)

LEMMA LineTypes ==
  ASSUME TransferTypeOK, NEW w \in Writer
  PROVE  /\ wire[w] \in Seq(Packets) /\ Len(wire[w]) \in Nat
         /\ Next(w).msg \in Nat /\ Next(w).num \in Nat /\ Next(w).from = w
         /\ \A i \in 1 .. Len(wire[w]) : wire[w][i] \in Packets /\ wire[w][i].piece \in Piece
         /\ \A i \in Nat \ {0} : Line(w, i).msg \in Nat /\ Line(w, i).num \in Nat
<1>1. wire[w] \in Seq(Packets) /\ Len(wire[w]) \in Nat
  BY DEF TransferTypeOK
<1>2. msg[w].num \in Nat /\ msg[w].next \in Nat
  BY DEF TransferTypeOK
<1>3. Next(w).msg \in Nat /\ Next(w).num \in Nat /\ Next(w).from = w
  BY <1>2 DEF Next, PacketOf
<1>4. \A i \in 1 .. Len(wire[w]) : wire[w][i] \in Packets /\ wire[w][i].piece \in Piece
  <2>1. \A i \in 1 .. Len(wire[w]) : wire[w][i] \in Packets
    BY <1>1
  <2> QED
    BY <2>1 DEF Packets
<1>5. \A i \in Nat \ {0} : Line(w, i).msg \in Nat /\ Line(w, i).num \in Nat
  <2> TAKE i \in Nat \ {0}
  <2>1. CASE i =< Len(wire[w])
    <3>1. wire[w][i].piece \in Piece
      BY <1>1, <1>4, <2>1
    <3>2. wire[w][i].piece.msg \in Nat /\ wire[w][i].piece.num \in Nat
      BY <3>1 DEF Piece
    <3> QED
      BY <2>1, <3>2 DEF Line
  <2>2. CASE ~ i =< Len(wire[w])
    BY <1>3, <2>2 DEF Line
  <2> QED
    BY <2>1, <2>2
<1> QED
  BY <1>1, <1>3, <1>4, <1>5

\* The same of the next state.
LinesTyped ==
  \A w \in Writer :
    \A i \in Nat \ {0} : Line(w, i).msg \in Nat /\ Line(w, i).num \in Nat

LEMMA NextLineTypes == TransferTypeOK' => LinesTyped'
<1>1. TransferTypeOK => LinesTyped
  BY LineTypes DEF LinesTyped
<1> QED
  BY <1>1, PTL

\* A writer's next packet only gets later.
LEMMA NextGetsLater ==
  ASSUME TransferTypeOK, NEW w \in Writer, Write(w)
  PROVE  /\ WriteBegin(w) => SamePlace(Next(w), Next(w)') /\ UNCHANGED wire
         /\ WritePacket(w) \/ WriteFails(w) => Writing(w) /\ Later(Next(w), Next(w)')
<1>1. /\ msg \in [Writer -> MsgType] /\ msg[w].num \in Nat /\ msg[w].next \in Nat
      /\ msg[w].size \in Nat /\ \A s \in Sizes : s \in Nat /\ s > 0
  <2>1. msg \in [Writer -> MsgType] /\ msg[w] \in MsgType
    BY DEF TransferTypeOK, MsgType
  <2>2. \A s \in Sizes \union {0} : s \in Nat
    OBVIOUS
  <2>3. msg[w].num \in 0 .. Messages /\ msg[w].next \in Nat /\ msg[w].size \in Sizes \union {0}
    BY <2>1 DEF MsgType
  <2>4. \A s \in Sizes : s \in Nat /\ s > 0
    OBVIOUS
  <2>5. msg[w].size \in Nat
    BY <2>2, <2>3
  <2>7. msg[w].num \in Nat
    BY <2>3
  <2>6. msg \in [Writer -> MsgType]
    BY <2>1
  <2> QED
    BY <2>3, <2>4, <2>5, <2>6, <2>7
<1>2. CASE WriteBegin(w)
  <2>1. PICK size \in Sizes :
          msg' = [msg EXCEPT ![w] = [num |-> msg[w].num + 1, size |-> size, next |-> 0]]
    BY <1>2 DEF WriteBegin
  <2>2. msg'[w].num = msg[w].num + 1 /\ msg'[w].size = size /\ msg'[w].next = 0
    BY <1>1, <2>1
  <2>3. ~ Writing(w) /\ Writing(w)'
    BY <1>1, <1>2, <2>2 DEF WriteBegin, Writing
  <2> QED
    BY <1>2, <2>2, <2>3 DEF Next, PacketOf, SamePlace, WriteBegin, Write, WritePacket, WriteFails
<1>3. CASE WritePacket(w) \/ WriteFails(w)
  <2>1. Writing(w) /\ msg'[w].num = msg[w].num /\ msg'[w].size = msg[w].size
        /\ (msg'[w].next = msg[w].next + 1 \/ msg'[w].next = msg[w].size)
    BY <1>1, <1>3 DEF WritePacket, WriteFails, MsgType
  <2>2. msg[w].next < msg[w].size
    BY <2>1 DEF Writing
  <2>3. Next(w).msg = msg[w].num /\ Next(w).num = msg[w].next
    BY <2>1 DEF Next, PacketOf
  <2>4. CASE Writing(w)'
    <3>1. Next(w)'.msg = msg[w].num /\ Next(w)'.num = msg'[w].next
      BY <2>1, <2>4 DEF Next, PacketOf
    <3>2. msg[w].next < msg'[w].next
      BY <1>1, <2>1, <2>2
    <3>3. Later(Next(w), Next(w)')
      BY <2>3, <3>1, <3>2 DEF Later
    <3> QED
      BY <1>3, <2>1, <3>3 DEF WriteBegin
  <2>5. CASE ~ Writing(w)'
    <3>1. Next(w)'.msg = msg[w].num + 1
      BY <2>1, <2>5 DEF Next
    <3>2. Later(Next(w), Next(w)')
      BY <1>1, <2>3, <3>1 DEF Later
    <3> QED
      BY <1>3, <2>1, <3>2 DEF WriteBegin
  <2> QED
    BY <2>4, <2>5
<1> QED
  BY <1>2, <1>3 DEF Write

LEMMA LaterStays ==
  ASSUME NEW p, NEW q, NEW s, p.msg \in Nat, p.num \in Nat, q.msg \in Nat, q.num \in Nat,
         s.msg \in Nat, s.num \in Nat, Later(p, q)
  PROVE  /\ Later(q, s) \/ SamePlace(q, s) => Later(p, s)
         /\ SamePlace(s, p) => Later(s, q)
BY DEF Later, SamePlace

\* What a writer's step adds to its packets under way.
Copies(p) == {<<>>, <<p>>, <<p, p>>}

LEMMA WriteAdds ==
  ASSUME TransferTypeOK, MessagesFit, NEW w \in Writer, Write(w)
  PROVE  /\ UNCHANGED <<buf, expect, magic, got>>
         /\ \E p \in Packets : \E more \in Copies(p) :
              /\ wire'[w] = wire[w] \o more
              /\ more # <<>> => p.seq = p.piece.num /\ p.total = p.piece.of /\ p.piece.num < p.piece.of
              /\ p.piece = Next(w) \/ more = <<>>
              /\ IF more = <<>> THEN SamePlace(Next(w), Next(w)') \/ Later(Next(w), Next(w)')
                                ELSE Later(Next(w), Next(w)')
<1>0. wire \in [Writer -> Seq(Packets)] /\ wire[w] \in Seq(Packets) /\ wire[w] \o <<>> = wire[w]
  BY DEF TransferTypeOK
<1>1. CASE Writing(w)
  <2> DEFINE p == PacketOf(w)
  <2>1. p \in Packets /\ p.piece = Next(w)
    BY <1>1, PacketType DEF Next
  <2>2. p.seq = p.piece.num /\ p.total = p.piece.of /\ p.piece.num < p.piece.of
    <3>1. msg[w].next \in Nat /\ msg[w].next < msg[w].size /\ msg[w].size \in Sizes
      <4>1. p.piece \in Piece
        BY <2>1 DEF Packets
      <4> QED
        BY <1>1, <4>1 DEF Writing, PacketOf, Piece
    <3>2. msg[w].size =< SeqMod /\ msg[w].size < TotalMod /\ msg[w].size \in Nat
      BY <3>1 DEF MessagesFit
    <3>3. msg[w].next % SeqMod = msg[w].next
      BY <3>1, <3>2
    <3>4. msg[w].size % TotalMod = msg[w].size
      BY <3>2
    <3> QED
      BY <3>1, <3>3, <3>4 DEF PacketOf
  <2>3. ~ WriteBegin(w)
    BY <1>1 DEF WriteBegin
  <2>4. Later(Next(w), Next(w)') /\ (WritePacket(w) \/ WriteFails(w))
    BY <2>3, NextGetsLater DEF Write
  <2>5. \E more \in Copies(p) : wire'[w] = wire[w] \o more
    <3>1. CASE WritePacket(w)
      <4>1. Append(wire[w], p) = wire[w] \o <<p>>
        BY <1>0, <2>1
      <4>2. \/ wire' = [wire EXCEPT ![w] = Append(wire[w], p)]
            \/ wire' = wire
            \/ wire' = [wire EXCEPT ![w] = wire[w] \o <<p, p>>]
        BY <3>1 DEF WritePacket
      <4> HIDE DEF p
      <4>3. \/ wire'[w] = wire[w] \o <<p>> \/ wire'[w] = wire[w] \o <<p, p>> \/ wire'[w] = wire[w] \o <<>>
        BY <1>0, <4>1, <4>2
      <4> QED
        BY <4>3 DEF Copies
    <3>2. CASE WriteFails(w)
      BY <1>0, <3>2 DEF WriteFails, Copies
    <3> QED
      BY <2>4, <3>1, <3>2
  <2>6. UNCHANGED <<buf, expect, magic, got>>
    BY <2>4 DEF WritePacket, WriteFails
  <2> HIDE DEF p
  <2> QED
    BY <2>1, <2>2, <2>4, <2>5, <2>6
<1>2. CASE ~ Writing(w)
  <2>1. WriteBegin(w)
    BY <1>2 DEF Write, WritePacket, WriteFails
  <2>2. SamePlace(Next(w), Next(w)') /\ wire' = wire
    BY <2>1, NextGetsLater
  <2>3. UNCHANGED <<buf, expect, magic, got>>
    BY <2>1 DEF WriteBegin
  <2>4. PICK p : p \in Packets
    <3>1. PICK size \in Sizes : TRUE
      BY <2>1 DEF WriteBegin
    <3>2. msg[w].num \in 0 .. Messages /\ msg[w].num < Messages
      BY <2>1 DEF WriteBegin, TransferTypeOK
    <3>3. [from |-> w, msg |-> 1, num |-> 0, of |-> size] \in Piece
      BY <3>2 DEF Piece
    <3>4. [piece |-> [from |-> w, msg |-> 1, num |-> 0, of |-> size], seq |-> 0, total |-> 0] \in Packets
      BY <3>3 DEF Packets
    <3> QED
      BY <3>4
  <2> QED
    BY <1>0, <2>2, <2>3, <2>4 DEF Copies
<1> QED
  BY <1>1, <1>2

\* The packet the reader takes next, and whether it is a copy of the one taken last.
First(w) == Line(w, 1)

IsCopy(w) == wire[w] # <<>> /\ wire[w][1].piece = magic

\* The line of a writer when n packets are under way and more are added, all p.
Grown(w, n, p, more) ==
  /\ \A i \in 1 .. n : wire'[w][i] = wire[w][i] /\ Line(w, i)' = Line(w, i)
  /\ Len(wire'[w]) = n + Len(more)
  /\ \A i \in 1 .. Len(more) : wire'[w][n + i] = p /\ Line(w, n + i)' = p.piece
  /\ Line(w, n + Len(more) + 1)' = Next(w)'
  /\ Len(more) \in {0, 1, 2}

LEMMA LineGrows ==
  ASSUME TransferTypeOK, TransferTypeOK', NEW w \in Writer, NEW p \in Packets, NEW more \in Copies(p),
         wire'[w] = wire[w] \o more, NEW n \in Nat, n = Len(wire[w])
  PROVE  Grown(w, n, p, more)
<1>1. wire[w] \in Seq(Packets) /\ more \in Seq(Packets) /\ Len(more) \in {0, 1, 2}
      /\ \A i \in 1 .. Len(more) : more[i] = p
  <2>1. wire[w] \in Seq(Packets)
    BY DEF TransferTypeOK
  <2>2. CASE more = <<>>
    BY <2>1, <2>2
  <2>3. CASE more = <<p>>
    BY <2>1, <2>3
  <2>4. CASE more = <<p, p>>
    BY <2>1, <2>4
  <2> QED
    BY <2>2, <2>3, <2>4 DEF Copies
<1>2. wire'[w] \in Seq(Packets) /\ Len(wire'[w]) = n + Len(more)
  BY <1>1
<1>3. \A i \in 1 .. n : wire'[w][i] = wire[w][i]
  BY <1>1
<1>4. \A i \in 1 .. Len(more) : wire'[w][n + i] = p
  BY <1>1
<1>5. \A i \in 1 .. n : Line(w, i)' = Line(w, i)
  BY <1>1, <1>2, <1>3 DEF Line
<1>6. \A i \in 1 .. Len(more) : Line(w, n + i)' = p.piece
  <2> TAKE i \in 1 .. Len(more)
  <2>1. n + i =< Len(wire'[w])
    BY <1>1, <1>2
  <2> QED
    BY <1>4, <2>1 DEF Line
<1>7. Line(w, n + Len(more) + 1)' = Next(w)'
  BY <1>1, <1>2 DEF Line
<1> QED
  BY <1>1, <1>2, <1>3, <1>4, <1>5, <1>6, <1>7 DEF Grown

LEMMA WriteKeepsOrder ==
  ASSUME TransferTypeOK, TransferTypeOK', MessagesFit, NEW w \in Writer, Write(w), Ordered(w)
  PROVE  /\ Ordered(w)'
         /\ SamePlace(First(w), First(w)') \/ Later(First(w), First(w)')
         /\ wire[w] # <<>> => wire'[w] # <<>> /\ First(w)' = First(w) /\ wire'[w][1] = wire[w][1]
         /\ IsCopy(w) => IsCopy(w)'
         /\ UNCHANGED <<buf, expect, magic, got>>
<1>a. PICK n \in Nat : n = Len(wire[w])
  BY LineTypes
<1>0. PICK p \in Packets : \E more \in Copies(p) :
        /\ wire'[w] = wire[w] \o more
        /\ more # <<>> => p.seq = p.piece.num /\ p.total = p.piece.of /\ p.piece.num < p.piece.of
        /\ p.piece = Next(w) \/ more = <<>>
        /\ IF more = <<>> THEN SamePlace(Next(w), Next(w)') \/ Later(Next(w), Next(w)')
                          ELSE Later(Next(w), Next(w)')
  BY WriteAdds
<1>1. PICK more \in Copies(p) :
        /\ wire'[w] = wire[w] \o more
        /\ more # <<>> => p.seq = p.piece.num /\ p.total = p.piece.of /\ p.piece.num < p.piece.of
        /\ p.piece = Next(w) \/ more = <<>>
        /\ IF more = <<>> THEN SamePlace(Next(w), Next(w)') \/ Later(Next(w), Next(w)')
                          ELSE Later(Next(w), Next(w)')
  BY <1>0
<1> DEFINE k == Len(more)
<1>2. /\ \A i \in 1 .. n : wire'[w][i] = wire[w][i] /\ Line(w, i)' = Line(w, i)
      /\ Len(wire'[w]) = n + k
      /\ \A i \in 1 .. k : wire'[w][n + i] = p /\ Line(w, n + i)' = p.piece
      /\ Line(w, n + k + 1)' = Next(w)'
      /\ k \in {0, 1, 2}
  <2>1. wire'[w] = wire[w] \o more
    BY <1>1
  <2>2. Grown(w, n, p, more)
    BY <1>a, <2>1, LineGrows
  <2> QED
    BY <2>2 DEF Grown
<1>3. n \in Nat /\ n = Len(wire[w]) /\ wire[w] \in Seq(Packets) /\ wire'[w] \in Seq(Packets)
  BY <1>a DEF TransferTypeOK
<1>4. k = 0 <=> more = <<>>
  BY DEF Copies
<1> HIDE DEF k
<1>5. \A i \in 1 .. n + k + 1 : Line(w, i).msg \in Nat /\ Line(w, i).num \in Nat
                            /\ Line(w, i)'.msg \in Nat /\ Line(w, i)'.num \in Nat
  <2>1. \A i \in 1 .. n + k + 1 : i \in Nat \ {0}
    BY <1>2, <1>3
  <2>2. \A i \in Nat \ {0} : Line(w, i)'.msg \in Nat /\ Line(w, i)'.num \in Nat
    BY NextLineTypes DEF LinesTyped
  <2> QED
    BY <2>1, <2>2, LineTypes
<1>6. Line(w, n + 1) = Next(w)
  BY <1>3 DEF Line
<1>7. SamePlace(Next(w), Line(w, n + 1)') \/ Later(Next(w), Line(w, n + 1)')
  <2>1. CASE k = 0
    <3>1. n + k + 1 = n + 1
      BY <1>3, <2>1
    <3> QED
      BY <1>1, <1>2, <1>4, <2>1, <3>1
  <2>2. CASE k # 0
    <3>1. 1 \in 1 .. k
      BY <1>2, <2>2
    <3>2. Line(w, n + 1)' = Next(w)
      BY <1>1, <1>2, <1>4, <2>2, <3>1
    <3> QED
      BY <3>2 DEF SamePlace
  <2> QED
    BY <2>1, <2>2
<1>8. Ordered(w)'
  <2> SUFFICES ASSUME NEW i \in 1 .. n + k
               PROVE  /\ wire'[w][i].seq = wire'[w][i].piece.num
                      /\ wire'[w][i].total = wire'[w][i].piece.of
                      /\ wire'[w][i].piece.num < wire'[w][i].piece.of
                      /\ \/ Later(Line(w, i)', Line(w, i + 1)')
                         \/ i < n + k /\ Line(w, i + 1)' = Line(w, i)'
    BY <1>2 DEF Ordered, Later
  <2>1. CASE i < n
    <3>1. i \in 1 .. n /\ i + 1 \in 1 .. n /\ i < n + k
      BY <1>2, <1>3, <2>1
    <3>2. Line(w, i)' = Line(w, i) /\ Line(w, i + 1)' = Line(w, i + 1) /\ wire'[w][i] = wire[w][i]
      BY <1>2, <3>1
    <3> QED
      BY <1>3, <3>1, <3>2 DEF Ordered
  <2>2. CASE i = n
    <3>1. i \in 1 .. n /\ ~ i < n
      BY <1>3, <2>2
    <3>2. Line(w, i)' = Line(w, i) /\ wire'[w][i] = wire[w][i]
      BY <1>2, <3>1
    <3>5. Line(w, i + 1) = Next(w)
      BY <1>6, <2>2
    <3>6. Later(Line(w, i), Next(w))
      BY <1>3, <3>1, <3>5 DEF Ordered
    <3>3. i \in 1 .. n + k + 1 /\ n + 1 \in 1 .. n + k + 1
      BY <1>2, <1>3, <3>1
    <3>4. Later(Line(w, i), Line(w, n + 1)')
      <4>1. /\ Line(w, i).msg \in Nat /\ Line(w, i).num \in Nat
            /\ Next(w).msg \in Nat /\ Next(w).num \in Nat
            /\ Line(w, n + 1)'.msg \in Nat /\ Line(w, n + 1)'.num \in Nat
        BY <1>5, <1>6, <3>3
      <4> QED
        BY <1>7, <3>6, <4>1 DEF Later, SamePlace
    <3>7. Line(w, i + 1)' = Line(w, n + 1)'
      BY <2>2
    <3> QED
      BY <1>3, <3>1, <3>2, <3>4, <3>7 DEF Ordered
  <2>3. CASE i > n
    <3>1. PICK j \in 1 .. k : i = n + j
      <4>1. i - n \in 1 .. k /\ i = n + (i - n)
        BY <1>2, <1>3, <2>3
      <4> QED
        BY <4>1
    <3>5. more # <<>>
      BY <1>4, <3>1
    <3>6. wire'[w][n + j] = p /\ Line(w, n + j)' = p.piece
      BY <1>2, <3>1
    <3>2. wire'[w][i] = p /\ Line(w, i)' = Next(w) /\ more # <<>>
      BY <1>1, <3>1, <3>5, <3>6
    <3>3. CASE j = k
      <4>1. i + 1 = n + k + 1
        BY <1>2, <1>3, <3>1, <3>3
      <4> QED
        BY <1>1, <1>2, <3>2, <4>1
    <3>4. CASE j # k
      <4>1. j + 1 \in 1 .. k /\ i + 1 = n + (j + 1) /\ i < n + k
        <5>1. k \in Nat /\ j \in 1 .. k /\ i = n + j /\ n \in Nat
          BY <1>2, <1>3, <3>1
        <5> QED
          BY <3>4, <5>1
      <4>2. Line(w, i + 1)' = Next(w)
        BY <1>1, <1>2, <3>2, <4>1
      <4> QED
        BY <1>1, <3>2, <4>1, <4>2
    <3> QED
      BY <3>3, <3>4
  <2> QED
    BY <1>2, <1>3, <2>1, <2>2, <2>3
<1>9. wire[w] # <<>> => wire'[w] # <<>> /\ First(w)' = First(w) /\ wire'[w][1] = wire[w][1]
  <2> HAVE wire[w] # <<>>
  <2>1. n >= 1 /\ 1 \in 1 .. n /\ n + k >= 1
    BY <1>2, <1>3
  <2>2. wire'[w] # <<>>
    BY <1>2, <2>1
  <2> QED
    BY <1>2, <2>1, <2>2 DEF First
<1>10. SamePlace(First(w), First(w)') \/ Later(First(w), First(w)')
  <2>1. CASE wire[w] = <<>>
    <3>1. n + 1 = 1
      BY <1>a, <2>1
    <3> QED
      BY <1>6, <1>7, <3>1 DEF First
  <2> QED
    BY <1>9, <2>1 DEF SamePlace
<1>11. UNCHANGED <<buf, expect, magic, got>>
  BY WriteAdds
<1>12. IsCopy(w) => IsCopy(w)'
  BY <1>9, <1>11 DEF IsCopy
<1> QED
  BY <1>8, <1>9, <1>10, <1>11, <1>12

\* The three things mwifi_read does with a packet h, in terms of what it held.
Discards(h) ==
  /\ h.num # expect /\ h.num # 0
  /\ buf' = <<>> /\ expect' = 0 /\ UNCHANGED <<magic, got>>

Filters(h) ==
  /\ h = magic
  /\ \/ h.num = expect /\ UNCHANGED <<buf, expect>>
     \/ h.num # expect /\ h.num = 0 /\ buf' = <<>> /\ expect' = -1
  /\ UNCHANGED <<magic, got>>

Accepts(h) ==
  /\ h # magic /\ magic' = h
  /\ \E kept \in {buf, <<>>} :
       /\ \/ h.num = expect /\ kept = buf
          \/ h.num # expect /\ h.num = 0 /\ kept = <<>>
       /\ IF Len(kept) + 1 >= h.of
            THEN got' = Append(got, Append(kept, h)) /\ buf' = <<>> /\ expect' = 0
            ELSE /\ got' = got /\ buf' = Append(kept, h)
                 /\ expect' = IF h.num = expect THEN expect + 1 ELSE 0

LEMMA ReadCases ==
  ASSUME TransferTypeOK, ~ RootReads, NEW w \in Writer, Read(w), Ordered(w)
  PROVE  /\ wire[w] # <<>> /\ First(w) = wire[w][1].piece /\ First(w) \in Piece
         /\ First(w).num < First(w).of
         /\ wire' = [wire EXCEPT ![w] = Tail(wire[w])] /\ UNCHANGED <<msg, gaps, repeats>>
         /\ Discards(First(w)) \/ Filters(First(w)) \/ Accepts(First(w))
<1> DEFINE p == wire[w][1]
<1>1. /\ wire[w] \in Seq(Packets) /\ wire[w] # <<>> /\ Head(wire[w]) = p
      /\ wire' = [wire EXCEPT ![w] = Tail(wire[w])] /\ UNCHANGED <<msg, gaps, repeats>>
  <2>1. wire[w] \in Seq(Packets)
    BY ReaderTypes
  <2> QED
    BY <2>1 DEF Read, ReadDiscard, ReadRepeated, ReadAccept
<1>2. 1 \in 1 .. Len(wire[w])
  BY <1>1
<1>3. /\ First(w) = p.piece /\ p.piece \in Piece
      /\ p.seq = p.piece.num /\ p.total = p.piece.of /\ p.piece.num < p.piece.of
  <2>1. First(w) = p.piece
    BY <1>2 DEF First, Line
  <2> QED
    BY <1>2, <2>1, LineTypes DEF Ordered
<1>4. p.piece.num \in Nat /\ p.piece.of \in Nat
  <2>1. \A s \in Sizes : s \in Nat
    OBVIOUS
  <2> QED
    BY <1>3, <2>1 DEF Piece
<1>5. expect \in Int /\ Len(buf) \in Nat /\ buf \in Seq(Piece)
  BY ReaderTypes
<1> HIDE DEF p
<1>6. CASE ReadDiscard(w)
  <2>1. Discards(p.piece)
    BY <1>1, <1>3, <1>6 DEF ReadDiscard, Cut, AfterDiscard, Discards
  <2> QED
    BY <1>1, <1>3, <2>1
<1>7. CASE ReadRepeated(w)
  <2>1. Filters(p.piece)
    BY <1>1, <1>3, <1>7 DEF ReadRepeated, Repeated, Cut, KeptBefore, NumberOf, Filters
  <2> QED
    BY <1>1, <1>3, <2>1
<1>8. CASE ReadAccept(w)
  <2> DEFINE data == Append(KeptBefore(p), p.piece)
             next == NumberOf(p) + 1
             done == Complete(data, p.total, next)
  <2>1. /\ magic' = (IF RootReads THEN magic ELSE p.piece)
        /\ got' = (IF done THEN Append(got, data) ELSE got)
        /\ buf' = (IF done THEN <<>> ELSE data)
        /\ expect' = (IF done THEN 0 ELSE next)
        /\ (Cut(p) => p.seq = 0) /\ ~ Repeated(p)
    BY <1>1, <1>8 DEF ReadAccept
  <2>2. p.piece # magic /\ magic' = p.piece
    BY <2>1 DEF Repeated
  <2>3. KeptBefore(p) \in Seq(Piece)
    BY <1>5 DEF KeptBefore
  <2>4. Len(data) = Len(KeptBefore(p)) + 1
    BY <1>3, <2>3
  <2>5. done <=> Len(KeptBefore(p)) + 1 >= p.piece.of
    BY <1>3, <2>4 DEF Complete
  <2> HIDE DEF data, next, done
  <2>6. CASE Cut(p)
    <3>1. p.piece.num # expect /\ p.piece.num = 0 /\ KeptBefore(p) = <<>> /\ next = 0
          /\ data = Append(<<>>, p.piece)
      BY <1>3, <2>1, <2>6 DEF Cut, KeptBefore, next, NumberOf, data
    <3> QED
      BY <1>1, <1>3, <2>1, <2>2, <2>5, <3>1 DEF Accepts
  <2>7. CASE ~ Cut(p)
    <3>1. p.piece.num = expect /\ KeptBefore(p) = buf /\ next = expect + 1
          /\ data = Append(buf, p.piece)
      BY <1>3, <2>1, <2>7 DEF Cut, KeptBefore, next, NumberOf, data
    <3> QED
      BY <1>1, <1>3, <2>1, <2>2, <2>5, <3>1 DEF Accepts
  <2> QED
    BY <2>6, <2>7
<1> QED
  BY <1>6, <1>7, <1>8 DEF Read

\* What the reader does between two packets.
LEMMA GapCases ==
  ASSUME TransferTypeOK, ~ RootReads, ReadFails \/ ReadNotStarted
  PROVE  /\ UNCHANGED <<msg, wire, magic, got, repeats>> /\ gaps' = gaps + 1
         /\ \/ buf' = <<>> /\ expect' = 0
            \/ buf' = buf /\ expect' = expect + 1
BY DEF ReadFails, ReadNotStarted, Gap

\* Once the first packet is taken, the second is the first.
LEMMA ReadMoves ==
  ASSUME TransferTypeOK, TransferTypeOK', NEW w \in Writer, Ordered(w), wire[w] # <<>>,
         wire' = [wire EXCEPT ![w] = Tail(wire[w])], UNCHANGED msg
  PROVE  /\ Ordered(w)' /\ First(w)' = Line(w, 2)
         /\ Len(wire[w]) \in Nat \ {0} /\ Len(wire'[w]) = Len(wire[w]) - 1
         /\ \A i \in Nat \ {0} : Line(w, i)' = Line(w, i + 1)
         /\ \/ Later(First(w), First(w)')
            \/ /\ First(w)' = First(w) /\ wire'[w] # <<>> /\ wire'[w][1].piece = First(w)
<1> DEFINE n == Len(wire[w])
<1>1. /\ wire[w] \in Seq(Packets) /\ n \in Nat \ {0} /\ wire'[w] = Tail(wire[w])
      /\ wire'[w] \in Seq(Packets) /\ Len(wire'[w]) = n - 1
      /\ \A i \in 1 .. n - 1 : wire'[w][i] = wire[w][i + 1]
  <2>1. wire[w] \in Seq(Packets) /\ wire'[w] = Tail(wire[w])
    BY DEF TransferTypeOK
  <2>2. \A q \in Seq(Packets) : q # <<>> =>
          /\ Len(q) \in Nat \ {0} /\ Tail(q) \in Seq(Packets) /\ Len(Tail(q)) = Len(q) - 1
          /\ \A i \in 1 .. Len(q) - 1 : Tail(q)[i] = q[i + 1]
    OBVIOUS
  <2> QED
    BY <2>1, <2>2
<1>2. Next(w)' = Next(w)
  BY DEF Next, PacketOf, Writing
<1>3. \A i \in Nat \ {0} : Line(w, i)' = Line(w, i + 1)
  BY <1>1, <1>2 DEF Line
<1>4. Ordered(w)'
  <2> SUFFICES ASSUME NEW i \in 1 .. n - 1
               PROVE  /\ wire'[w][i].seq = wire'[w][i].piece.num
                      /\ wire'[w][i].total = wire'[w][i].piece.of
                      /\ wire'[w][i].piece.num < wire'[w][i].piece.of
                      /\ \/ Later(Line(w, i)', Line(w, i + 1)')
                         \/ i < n - 1 /\ Line(w, i + 1)' = Line(w, i)'
    BY <1>1 DEF Ordered, Later
  <2>1. i + 1 \in 1 .. n /\ i \in Nat \ {0} /\ i + 1 \in Nat \ {0} /\ (i + 1 < n <=> i < n - 1)
    BY <1>1
  <2>2. Line(w, i)' = Line(w, i + 1) /\ Line(w, i + 1)' = Line(w, (i + 1) + 1)
    BY <1>3, <2>1
  <2> HIDE DEF n
  <2> QED
    BY <1>1, <2>1, <2>2 DEF Ordered, n
<1>5. First(w)' = Line(w, 2) /\ First(w)' = Line(w, 1 + 1)
  BY <1>3 DEF First
<1>6. \/ Later(First(w), First(w)')
      \/ /\ First(w)' = First(w) /\ wire'[w] # <<>> /\ wire'[w][1].piece = First(w)
  <2>1. 1 \in 1 .. n
    BY <1>1
  <2>2. CASE Later(Line(w, 1), Line(w, 1 + 1))
    BY <1>5, <2>2 DEF First
  <2>3. CASE 1 < n /\ Line(w, 1 + 1) = Line(w, 1)
    <3>1. wire'[w] # <<>> /\ 1 \in 1 .. Len(wire'[w])
      <4>1. Len(wire'[w]) \in Nat /\ Len(wire'[w]) >= 1
        BY <1>1, <2>3
      <4> QED
        BY <4>1
    <3>2. First(w)' = wire'[w][1].piece
      BY <3>1 DEF First, Line
    <3> QED
      BY <1>5, <2>3, <3>1, <3>2 DEF First
  <2> QED
    BY <2>1, <2>2, <2>3 DEF Ordered
<1> QED
  BY <1>1, <1>3, <1>4, <1>5, <1>6

\* Nothing is left that could begin message m, or an earlier one, once more.
Over(m, w) == m =< First(w).msg /\ (m = First(w).msg => First(w).num >= 1 \/ IsCopy(w))

\* The messages that were read.
Taken == {got[i][1].msg : i \in DOMAIN got}

OrderInv(w) ==
  /\ Ordered(w)
  /\ \A i \in DOMAIN got : got[i] # <<>>
  /\ \A m \in Taken : Over(m, w)
  /\ \A i, j \in DOMAIN got : i < j => got[i][1].msg < got[j][1].msg
  /\ buf # <<>> => buf[1].msg =< First(w).msg
  /\ buf # <<>> /\ expect =< Len(buf) => \A i \in DOMAIN got : got[i][1].msg < buf[1].msg

LEMMA HeldTypes ==
  ASSUME TransferTypeOK, NEW w \in Writer
  PROVE  /\ First(w).msg \in Nat /\ First(w).num \in Nat
         /\ buf \in Seq(Piece) /\ Len(buf) \in Nat /\ expect \in Int
         /\ buf # <<>> => 1 \in 1 .. Len(buf) /\ buf[1] \in Piece /\ buf[1].msg \in Nat
         /\ got \in Seq(Seq(Piece)) /\ Len(got) \in Nat /\ DOMAIN got = 1 .. Len(got)
         /\ \A i \in DOMAIN got : got[i] \in Seq(Piece)
                               /\ (got[i] # <<>> => got[i][1] \in Piece /\ got[i][1].msg \in Nat)
<1>1. First(w).msg \in Nat /\ First(w).num \in Nat
  BY LineTypes DEF First
<1>2. \A q \in Seq(Piece) : q # <<>> => 1 \in 1 .. Len(q) /\ q[1] \in Piece /\ q[1].msg \in Nat
  <2> TAKE q \in Seq(Piece)
  <2> HAVE q # <<>>
  <2>1. 1 \in 1 .. Len(q) /\ q[1] \in Piece
    OBVIOUS
  <2> QED
    BY <2>1 DEF Piece
<1>3. buf \in Seq(Piece) /\ Len(buf) \in Nat /\ expect \in Int
  BY ReaderTypes
<1>4. got \in Seq(Seq(Piece)) /\ Len(got) \in Nat /\ DOMAIN got = 1 .. Len(got)
  BY ReaderTypes
<1>5. \A i \in DOMAIN got : got[i] \in Seq(Piece)
  BY <1>4
<1> QED
  BY <1>1, <1>2, <1>3, <1>4, <1>5

LEMMA ReadEnds ==
  ASSUME TransferTypeOK, TransferTypeOK', ~ RootReads, NEW w \in Writer, Read(w), Ordered(w),
         NEW m \in Nat, m =< First(w).msg
  PROVE  Over(m, w)'
<1>1. /\ wire[w] # <<>> /\ First(w) = wire[w][1].piece
      /\ wire' = [wire EXCEPT ![w] = Tail(wire[w])] /\ UNCHANGED msg
      /\ Discards(First(w)) \/ Filters(First(w)) \/ Accepts(First(w))
  BY ReadCases
<1>2. \/ Later(First(w), First(w)')
      \/ /\ First(w)' = First(w) /\ wire'[w] # <<>> /\ wire'[w][1].piece = First(w)
  BY <1>1, ReadMoves
<1>3. /\ First(w).msg \in Nat /\ First(w).num \in Nat
      /\ First(w)'.msg \in Nat /\ First(w)'.num \in Nat
  BY HeldTypes, NextLineTypes DEF LinesTyped, First
<1>4. CASE Later(First(w), First(w)')
  <2>1. m =< First(w)'.msg /\ (m = First(w)'.msg => First(w)'.num >= 1)
    BY <1>3, <1>4 DEF Later
  <2> QED
    BY <2>1 DEF Over
<1>5. CASE /\ First(w)' = First(w) /\ wire'[w] # <<>> /\ wire'[w][1].piece = First(w)
  <2>1. CASE Discards(First(w))
    BY <1>3, <1>5, <2>1 DEF Discards, Over
  <2>2. CASE Filters(First(w)) \/ Accepts(First(w))
    <3>1. magic' = First(w)
      BY <2>2 DEF Filters, Accepts
    <3> QED
      BY <1>5, <3>1 DEF IsCopy, Over
  <2> QED
    BY <1>1, <2>1, <2>2
<1> QED
  BY <1>2, <1>4, <1>5

LEMMA OrderWrites ==
  ASSUME TransferTypeOK, TransferTypeOK', MessagesFit, NEW w \in Writer, Write(w), OrderInv(w)
  PROVE  OrderInv(w)'
<1>1. /\ Ordered(w)'
      /\ SamePlace(First(w), First(w)') \/ Later(First(w), First(w)')
      /\ wire[w] # <<>> => wire'[w] # <<>> /\ First(w)' = First(w) /\ wire'[w][1] = wire[w][1]
      /\ IsCopy(w) => IsCopy(w)'
      /\ UNCHANGED <<buf, expect, magic, got>>
  BY WriteKeepsOrder DEF OrderInv
<1>2. /\ First(w).msg \in Nat /\ First(w).num \in Nat
      /\ First(w)'.msg \in Nat /\ First(w)'.num \in Nat
  BY HeldTypes, NextLineTypes DEF LinesTyped, First
<1>3. \A m \in Nat : Over(m, w) => Over(m, w)'
  BY <1>1, <1>2 DEF Over, SamePlace, Later
<1>4. Taken' = Taken /\ Taken \subseteq Nat
  BY <1>1, HeldTypes DEF OrderInv, Taken
<1>5. \A m \in Taken' : Over(m, w)'
  BY <1>3, <1>4 DEF OrderInv
<1>6. buf # <<>> => buf[1].msg =< First(w)'.msg
  <2>1. First(w).msg =< First(w)'.msg
    BY <1>1, <1>2 DEF SamePlace, Later
  <2> QED
    BY <1>2, <2>1, HeldTypes DEF OrderInv
<1> QED
  BY <1>1, <1>5, <1>6 DEF OrderInv

LEMMA OrderGaps ==
  ASSUME TransferTypeOK, TransferTypeOK', ~ RootReads, NEW w \in Writer, OrderInv(w),
         ReadFails \/ ReadNotStarted
  PROVE  OrderInv(w)'
<1>1. /\ UNCHANGED <<msg, wire, magic, got>>
      /\ \/ buf' = <<>> /\ expect' = 0
         \/ buf' = buf /\ expect' = expect + 1
  BY GapCases
<1>2. /\ Ordered(w)' = Ordered(w) /\ First(w)' = First(w) /\ IsCopy(w)' = IsCopy(w)
  BY <1>1 DEF Ordered, First, Line, Later, Next, PacketOf, Writing, IsCopy
<1>3. /\ \A i \in DOMAIN got' : got'[i] # <<>>
      /\ \A i, j \in DOMAIN got' : i < j => got'[i][1].msg < got'[j][1].msg
  BY <1>1 DEF OrderInv
<1>5. \A m \in Taken' : Over(m, w)'
  <2>1. Taken' = Taken
    BY <1>1 DEF Taken
  <2>2. \A m \in Taken : Over(m, w)'
    BY <1>2 DEF OrderInv, Over
  <2> QED
    BY <2>1, <2>2
<1>4. buf' # <<>> => buf' = buf /\ (expect' =< Len(buf') => expect =< Len(buf))
  BY <1>1, HeldTypes
<1> QED
  BY <1>1, <1>2, <1>3, <1>4, <1>5 DEF OrderInv

\* A packet that is accepted continues what was held or begins a message that is
\* later than everything read so far.
LEMMA AcceptBegins ==
  ASSUME TransferTypeOK, NEW w \in Writer, OrderInv(w),
         wire[w] # <<>>, First(w) = wire[w][1].piece, First(w) \in Piece, First(w).num < First(w).of,
         First(w) # magic,
         NEW kept \in {buf, <<>>}, NEW data, data = Append(kept, First(w)),
         \/ First(w).num = expect /\ kept = buf
         \/ First(w).num # expect /\ First(w).num = 0 /\ kept = <<>>,
         \/ Len(data) >= First(w).of
         \/ IF First(w).num = expect THEN expect + 1 =< Len(data) ELSE 0 =< Len(data)
  PROVE  \A i \in DOMAIN got : got[i][1].msg < data[1].msg
<1> DEFINE h == First(w)
<1>1. /\ h.num \in Nat /\ h.of \in Nat /\ h.msg \in Nat /\ h \in Piece /\ h.num < h.of
  <2>1. \A s \in Sizes : s \in Nat
    OBVIOUS
  <2>2. h.of \in Sizes
    BY DEF Piece
  <2> QED
    BY <2>1, <2>2, HeldTypes
<1>2. kept \in Seq(Piece) /\ Len(kept) \in Nat /\ Len(data) = Len(kept) + 1
  <2>1. kept \in Seq(Piece)
    <3>1. buf \in Seq(Piece) /\ <<>> \in Seq(Piece)
      BY HeldTypes
    <3>2. kept = buf \/ kept = <<>>
      OBVIOUS
    <3> QED
      BY <3>1, <3>2
  <2>2. data = Append(kept, h) /\ h \in Piece
    BY <1>1
  <2> HIDE DEF h
  <2> QED
    BY <2>1, <2>2
<1>3. CASE kept # <<>>
  <2>1. kept = buf /\ h.num = expect /\ expect =< Len(buf)
    <3>1. kept = buf /\ h.num = expect
      BY <1>3
    <3> QED
      BY <1>1, <1>2, <3>1
  <2>2. data[1] = buf[1]
    BY <1>1, <1>2, <1>3, <2>1
  <2> QED
    BY <1>3, <2>1, <2>2 DEF OrderInv
<1>4. CASE kept = <<>>
  <2>1. data[1] = h /\ Len(kept) = 0
    BY <1>1, <1>4
  <2>2. h.num = 0
    <3>1. CASE h.num = expect
      BY <1>1, <1>2, <2>1, <3>1
    <3> QED
      BY <3>1
  <2>3. ~ IsCopy(w)
    BY DEF IsCopy
  <2> SUFFICES ASSUME NEW i \in DOMAIN got
               PROVE  got[i][1].msg < data[1].msg
    OBVIOUS
  <2>4. got[i][1].msg \in Nat /\ Over(got[i][1].msg, w)
    BY HeldTypes DEF OrderInv, Taken
  <2> QED
    BY <1>1, <2>1, <2>2, <2>3, <2>4 DEF Over
<1> QED
  BY <1>3, <1>4

LEMMA OrderReads ==
  ASSUME TransferTypeOK, TransferTypeOK', ~ RootReads, NEW w \in Writer, Read(w), OrderInv(w)
  PROVE  OrderInv(w)'
<1> DEFINE h == First(w)
<1>1. /\ wire[w] # <<>> /\ h = wire[w][1].piece /\ h \in Piece /\ h.num < h.of
      /\ wire' = [wire EXCEPT ![w] = Tail(wire[w])] /\ UNCHANGED msg
      /\ Discards(h) \/ Filters(h) \/ Accepts(h)
  BY ReadCases DEF OrderInv
<1>2. Ordered(w)' /\ (Later(h, First(w)') \/ First(w)' = h)
  BY <1>1, ReadMoves DEF OrderInv
<1>3. h.msg \in Nat /\ h.num \in Nat /\ First(w)'.msg \in Nat /\ h.msg =< First(w)'.msg
  <2>1. h.msg \in Nat /\ h.num \in Nat /\ First(w)'.msg \in Nat /\ First(w)'.num \in Nat
    BY HeldTypes, NextLineTypes DEF LinesTyped, First
  <2> QED
    BY <1>2, <2>1 DEF Later
<1>4. \A m \in Nat : m =< h.msg => Over(m, w)'
  BY ReadEnds DEF OrderInv
<1>5. /\ \A i \in DOMAIN got : got[i] # <<>>
      /\ \A m \in Taken : m \in Nat /\ Over(m, w)'
  <2>1. Taken \subseteq Nat /\ \A m \in Taken : m =< h.msg
    BY HeldTypes DEF OrderInv, Over, Taken
  <2> QED
    BY <1>4, <2>1 DEF OrderInv
<1>6. CASE got' = got /\ (buf' = <<>> \/ (buf' = buf /\ expect' = expect))
  <2>1. /\ \A i \in DOMAIN got' : got'[i] # <<>>
        /\ \A m \in Taken' : Over(m, w)'
        /\ \A i, j \in DOMAIN got' : i < j => got'[i][1].msg < got'[j][1].msg
    <3>1. Taken' = Taken
      BY <1>6 DEF Taken
    <3> QED
      BY <1>5, <1>6, <3>1 DEF OrderInv
  <2>2. buf' # <<>> => buf'[1].msg =< First(w)'.msg
    BY <1>3, <1>6, HeldTypes DEF OrderInv
  <2>3. buf' # <<>> /\ expect' =< Len(buf') => \A i \in DOMAIN got' : got'[i][1].msg < buf'[1].msg
    BY <1>6 DEF OrderInv
  <2> QED
    BY <1>2, <2>1, <2>2, <2>3 DEF OrderInv
<1>7. CASE Accepts(h)
  <2>1. PICK kept \in {buf, <<>>} :
          /\ \/ h.num = expect /\ kept = buf
             \/ h.num # expect /\ h.num = 0 /\ kept = <<>>
          /\ IF Len(kept) + 1 >= h.of
               THEN got' = Append(got, Append(kept, h)) /\ buf' = <<>> /\ expect' = 0
               ELSE /\ got' = got /\ buf' = Append(kept, h)
                    /\ expect' = IF h.num = expect THEN expect + 1 ELSE 0
    BY <1>7 DEF Accepts
  <2> DEFINE data == Append(kept, h)
  <2>2. h # magic
    BY <1>7 DEF Accepts
  <2>3. kept \in Seq(Piece) /\ data \in Seq(Piece) /\ Len(data) = Len(kept) + 1 /\ data # <<>>
    <3>1. kept \in Seq(Piece)
      <4>1. buf \in Seq(Piece) /\ <<>> \in Seq(Piece)
        BY HeldTypes
      <4>2. kept = buf \/ kept = <<>>
        OBVIOUS
      <4> QED
        BY <4>1, <4>2
    <3>2. h \in Piece
      BY <1>1
    <3> HIDE DEF h
    <3> QED
      BY <3>1, <3>2
  <2>4. data[1].msg \in Nat /\ data[1].msg =< h.msg
    <3>1. CASE kept = <<>>
      BY <1>1, <1>3, <3>1
    <3>2. CASE kept # <<>>
      <4>1. data[1] = buf[1] /\ buf # <<>>
        BY <1>1, <2>3, <3>2
      <4> QED
        BY <4>1, HeldTypes DEF OrderInv
    <3> QED
      BY <3>1, <3>2
  <2>5. PICK s \in Nat : s = data[1].msg
    BY <2>4
  <2>9. Over(s, w)'
    BY <1>4, <2>4, <2>5
  <2>6. \/ Len(data) >= h.of
        \/ IF h.num = expect THEN expect + 1 =< Len(data) ELSE 0 =< Len(data)
        => \A i \in DOMAIN got : got[i][1].msg < data[1].msg
    BY <1>1, <2>1, <2>2, AcceptBegins
  <2> HIDE DEF data, h
  <2>7. CASE Len(kept) + 1 >= h.of
    <3>1. got' = Append(got, data) /\ buf' = <<>>
      BY <2>1, <2>7 DEF data
    <3>2. /\ DOMAIN got' = 1 .. Len(got) + 1 /\ got'[Len(got) + 1] = data
          /\ \A i \in 1 .. Len(got) : got'[i] = got[i]
          /\ Len(got) \in Nat /\ DOMAIN got = 1 .. Len(got)
      <4>1. got \in Seq(Seq(Piece)) /\ DOMAIN got = 1 .. Len(got) /\ Len(got) \in Nat
        BY HeldTypes
      <4> QED
        BY <2>3, <3>1, <4>1
    <3>3. \A i \in DOMAIN got' : got'[i] # <<>>
      BY <1>5, <2>3, <3>2
    <3>6. \A m \in Taken' : Over(m, w)'
      <4>1. \A m \in Taken' : m \in Taken \/ m = s
        BY <2>5, <3>2 DEF Taken
      <4> QED
        BY <1>5, <2>9, <4>1
    <3>4. \A i \in DOMAIN got : got[i][1].msg < data[1].msg
      BY <2>3, <2>6, <2>7
    <3>5. \A i, j \in DOMAIN got' : i < j => got'[i][1].msg < got'[j][1].msg
      <4> SUFFICES ASSUME NEW i \in DOMAIN got', NEW j \in DOMAIN got', i < j
                   PROVE  got'[i][1].msg < got'[j][1].msg
        OBVIOUS
      <4>1. i \in DOMAIN got /\ got'[i] = got[i] /\ (j = Len(got) + 1 \/ (j \in DOMAIN got /\ got'[j] = got[j]))
        BY <3>2
      <4>2. CASE j = Len(got) + 1
        BY <3>2, <3>4, <4>1, <4>2
      <4>3. CASE j \in DOMAIN got /\ got'[j] = got[j]
        BY <4>1, <4>3 DEF OrderInv
      <4> QED
        BY <4>1, <4>2, <4>3
    <3> QED
      BY <1>2, <3>1, <3>3, <3>5, <3>6 DEF OrderInv
  <2>8. CASE ~ Len(kept) + 1 >= h.of
    <3>1. got' = got /\ buf' = data /\ expect' = IF h.num = expect THEN expect + 1 ELSE 0
      BY <2>1, <2>8 DEF data
    <3>2. /\ \A i \in DOMAIN got' : got'[i] # <<>>
          /\ \A m \in Taken' : Over(m, w)'
          /\ \A i, j \in DOMAIN got' : i < j => got'[i][1].msg < got'[j][1].msg
      <4>1. Taken' = Taken
        BY <3>1 DEF Taken
      <4> QED
        BY <1>5, <3>1, <4>1 DEF OrderInv
    <3>3. buf'[1].msg =< First(w)'.msg
      BY <1>3, <2>4, <3>1
    <3>4. expect' =< Len(buf') => \A i \in DOMAIN got' : got'[i][1].msg < buf'[1].msg
      BY <2>6, <3>1
    <3> QED
      BY <1>2, <3>2, <3>3, <3>4 DEF OrderInv
  <2> QED
    BY <2>7, <2>8
<1> QED
  BY <1>1, <1>6, <1>7 DEF Discards, Filters

LEMMA OrderStep ==
  ASSUME NEW w, Writer = {w}, ~ RootReads, MessagesFit, TransferTypeOK, OrderInv(w),
         [TransferNext]_transferVars
  PROVE  OrderInv(w)'
<1>1. TransferTypeOK'
  BY TransferTypeStep
<1>2. CASE UNCHANGED transferVars
  <2>1. Ordered(w)' /\ First(w)' = First(w) /\ IsCopy(w)' = IsCopy(w)
    BY <1>2 DEF transferVars, OrderInv, Ordered, First, Line, Later, Next, PacketOf, Writing,
                IsCopy
  <2>2. Taken' = Taken /\ \A m \in Taken : Over(m, w)'
    BY <1>2, <2>1 DEF transferVars, OrderInv, Taken, Over
  <2> QED
    BY <1>2, <2>1, <2>2 DEF transferVars, OrderInv
<1>3. CASE ReadFails \/ ReadNotStarted
  BY <1>1, <1>3, OrderGaps
<1>4. CASE Write(w)
  BY <1>1, <1>4, OrderWrites
<1>5. CASE Read(w)
  BY <1>1, <1>5, OrderReads
<1> QED
  BY <1>2, <1>3, <1>4, <1>5 DEF TransferNext

\* One writer to mwifi_read, whose messages fit the header: the application reads no
\* message twice and none after a later one, whatever is lost, repeated or given up.
THEOREM OneWriterInOrder ==
  ASSUME NEW w, Writer = {w}, ~ RootReads, MessagesFit
  PROVE  TransferSpec => []ReadInOrder
<1> DEFINE Inv == TransferTypeOK /\ OrderInv(w)
<1>1. TransferInit => Inv
  <2> HAVE TransferInit
  <2>1. wire[w] = <<>> /\ got = <<>> /\ buf = <<>>
    BY DEF TransferInit
  <2>2. Len(wire[w]) = 0 /\ DOMAIN got = {}
    BY <2>1
  <2>3. Ordered(w) /\ Taken = {}
    BY <2>2 DEF Ordered, Taken
  <2> QED
    BY <2>1, <2>2, <2>3, TransferTypeInit DEF OrderInv
<1>2. Inv /\ [TransferNext]_transferVars => Inv'
  BY TransferTypeStep, OrderStep
<1>3. Inv => ReadInOrder
  BY DEF OrderInv, ReadInOrder
<1> QED
  BY <1>1, <1>2, <1>3, PTL DEF TransferSpec

-----------------------------------------------------------------------------
\* The packet written after p, and a place where something is missing after p.
Follows(p, q) ==
  \/ q.msg = p.msg /\ q.num = p.num + 1 /\ q.of = p.of
  \/ q.msg = p.msg + 1 /\ q.num = 0 /\ p.num + 1 = p.of

Jumps(p, q) ==
  \/ q.msg > p.msg /\ q.num = 0
  \/ q.msg = p.msg /\ q.num > p.num + 1
  \/ q.msg > p.msg /\ p.num + 1 = p.of

Tight(w, i) ==
  \/ Follows(Line(w, i), Line(w, i + 1))
  \/ i < Len(wire[w]) /\ Line(w, i + 1) = Line(w, i)

NoJump(w) == \A i \in 1 .. Len(wire[w]) : Tight(w, i)

\* As long as there was one gap at most, something is missing in one place at most.
Stream(w) ==
  /\ \A i \in 1 .. Len(wire[w]) :
       /\ Tight(w, i) \/ Jumps(Line(w, i), Line(w, i + 1))
       /\ \A j \in 1 .. Len(wire[w]) : i # j => Tight(w, i) \/ Tight(w, j)
  /\ gaps = 0 => NoJump(w)

Late(w) == gaps = 1 /\ NoJump(w)

\* Writing a packet, and beginning a message or losing what is written.
Sends(w) ==
  /\ gaps' = gaps
  /\ \E p \in Packets : \E more \in Copies(p) \ {<<>>} :
       /\ wire'[w] = wire[w] \o more /\ repeats' = repeats + Len(more) - 1
       /\ p.piece = Next(w) /\ Follows(Next(w), Next(w)')

Skips(w) ==
  /\ wire' = wire /\ repeats' = repeats
  /\ \/ gaps' = gaps /\ SamePlace(Next(w), Next(w)') /\ Next(w).num = 0
     \/ gaps' = gaps + 1 /\ (Follows(Next(w), Next(w)')
                             \/ (Next(w)'.msg = Next(w).msg + 1 /\ Next(w)'.num = 0))

LEMMA WriteKinds ==
  ASSUME TransferTypeOK, NEW w \in Writer, Write(w)
  PROVE  Sends(w) \/ Skips(w)
<1>1. /\ msg \in [Writer -> MsgType] /\ msg[w] \in MsgType /\ wire \in [Writer -> Seq(Packets)]
      /\ wire[w] \in Seq(Packets)
  BY DEF TransferTypeOK, MsgType
<1>2. msg[w].num \in Nat /\ msg[w].next \in Nat /\ (Writing(w) => msg[w].size \in Nat)
  <2>1. msg[w].num \in 0 .. Messages /\ msg[w].next \in Nat
    BY <1>1 DEF MsgType
  <2>2. Writing(w) => PacketOf(w).piece \in Piece
    BY PacketType DEF Packets
  <2>3. \A s \in Sizes : s \in Nat
    OBVIOUS
  <2>4. Writing(w) => msg[w].size \in Sizes
    BY <2>2 DEF PacketOf, Piece
  <2>5. msg[w].num \in Nat
    BY <2>1
  <2> QED
    BY <2>1, <2>3, <2>4, <2>5
<1>3. CASE WriteBegin(w)
  <2>1. gaps' = gaps /\ repeats' = repeats /\ wire' = wire /\ ~ Writing(w)
    BY <1>3 DEF WriteBegin
  <2>2. SamePlace(Next(w), Next(w)') /\ Next(w).num = 0
    BY <1>3, <2>1, NextGetsLater DEF Next
  <2> QED
    BY <2>1, <2>2 DEF Skips
<1>4. CASE WritePacket(w)
  <2>1. Writing(w) /\ msg' = [msg EXCEPT ![w].next = msg[w].next + 1]
    BY <1>4 DEF WritePacket
  <2>2. msg'[w].num = msg[w].num /\ msg'[w].size = msg[w].size /\ msg'[w].next = msg[w].next + 1
    BY <1>1, <2>1 DEF MsgType
  <2>3. Follows(Next(w), Next(w)')
    <3>1. /\ Next(w).msg = msg[w].num /\ Next(w).num = msg[w].next /\ Next(w).of = msg[w].size
          /\ msg[w].next < msg[w].size
      BY <2>1 DEF Next, PacketOf, Writing
    <3>2. CASE Writing(w)'
      <4>1. /\ Next(w)'.msg = msg[w].num /\ Next(w)'.num = msg[w].next + 1
            /\ Next(w)'.of = msg[w].size
        BY <2>2, <3>2 DEF Next, PacketOf
      <4> QED
        BY <3>1, <4>1 DEF Follows
    <3>3. CASE ~ Writing(w)'
      <4>1. Next(w)'.msg = msg[w].num + 1 /\ Next(w)'.num = 0
        BY <2>2, <3>3 DEF Next
      <4>2. msg[w].next + 1 = msg[w].size
        BY <1>2, <2>1, <2>2, <3>1, <3>3 DEF Writing
      <4> QED
        BY <3>1, <4>1, <4>2 DEF Follows
    <3> QED
      BY <3>2, <3>3
  <2>4. PICK p \in Packets : p = PacketOf(w)
    BY <2>1, PacketType
  <2>5. p.piece = Next(w)
    BY <2>1, <2>4 DEF Next
  <2>6. \/ wire' = [wire EXCEPT ![w] = Append(wire[w], p)] /\ gaps' = gaps /\ repeats' = repeats
        \/ gaps' = gaps + 1 /\ wire' = wire /\ repeats' = repeats
        \/ /\ wire' = [wire EXCEPT ![w] = wire[w] \o <<p, p>>]
           /\ gaps' = gaps /\ repeats' = repeats + 1
    BY <1>4, <2>4 DEF WritePacket, Gap, Repeat
  <2>7. Append(wire[w], p) = wire[w] \o <<p>>
    BY <1>1
  <2>8. <<p>> \in Copies(p) \ {<<>>} /\ <<p, p>> \in Copies(p) \ {<<>>}
    BY DEF Copies
  <2>12. repeats \in Nat
    BY DEF TransferTypeOK
  <2>9. CASE /\ wire' = [wire EXCEPT ![w] = Append(wire[w], p)]
             /\ gaps' = gaps /\ repeats' = repeats
    <3>1. wire'[w] = wire[w] \o <<p>>
      BY <1>1, <2>7, <2>9
    <3>2. repeats' = repeats + Len(<<p>>) - 1
      BY <2>9, <2>12
    <3> QED
      BY <2>3, <2>5, <2>8, <2>9, <3>1, <3>2 DEF Sends
  <2>10. CASE gaps' = gaps + 1 /\ wire' = wire /\ repeats' = repeats
    BY <2>3, <2>10 DEF Skips
  <2>11. CASE /\ wire' = [wire EXCEPT ![w] = wire[w] \o <<p, p>>]
              /\ gaps' = gaps /\ repeats' = repeats + 1
    <3>1. wire'[w] = wire[w] \o <<p, p>>
      BY <1>1, <2>11
    <3>2. repeats' = repeats + Len(<<p, p>>) - 1
      BY <2>11, <2>12
    <3> QED
      BY <2>3, <2>5, <2>8, <2>11, <3>1, <3>2 DEF Sends
  <2> QED
    BY <2>6, <2>9, <2>10, <2>11
<1>5. CASE WriteFails(w)
  <2>1. Writing(w) /\ wire' = wire /\ gaps' = gaps + 1 /\ repeats' = repeats
        /\ msg' = [msg EXCEPT ![w].next = msg[w].size]
    BY <1>5 DEF WriteFails, Gap
  <2>2. msg'[w].num = msg[w].num /\ msg'[w].size = msg[w].size /\ msg'[w].next = msg[w].size
    BY <1>1, <2>1 DEF MsgType
  <2>3. ~ Writing(w)'
    BY <1>2, <2>1, <2>2 DEF Writing
  <2>4. Next(w)'.msg = msg[w].num + 1 /\ Next(w)'.num = 0 /\ Next(w).msg = msg[w].num
    BY <2>1, <2>2, <2>3 DEF Next, PacketOf
  <2> QED
    BY <1>2, <2>1, <2>4 DEF Skips
<1> QED
  BY <1>3, <1>4, <1>5 DEF Write

LEMMA StreamSends ==
  ASSUME TransferTypeOK, TransferTypeOK', NEW w \in Writer, Sends(w), Stream(w)
  PROVE  Stream(w)' /\ (NoJump(w) => NoJump(w)')
<1>1. PICK p \in Packets : \E more \in Copies(p) \ {<<>>} :
        wire'[w] = wire[w] \o more /\ p.piece = Next(w) /\ Follows(Next(w), Next(w)')
  BY DEF Sends
<1>2. PICK more \in Copies(p) \ {<<>>} :
        wire'[w] = wire[w] \o more /\ p.piece = Next(w) /\ Follows(Next(w), Next(w)')
  BY <1>1
<1>3. PICK n \in Nat : n = Len(wire[w])
  BY LineTypes
<1>4. Grown(w, n, p, more) /\ gaps' = gaps
  BY <1>2, <1>3, LineGrows DEF Sends
<1>5. PICK k \in {1, 2} : k = Len(more)
  BY DEF Copies
<1>6. Len(wire'[w]) = n + k /\ Line(w, n + k + 1)' = Next(w)'
  BY <1>4, <1>5 DEF Grown
<1>7. \A i \in 1 .. n : /\ Tight(w, i) => Tight(w, i)'
                        /\ Line(w, i)' = Line(w, i) /\ Line(w, i + 1)' = Line(w, i + 1)
  <2> TAKE i \in 1 .. n
  <2>1. Line(w, i)' = Line(w, i)
    BY <1>4 DEF Grown
  <2>2. Line(w, i + 1)' = Line(w, i + 1)
    <3>1. CASE i < n
      <4>1. i + 1 \in 1 .. n
        BY <3>1
      <4> QED
        BY <1>4, <4>1 DEF Grown
    <3>2. CASE i = n
      <4>1. Line(w, n + 1)' = p.piece
        BY <1>4, <1>5 DEF Grown
      <4>2. Line(w, n + 1) = Next(w)
        BY <1>3 DEF Line
      <4> QED
        BY <1>2, <3>2, <4>1, <4>2
    <3> QED
      BY <3>1, <3>2
  <2>3. i < n => i < n + k
    OBVIOUS
  <2> QED
    BY <1>3, <1>6, <2>1, <2>2, <2>3 DEF Tight
<1>8. \A i \in n + 1 .. n + k : Tight(w, i)'
  <2> TAKE i \in n + 1 .. n + k
  <2>1. PICK j \in 1 .. k : i = n + j
    <3>1. i - n \in 1 .. k /\ i = n + (i - n)
      OBVIOUS
    <3> QED
      BY <3>1
  <2>2. Line(w, i)' = Next(w)
    BY <1>2, <1>4, <1>5, <2>1 DEF Grown
  <2>3. CASE j = k
    <3>1. i + 1 = n + k + 1
      BY <2>1, <2>3
    <3>2. Line(w, i + 1)' = Next(w)'
      BY <1>6, <3>1
    <3> QED
      BY <1>2, <2>2, <3>2 DEF Tight
  <2>4. CASE j # k
    <3>1. j + 1 \in 1 .. k /\ i + 1 = n + (j + 1) /\ i < n + k
      BY <2>1, <2>4
    <3>2. Line(w, i + 1)' = Next(w)
      BY <1>2, <1>4, <1>5, <3>1 DEF Grown
    <3> QED
      BY <1>6, <2>2, <3>1, <3>2 DEF Tight
  <2> QED
    BY <2>3, <2>4
<1>9. \A i \in 1 .. n + k : i \in 1 .. n \/ i \in n + 1 .. n + k
  OBVIOUS
<1>10. NoJump(w) => NoJump(w)'
  BY <1>3, <1>6, <1>7, <1>8, <1>9 DEF NoJump
<1>11. \A i \in 1 .. n + k : Tight(w, i)' \/ (i \in 1 .. n /\ Jumps(Line(w, i)', Line(w, i + 1)'))
  BY <1>3, <1>7, <1>8, <1>9 DEF Stream
<1>12. \A i, j \in 1 .. n + k : i # j => Tight(w, i)' \/ Tight(w, j)'
  <2> SUFFICES ASSUME NEW i \in 1 .. n + k, NEW j \in 1 .. n + k, i # j
               PROVE  Tight(w, i)' \/ Tight(w, j)'
    OBVIOUS
  <2>1. CASE i \in 1 .. n /\ j \in 1 .. n
    BY <1>3, <1>7, <2>1 DEF Stream
  <2> QED
    BY <1>8, <1>9, <2>1
<1> QED
  BY <1>4, <1>6, <1>10, <1>11, <1>12 DEF Stream, Jumps

LEMMA StreamSkips ==
  ASSUME TransferTypeOK, TransferTypeOK', NEW w \in Writer, Skips(w), Ordered(w), Stream(w),
         gaps' =< 1
  PROVE  Stream(w)' /\ (gaps' = gaps /\ NoJump(w) => NoJump(w)')
<1>1. PICK n \in Nat : n = Len(wire[w])
  BY LineTypes
<1>2. wire' = wire /\ Len(wire'[w]) = n /\ gaps \in Nat
  BY <1>1, CountTypes DEF Skips
<1>3. \A i \in 1 .. n : Line(w, i)' = Line(w, i)
  BY <1>1, <1>2 DEF Line
<1>4. Line(w, n + 1) = Next(w) /\ Line(w, n + 1)' = Next(w)'
  BY <1>1, <1>2 DEF Line
<1>5. \A i \in 1 .. n : i # n => /\ Tight(w, i)' <=> Tight(w, i)
                                 /\ Line(w, i + 1)' = Line(w, i + 1)
  <2> TAKE i \in 1 .. n
  <2> HAVE i # n
  <2>1. i + 1 \in 1 .. n
    OBVIOUS
  <2>2. Line(w, i)' = Line(w, i) /\ Line(w, i + 1)' = Line(w, i + 1)
    BY <1>3, <2>1
  <2> QED
    BY <1>2, <2>2 DEF Tight
<1>6. \A i \in 1 .. n + 1 : Line(w, i).msg \in Nat /\ Line(w, i).num \in Nat
                        /\ Line(w, i)'.msg \in Nat /\ Line(w, i)'.num \in Nat
  <2>1. \A i \in 1 .. n + 1 : i \in Nat \ {0}
    OBVIOUS
  <2> QED
    BY <2>1, LineTypes, NextLineTypes DEF LinesTyped
<1>7. CASE n = 0
  BY <1>2, <1>7 DEF Stream, NoJump
<1>8. CASE n # 0
  <2> DEFINE p == Line(w, n)
             q == Line(w, n + 1)
  <2>0. n \in 1 .. n /\ n + 1 \in 1 .. n + 1 /\ n \in 1 .. n + 1
    BY <1>8
  <2>1. /\ p.msg \in Nat /\ p.num \in Nat /\ q.msg \in Nat /\ q.num \in Nat
        /\ Next(w)'.msg \in Nat /\ Next(w)'.num \in Nat /\ q = Next(w)
    BY <1>4, <1>6, <2>0
  <2>2. Line(w, n)' = p /\ Line(w, n + 1)' = Next(w)' /\ ~ n < n
    BY <1>3, <1>4, <2>0
  <2>3. (Tight(w, n) <=> Follows(p, q)) /\ (Tight(w, n)' <=> Follows(p, Next(w)'))
    BY <1>1, <1>2, <2>2 DEF Tight
  <2>4. Tight(w, n) \/ Jumps(p, q)
    BY <1>1, <2>0 DEF Stream
  <2> HIDE DEF p, q
  <2>5. CASE gaps' = gaps /\ SamePlace(Next(w), Next(w)') /\ Next(w).num = 0
    <3>1. Follows(p, q) => Follows(p, Next(w)')
      BY <2>1, <2>5 DEF Follows, SamePlace
    <3>2. Jumps(p, q) => Jumps(p, Next(w)')
      BY <2>1, <2>5 DEF Jumps, SamePlace
    <3>3. \A i \in 1 .. n : /\ Tight(w, i) => Tight(w, i)'
                            /\ Tight(w, i) \/ Jumps(Line(w, i), Line(w, i + 1))
                               => Tight(w, i)' \/ Jumps(Line(w, i)', Line(w, i + 1)')
      <4> TAKE i \in 1 .. n
      <4>1. CASE i = n
        BY <2>2, <2>3, <2>4, <3>1, <3>2, <4>1
      <4>2. CASE i # n
        BY <1>3, <1>5, <4>2
      <4> QED
        BY <4>1, <4>2
    <3>4. NoJump(w) => NoJump(w)'
      BY <1>1, <1>2, <3>3 DEF NoJump
    <3> QED
      BY <1>1, <1>2, <2>5, <3>3, <3>4 DEF Stream, Jumps
  <2>6. CASE gaps' = gaps + 1 /\ (Follows(Next(w), Next(w)')
                                  \/ (Next(w)'.msg = Next(w).msg + 1 /\ Next(w)'.num = 0))
    <3>1. gaps = 0 /\ gaps' = 1 /\ NoJump(w)
      BY <1>2, <2>6 DEF Stream
    <3>2. Follows(p, q)
      BY <1>1, <2>0, <2>3, <3>1 DEF NoJump
    <3>3. Jumps(p, Next(w)')
      BY <2>1, <2>6, <3>2 DEF Follows, Jumps
    <3>4. \A i \in 1 .. n : i # n => Tight(w, i)'
      BY <1>1, <1>5, <3>1 DEF NoJump
    <3>5. \A i \in 1 .. n : Tight(w, i)' \/ Jumps(Line(w, i)', Line(w, i + 1)')
      BY <2>2, <3>3, <3>4
    <3> QED
      BY <1>2, <3>1, <3>4, <3>5 DEF Stream, Jumps
  <2> QED
    BY <2>5, <2>6 DEF Skips
<1> QED
  BY <1>7, <1>8

\* What comes after a packet that is taken.
ComesAgain(w) == First(w)' = First(w) /\ wire'[w] # <<>> /\ wire'[w][1].piece = First(w)

LEMMA StreamReads ==
  ASSUME TransferTypeOK, TransferTypeOK', NEW w \in Writer, Ordered(w), Stream(w), wire[w] # <<>>,
         wire' = [wire EXCEPT ![w] = Tail(wire[w])], UNCHANGED <<msg, gaps>>, gaps =< 1
  PROVE  /\ Stream(w)' /\ (NoJump(w) => NoJump(w)')
         /\ \/ ComesAgain(w)
            \/ Follows(First(w), First(w)')
            \/ Jumps(First(w), First(w)') /\ Late(w)' /\ ~ NoJump(w)
<1>1. PICK n \in Nat \ {0} : n = Len(wire[w])
  BY ReadMoves
<1>2. /\ First(w)' = Line(w, 1 + 1) /\ Len(wire'[w]) = n - 1
      /\ \A i \in Nat \ {0} : Line(w, i)' = Line(w, i + 1)
      /\ Later(First(w), First(w)') \/ ComesAgain(w)
  <2>1. 1 + 1 = 2
    OBVIOUS
  <2> QED
    BY <1>1, <2>1, ReadMoves DEF ComesAgain
<1>3. gaps \in Nat /\ gaps' = gaps
  BY CountTypes
<1>4. \A i \in 1 .. n - 1 : /\ i + 1 \in 1 .. n /\ (Tight(w, i)' <=> Tight(w, i + 1))
                            /\ Line(w, i)' = Line(w, i + 1) /\ Line(w, i + 1)' = Line(w, (i + 1) + 1)
  <2> TAKE i \in 1 .. n - 1
  <2>1. i \in Nat \ {0} /\ i + 1 \in Nat \ {0} /\ i + 1 \in 1 .. n /\ (i < n - 1 <=> i + 1 < n)
    OBVIOUS
  <2>2. Line(w, i)' = Line(w, i + 1) /\ Line(w, i + 1)' = Line(w, (i + 1) + 1)
    BY <1>2, <2>1
  <2> QED
    BY <1>1, <1>2, <2>1, <2>2 DEF Tight
<1>5. NoJump(w) => NoJump(w)'
  BY <1>1, <1>2, <1>4 DEF NoJump
<1>6. Stream(w)'
  <2>1. \A i \in 1 .. n - 1 : Tight(w, i)' \/ Jumps(Line(w, i)', Line(w, i + 1)')
    BY <1>1, <1>4 DEF Stream
  <2>2. \A i, j \in 1 .. n - 1 : i # j => Tight(w, i)' \/ Tight(w, j)'
    <3> SUFFICES ASSUME NEW i \in 1 .. n - 1, NEW j \in 1 .. n - 1, i # j
                 PROVE  Tight(w, i)' \/ Tight(w, j)'
      OBVIOUS
    <3>1. i + 1 \in 1 .. n /\ j + 1 \in 1 .. n /\ i + 1 # j + 1
      OBVIOUS
    <3>2. Tight(w, i + 1) \/ Tight(w, j + 1)
      BY <1>1, <3>1 DEF Stream
    <3> QED
      BY <1>4, <3>2
  <2> QED
    BY <1>2, <1>3, <1>5, <2>1, <2>2 DEF Stream, Jumps
<1>7. 1 \in 1 .. n /\ First(w) = Line(w, 1)
  BY DEF First
<1>8. CASE Tight(w, 1)
  <2>1. CASE Follows(Line(w, 1), Line(w, 1 + 1))
    BY <1>2, <1>5, <1>6, <1>7, <2>1
  <2>2. CASE 1 < n /\ Line(w, 1 + 1) = Line(w, 1)
    <3>1. First(w)' = First(w) /\ ~ Later(First(w), First(w)')
      <4>1. First(w)' = First(w) /\ First(w).msg \in Nat /\ First(w).num \in Nat
        BY <1>2, <1>7, <2>2, HeldTypes
      <4> QED
        BY <4>1 DEF Later
    <3> QED
      BY <1>2, <1>5, <1>6, <3>1
  <2> QED
    BY <1>1, <1>8, <2>1, <2>2 DEF Tight
<1>9. CASE ~ Tight(w, 1)
  <2>1. Jumps(First(w), First(w)') /\ gaps # 0
    BY <1>1, <1>2, <1>7, <1>9 DEF Stream, NoJump
  <2>2. \A i \in 1 .. n - 1 : Tight(w, i)'
    <3> TAKE i \in 1 .. n - 1
    <3>1. i + 1 \in 1 .. n /\ i + 1 # 1
      OBVIOUS
    <3>2. Tight(w, i + 1)
      BY <1>1, <1>7, <1>9, <3>1 DEF Stream
    <3> QED
      BY <1>4, <3>2
  <2>3. Late(w)'
    <3>1. NoJump(w)'
      BY <1>2, <2>2 DEF NoJump
    <3>2. gaps' = 1
      BY <1>3, <2>1
    <3> QED
      BY <3>1, <3>2 DEF Late
  <2> QED
    BY <1>1, <1>6, <1>7, <1>9, <2>1, <2>3 DEF NoJump
<1> QED
  BY <1>8, <1>9

-----------------------------------------------------------------------------
\* What is held is the beginning of one message, and it is not all of it.
Partial(w) ==
  /\ buf # <<>> /\ magic = buf[Len(buf)] /\ Len(buf) < buf[1].of
  /\ \A i \in 1 .. Len(buf) :
       buf[i] = [from |-> w, msg |-> buf[1].msg, num |-> i - 1, of |-> buf[1].of]

\* The next packet continues it.
Continues(w) ==
  First(w).num = Len(buf) /\ First(w).msg = buf[1].msg /\ First(w).of = buf[1].of

\* A message begins, and the packet is no copy: with that the reader is not always
\* in step, but for once only.
Restarts(w) == First(w).num = 0 /\ ~ IsCopy(w)

InStep(w) ==
  /\ expect = Len(buf)
  /\ buf # <<>> =>
       /\ Partial(w)
       /\ gaps = 0 => IsCopy(w) \/ Continues(w)
       /\ First(w).num = expect => Continues(w)
       /\ Restarts(w) => Late(w)

\* The first packet of a message came twice: the rest of it is discarded.
Dropped(w) ==
  /\ buf = <<>> /\ expect = -1
  /\ Late(w) \/ (magic.num = 0 /\ magic.of > 1)
  /\ Restarts(w) => Late(w)

\* The mesh was stopped: the number expected is too high for what is held.
Ahead(w) == Late(w) /\ expect > Len(buf)

\* A message began where another was expected to go on: the number is too low.
Behind(w) ==
  /\ Late(w) /\ Partial(w) /\ Len(buf) = 1 /\ expect = 0
  /\ IsCopy(w) \/ First(w).num = 1

Held(w) == InStep(w) \/ Dropped(w) \/ Ahead(w) \/ Behind(w)

WholeInv(w) == gaps =< 1 => Stream(w) /\ Held(w) /\ MessagesAreWhole

\* What follows a packet that was accepted and is not the last of its message.
LEMMA AfterAccept ==
  ASSUME TransferTypeOK, TransferTypeOK', NEW w \in Writer, Ordered(w), Stream(w), wire[w] # <<>>,
         wire' = [wire EXCEPT ![w] = Tail(wire[w])], UNCHANGED <<msg, gaps>>, gaps =< 1,
         magic' = First(w), First(w).num + 1 # First(w).of
  PROVE  \/ IsCopy(w)' /\ First(w)' = First(w)
         \/ /\ First(w)'.msg = First(w).msg /\ First(w)'.num = First(w).num + 1
            /\ First(w)'.of = First(w).of
         \/ Late(w)' /\ gaps = 1 /\ First(w)'.num # First(w).num + 1 /\ ~ NoJump(w)
<1>1. First(w).num \in Nat
  BY HeldTypes
<1>2. CASE ComesAgain(w)
  BY <1>2 DEF ComesAgain, IsCopy
<1>3. CASE Follows(First(w), First(w)')
  BY <1>3 DEF Follows
<1>4. CASE Jumps(First(w), First(w)') /\ Late(w)' /\ ~ NoJump(w)
  <2>1. First(w)'.num # First(w).num + 1
    <3>1. First(w)'.num = 0 => First(w)'.num # First(w).num + 1
      BY <1>1
    <3>2. First(w)'.num \in Nat
      BY NextLineTypes DEF LinesTyped, First
    <3> QED
      BY <1>1, <1>4, <3>1, <3>2 DEF Jumps
  <2> QED
    BY <1>4, <2>1 DEF Late
<1> QED
  BY <1>2, <1>3, <1>4, StreamReads

\* What a packet may be appended to, and the pieces of one message up to it.
Extends(w, kept) ==
  \/ kept = <<>> /\ First(w).num = 0
  \/ kept = buf /\ Partial(w) /\ Continues(w)

UpTo(w, data) ==
  /\ data \in Seq(Piece) /\ data # <<>> /\ Len(data) = First(w).num + 1
  /\ data[1].msg = First(w).msg /\ data[1].of = First(w).of
  /\ data[Len(data)] = First(w)
  /\ \A i \in 1 .. Len(data) :
       data[i] = [from |-> w, msg |-> data[1].msg, num |-> i - 1, of |-> data[1].of]

\* What is held and the packet that continues it are the pieces of one message.
LEMMA DataGrows ==
  ASSUME TransferTypeOK, NEW w, Writer = {w}, First(w) \in Piece,
         NEW kept, Extends(w, kept),
         NEW data, data = Append(kept, First(w))
  PROVE  UpTo(w, data)
<1>1. PICK h \in Piece : h = First(w)
  OBVIOUS
<1>2. h = [from |-> w, msg |-> h.msg, num |-> h.num, of |-> h.of] /\ h.num \in Nat
  BY DEF Piece
<1>3. CASE kept = <<>> /\ First(w).num = 0
  <2>1. data = <<h>>
    BY <1>1, <1>3
  <2>2. data \in Seq(Piece) /\ Len(data) = 1 /\ data[1] = h
    BY <2>1
  <2>3. h.num = 0
    BY <1>1, <1>3
  <2>4. \A i \in 1 .. Len(data) : i = 1 /\ i - 1 = h.num
    BY <2>2, <2>3
  <2> QED
    BY <1>1, <1>2, <2>2, <2>3, <2>4 DEF UpTo
<1>4. CASE kept = buf /\ Partial(w) /\ Continues(w)
  <2>1. buf \in Seq(Piece) /\ Len(buf) \in Nat /\ buf # <<>> /\ 1 \in 1 .. Len(buf)
    BY <1>4, HeldTypes DEF Partial
  <2>2. data = Append(buf, h)
    BY <1>1, <1>4
  <2>3. /\ data \in Seq(Piece) /\ Len(data) = Len(buf) + 1 /\ data[Len(buf) + 1] = h
        /\ \A i \in 1 .. Len(buf) : data[i] = buf[i]
    BY <2>1, <2>2
  <2>4. data[1] = buf[1] /\ h.num = Len(buf) /\ h.msg = buf[1].msg /\ h.of = buf[1].of
    BY <1>1, <1>4, <2>1, <2>3 DEF Continues
  <2>5. \A i \in 1 .. Len(data) :
          data[i] = [from |-> w, msg |-> data[1].msg, num |-> i - 1, of |-> data[1].of]
    <3> TAKE i \in 1 .. Len(data)
    <3>1. CASE i \in 1 .. Len(buf)
      BY <1>4, <2>3, <2>4, <3>1 DEF Partial
    <3>2. CASE i = Len(buf) + 1
      <4>1. i - 1 = h.num
        BY <2>1, <2>4, <3>2
      <4> QED
        BY <1>2, <2>3, <2>4, <3>2, <4>1
    <3> QED
      BY <2>1, <2>3, <3>1, <3>2
  <2> QED
    BY <1>1, <2>1, <2>3, <2>4, <2>5 DEF UpTo
<1> QED
  BY <1>3, <1>4 DEF Extends

LEMMA WholeGrows ==
  ASSUME TransferTypeOK, MessagesAreWhole, NEW data, IsMessage(data), data \in Seq(Piece),
         got' = Append(got, data) \/ got' = got
  PROVE  MessagesAreWhole'
<1>1. got \in Seq(Seq(Piece))
  BY ReaderTypes
<1>2. CASE got' = Append(got, data)
  <2>1. /\ DOMAIN got' = 1 .. Len(got) + 1 /\ got'[Len(got) + 1] = data /\ Len(got) \in Nat
        /\ \A i \in 1 .. Len(got) : got'[i] = got[i]
    BY <1>1, <1>2
  <2>2. \A i \in DOMAIN got' : i = Len(got) + 1 \/ (i \in DOMAIN got /\ got'[i] = got[i])
    BY <1>1, <2>1
  <2> QED
    BY <2>1, <2>2 DEF MessagesAreWhole
<1> QED
  BY <1>2 DEF MessagesAreWhole

\* What the reader gets into by each of the things it does with a packet.
ReaderMoves(w) ==
  /\ wire[w] # <<>> /\ First(w) = wire[w][1].piece /\ First(w) \in Piece
  /\ First(w).num < First(w).of
  /\ wire' = [wire EXCEPT ![w] = Tail(wire[w])] /\ UNCHANGED <<msg, gaps, repeats>>

LEMMA LateStays ==
  ASSUME TransferTypeOK, TransferTypeOK', NEW w \in Writer, ReaderMoves(w), Ordered(w), Stream(w),
         gaps =< 1
  PROVE  Stream(w)' /\ (Late(w) => Late(w)')
BY StreamReads DEF ReaderMoves, Late

LEMMA GetsDropped ==
  ASSUME TransferTypeOK, TransferTypeOK', NEW w \in Writer, ReaderMoves(w), Ordered(w), Stream(w),
         gaps =< 1, First(w).num = 0, magic' = First(w), buf' = <<>>, expect' = -1,
         Late(w) \/ First(w).of > 1
  PROVE  Dropped(w)'
<1>1. CASE Late(w)
  BY <1>1, LateStays DEF Dropped
<1>2. CASE First(w).of > 1
  <2>1. First(w).num + 1 # First(w).of
    BY <1>2
  <2>2. Restarts(w)' => Late(w)'
    <3>1. IsCopy(w)' => ~ Restarts(w)'
      BY DEF Restarts
    <3>2. First(w)'.num = First(w).num + 1 => ~ Restarts(w)'
      BY DEF Restarts
    <3> QED
      BY <2>1, <3>1, <3>2, AfterAccept DEF ReaderMoves
  <2> QED
    BY <1>2, <2>2 DEF Dropped
<1> QED
  BY <1>1, <1>2

LEMMA GetsInStep ==
  ASSUME TransferTypeOK, TransferTypeOK', NEW w, Writer = {w}, ReaderMoves(w), Ordered(w), Stream(w),
         gaps =< 1, magic' = First(w),
         NEW kept, Extends(w, kept),
         NEW data, data = Append(kept, First(w)), ~ Len(data) >= First(w).of,
         buf' = data, expect' = First(w).num + 1
  PROVE  InStep(w)'
<1>1. /\ data \in Seq(Piece) /\ data # <<>> /\ Len(data) = First(w).num + 1
      /\ data[1].msg = First(w).msg /\ data[1].of = First(w).of
      /\ data[Len(data)] = First(w)
      /\ \A i \in 1 .. Len(data) :
           data[i] = [from |-> w, msg |-> data[1].msg, num |-> i - 1, of |-> data[1].of]
  <2>1. First(w) \in Piece
    BY DEF ReaderMoves
  <2>2. UpTo(w, data)
    BY <2>1, DataGrows
  <2> QED
    BY <2>2 DEF UpTo
<1>2. First(w).num \in Nat /\ First(w).of \in Nat
  <2>1. First(w).of \in Sizes /\ \A s \in Sizes : s \in Nat
    BY DEF ReaderMoves, Piece
  <2> QED
    BY <2>1, HeldTypes
<1>3. Partial(w)'
  <2>1. Len(data) < data[1].of
    BY <1>1, <1>2
  <2> QED
    BY <1>1, <2>1 DEF Partial
<1>4. First(w).num + 1 # First(w).of
  BY <1>1, <1>2
<1>5. \/ IsCopy(w)' /\ First(w)' = First(w)
      \/ /\ First(w)'.msg = First(w).msg /\ First(w)'.num = First(w).num + 1
         /\ First(w)'.of = First(w).of
      \/ Late(w)' /\ gaps = 1 /\ First(w)'.num # First(w).num + 1
  BY <1>4, AfterAccept DEF ReaderMoves
<1>6. expect' = Len(buf') /\ gaps' = gaps
  BY <1>1 DEF ReaderMoves
<1>7. CASE IsCopy(w)' /\ First(w)' = First(w)
  <2>1. First(w)'.num # expect'
    BY <1>2, <1>7
  <2> QED
    BY <1>3, <1>6, <1>7, <2>1 DEF InStep, Restarts
<1>8. CASE /\ First(w)'.msg = First(w).msg /\ First(w)'.num = First(w).num + 1
           /\ First(w)'.of = First(w).of
  <2>1. Continues(w)' /\ First(w)'.num # 0
    BY <1>1, <1>2, <1>8 DEF Continues
  <2> QED
    BY <1>3, <1>6, <2>1 DEF InStep, Restarts
<1>9. CASE Late(w)' /\ gaps = 1 /\ First(w)'.num # First(w).num + 1
  BY <1>3, <1>6, <1>9 DEF InStep
<1> QED
  BY <1>5, <1>7, <1>8, <1>9

LEMMA GetsBehind ==
  ASSUME TransferTypeOK, TransferTypeOK', NEW w, Writer = {w}, ReaderMoves(w), Ordered(w), Stream(w),
         gaps =< 1, magic' = First(w), First(w).num = 0, First(w).of > 1, Late(w),
         \/ buf' = Append(<<>>, First(w))
         \/ buf' = buf /\ Partial(w) /\ Len(buf) = 1 /\ magic = First(w),
         expect' = 0
  PROVE  Behind(w)'
<1>1. First(w).num + 1 # First(w).of /\ NoJump(w) /\ First(w) \in Piece
  BY DEF Late, ReaderMoves
<1>2. \/ IsCopy(w)' /\ First(w)' = First(w)
      \/ First(w)'.num = First(w).num + 1
  BY <1>1, AfterAccept DEF ReaderMoves
<1>3. Partial(w)' /\ Len(buf') = 1
  <2>1. CASE buf' = Append(<<>>, First(w))
    <3>1. Extends(w, <<>>)
      BY DEF Extends
    <3>2. UpTo(w, buf')
      BY <1>1, <2>1, <3>1, DataGrows
    <3> QED
      BY <3>2 DEF UpTo, Partial
  <2>2. CASE buf' = buf /\ Partial(w) /\ Len(buf) = 1 /\ magic = First(w)
    BY <2>2 DEF Partial
  <2> QED
    BY <2>1, <2>2
<1> QED
  BY <1>2, <1>3, LateStays DEF Behind

LEMMA WholeWhenDone ==
  ASSUME TransferTypeOK, NEW w, NEW data, UpTo(w, data), First(w) \in Piece,
         First(w).num < First(w).of, Len(data) >= First(w).of
  PROVE  IsMessage(data)
<1>1. First(w).of \in Nat /\ First(w).num \in Nat
  <2>1. First(w).of \in Sizes /\ \A s \in Sizes : s \in Nat
    BY DEF Piece
  <2> QED
    BY <2>1 DEF Piece
<1>2. Len(data) = data[1].of
  BY <1>1 DEF UpTo
<1>3. DOMAIN data = 1 .. Len(data)
  BY DEF UpTo
<1>4. \A i \in 1 .. Len(data) : /\ data[i].from = w /\ data[i].msg = data[1].msg
                                 /\ data[i].num = i - 1
  <2> TAKE i \in 1 .. Len(data)
  <2>1. data[i] = [from |-> w, msg |-> data[1].msg, num |-> i - 1, of |-> data[1].of]
    BY DEF UpTo
  <2> QED
    BY <2>1
<1>5. data # <<>> /\ 1 \in 1 .. Len(data)
  BY <1>1 DEF UpTo
<1> QED
  BY <1>2, <1>3, <1>4, <1>5 DEF IsMessage

LEMMA WholeReads ==
  ASSUME TransferTypeOK, TransferTypeOK', ~ RootReads, NEW w, Writer = {w}, Read(w), Ordered(w),
         gaps =< 1, Stream(w), Held(w), MessagesAreWhole
  PROVE  Stream(w)' /\ Held(w)' /\ MessagesAreWhole'
<1>1. ReaderMoves(w) /\ (Discards(First(w)) \/ Filters(First(w)) \/ Accepts(First(w)))
  BY ReadCases DEF ReaderMoves
<1>2. Stream(w)' /\ (Late(w) => Late(w)')
  BY <1>1, LateStays
<1>3. PICK h \in Piece : h = First(w)
  BY <1>1 DEF ReaderMoves
<1>4. h.num \in Nat /\ h.of \in Nat /\ h.num < h.of /\ expect \in Int /\ Len(buf) \in Nat
  <2>1. h.of \in Sizes /\ (\A s \in Sizes : s \in Nat) /\ h.num \in Nat
    BY DEF Piece
  <2> QED
    BY <1>1, <1>3, <2>1, HeldTypes DEF ReaderMoves
<1>5. Partial(w) => /\ buf # <<>> /\ Len(buf) >= 1 /\ magic.num = Len(buf) - 1
                  /\ magic.of = buf[1].of /\ magic.of > Len(buf)
  <2> HAVE Partial(w)
  <2>1. Len(buf) \in 1 .. Len(buf) /\ buf[1].of \in Nat
    <3>1. buf # <<>> /\ buf \in Seq(Piece) /\ 1 \in 1 .. Len(buf) /\ buf[1] \in Piece
      BY HeldTypes DEF Partial
    <3>2. buf[1].of \in Sizes /\ \A s \in Sizes : s \in Nat
      BY <3>1 DEF Piece
    <3>3. buf[1].of \in Nat
      BY <3>2
    <3>4. Len(buf) \in 1 .. Len(buf)
      BY <1>4, <3>1
    <3> QED
      BY <3>3, <3>4
  <2>2. magic = [from |-> w, msg |-> buf[1].msg, num |-> Len(buf) - 1, of |-> buf[1].of]
    BY <2>1 DEF Partial
  <2> QED
    BY <1>4, <2>1, <2>2 DEF Partial
<1>6. CASE Discards(h)
  <2>1. InStep(w)' /\ got' = got
    BY <1>6 DEF Discards, InStep
  <2> QED
    BY <1>2, <2>1 DEF Held, MessagesAreWhole
<1>7. CASE Filters(h)
  <2>1. h = magic /\ magic' = h /\ got' = got
    BY <1>7 DEF Filters
  <2>2. Held(w)'
    <3>1. CASE h.num = expect /\ UNCHANGED <<buf, expect>>
      <4>1. CASE InStep(w)
        <5>1. buf = <<>>
          BY <1>4, <1>5, <2>1, <3>1, <4>1 DEF InStep
        <5>2. InStep(w)'
          BY <3>1, <4>1, <5>1 DEF InStep
        <5> QED
          BY <5>2 DEF Held
      <4>2. CASE Dropped(w)
        BY <1>4, <3>1, <4>2 DEF Dropped
      <4>3. CASE Ahead(w)
        BY <1>2, <3>1, <4>3 DEF Held, Ahead
      <4>4. CASE Behind(w)
        <5>1. Partial(w) /\ Len(buf) = 1 /\ expect = 0 /\ Late(w)
          BY <4>4 DEF Behind
        <5>2. h.num = 0 /\ h.of > 1 /\ buf' = buf /\ expect' = 0
          BY <1>5, <2>1, <3>1, <5>1
        <5>3. Behind(w)'
          BY <1>1, <1>3, <2>1, <5>1, <5>2, GetsBehind
        <5> QED
          BY <5>3 DEF Held
      <4> QED
        BY <4>1, <4>2, <4>3, <4>4 DEF Held
    <3>2. CASE h.num # expect /\ h.num = 0 /\ buf' = <<>> /\ expect' = -1
      <4>1. Late(w) \/ h.of > 1
        <5>1. CASE InStep(w)
          <6>1. buf # <<>>
            BY <3>2, <5>1 DEF InStep
          <6> QED
            BY <1>4, <1>5, <2>1, <3>2, <5>1, <6>1 DEF InStep
        <5> QED
          BY <2>1, <5>1 DEF Held, Dropped, Ahead, Behind
      <4>2. Dropped(w)'
        BY <1>1, <1>3, <2>1, <3>2, <4>1, GetsDropped
      <4> QED
        BY <4>2 DEF Held
    <3> QED
      BY <1>7, <3>1, <3>2 DEF Filters
  <2> QED
    BY <1>2, <2>1, <2>2 DEF MessagesAreWhole
<1>8. CASE Accepts(h)
  <2>1. PICK kept \in {buf, <<>>} :
          /\ \/ h.num = expect /\ kept = buf
             \/ h.num # expect /\ h.num = 0 /\ kept = <<>>
          /\ IF Len(kept) + 1 >= h.of
               THEN got' = Append(got, Append(kept, h)) /\ buf' = <<>> /\ expect' = 0
               ELSE /\ got' = got /\ buf' = Append(kept, h)
                    /\ expect' = IF h.num = expect THEN expect + 1 ELSE 0
    BY <1>8 DEF Accepts
  <2>2. h # magic /\ magic' = h /\ ~ IsCopy(w)
    BY <1>1, <1>3, <1>8 DEF Accepts, IsCopy, ReaderMoves
  <2>3. PICK data : data = Append(kept, h)
    OBVIOUS
  <2>4. Len(data) = Len(kept) + 1 /\ data \in Seq(Piece) /\ Len(kept) \in Nat
    <3>1. buf \in Seq(Piece) /\ <<>> \in Seq(Piece)
      BY HeldTypes
    <3>2. kept \in Seq(Piece)
      BY <2>1, <3>1
    <3> QED
      BY <2>3, <3>2
  <2>5. CASE h.num = expect /\ kept = buf
    <3>1. CASE InStep(w)
      <4>1. Extends(w, kept)
        <5>1. CASE buf = <<>>
          BY <1>3, <2>5, <3>1, <5>1 DEF InStep, Extends
        <5>2. CASE buf # <<>>
          BY <1>3, <2>5, <3>1, <5>2 DEF InStep, Extends
        <5> QED
          BY <5>1, <5>2
      <4>2. CASE Len(data) >= h.of
        <5>1. UpTo(w, data)
          BY <1>3, <2>3, <4>1, DataGrows
        <5>2. IsMessage(data)
          BY <1>3, <1>4, <4>2, <5>1, WholeWhenDone
        <5>3. got' = Append(got, data) /\ buf' = <<>> /\ expect' = 0
          BY <2>1, <2>3, <2>4, <4>2
        <5>4. InStep(w)'
          BY <5>3 DEF InStep
        <5> QED
          BY <1>2, <2>4, <5>2, <5>3, <5>4, WholeGrows DEF Held
      <4>3. CASE ~ Len(data) >= h.of
        <5>1. got' = got /\ buf' = data /\ expect' = h.num + 1
          BY <2>1, <2>3, <2>4, <2>5, <4>3
        <5>2. InStep(w)'
          BY <1>1, <1>3, <2>2, <2>3, <4>1, <4>3, <5>1, GetsInStep
        <5> QED
          BY <1>2, <5>1, <5>2 DEF Held, MessagesAreWhole
      <4> QED
        BY <4>2, <4>3
    <3>2. CASE Dropped(w)
      BY <1>4, <2>5, <3>2 DEF Dropped
    <3>3. CASE Ahead(w)
      <4>1. ~ Len(kept) + 1 >= h.of
        BY <1>4, <2>5, <3>3 DEF Ahead
      <4>2. got' = got /\ buf' = data /\ expect' = expect + 1
        BY <2>1, <2>3, <2>5, <4>1
      <4>3. Ahead(w)'
        BY <1>2, <1>4, <2>4, <2>5, <3>3, <4>2 DEF Ahead
      <4> QED
        BY <1>2, <4>2, <4>3 DEF Held, MessagesAreWhole
    <3>4. CASE Behind(w)
      BY <1>3, <2>2, <2>5, <3>4 DEF Behind
    <3> QED
      BY <3>1, <3>2, <3>3, <3>4 DEF Held
  <2>6. CASE h.num # expect /\ h.num = 0 /\ kept = <<>>
    <3>1. Late(w)
      <4>1. Restarts(w)
        BY <1>3, <2>2, <2>6 DEF Restarts
      <4>2. InStep(w) => buf # <<>>
        BY <2>6 DEF InStep
      <4> QED
        BY <4>1, <4>2 DEF Held, InStep, Dropped, Ahead, Behind
    <3>2. Extends(w, kept) /\ Len(kept) = 0
      BY <1>3, <2>6 DEF Extends
    <3>3. CASE Len(data) >= h.of
      <4>1. UpTo(w, data)
        BY <1>3, <2>3, <3>2, DataGrows
      <4>2. IsMessage(data)
        BY <1>3, <1>4, <3>3, <4>1, WholeWhenDone
      <4>3. got' = Append(got, data) /\ buf' = <<>> /\ expect' = 0
        BY <2>1, <2>3, <2>4, <3>3
      <4>4. InStep(w)'
        BY <4>3 DEF InStep
      <4> QED
        BY <1>2, <2>4, <4>2, <4>3, <4>4, WholeGrows DEF Held
    <3>4. CASE ~ Len(data) >= h.of
      <4>1. got' = got /\ buf' = Append(<<>>, h) /\ expect' = 0 /\ h.of > 1
        BY <1>4, <2>1, <2>3, <2>4, <2>6, <3>2, <3>4
      <4>2. Behind(w)'
        BY <1>1, <1>3, <2>2, <2>6, <3>1, <4>1, GetsBehind
      <4> QED
        BY <1>2, <4>1, <4>2 DEF Held, MessagesAreWhole
    <3> QED
      BY <3>3, <3>4
  <2> QED
    BY <2>1, <2>5, <2>6
<1> QED
  BY <1>1, <1>3, <1>6, <1>7, <1>8

LEMMA WholeGaps ==
  ASSUME TransferTypeOK, ~ RootReads, NEW w \in Writer, ReadFails \/ ReadNotStarted, WholeInv(w)
  PROVE  WholeInv(w)'
<1> SUFFICES ASSUME gaps' =< 1
             PROVE  Stream(w)' /\ Held(w)' /\ MessagesAreWhole'
  BY DEF WholeInv
<1>1. /\ UNCHANGED <<msg, wire, magic, got>> /\ gaps' = gaps + 1
      /\ \/ buf' = <<>> /\ expect' = 0
         \/ buf' = buf /\ expect' = expect + 1
  BY GapCases
<1>2. gaps = 0 /\ gaps' = 1 /\ Stream(w) /\ NoJump(w) /\ Held(w) /\ MessagesAreWhole
  BY <1>1, CountTypes DEF WholeInv, Stream
<1>3. NoJump(w)'
  <2>1. \A i : Tight(w, i)' = Tight(w, i)
    BY <1>1 DEF Tight, Line, Next, PacketOf, Writing, Follows
  <2> QED
    BY <1>1, <1>2, <2>1 DEF NoJump
<1>4. Stream(w)' /\ Late(w)' /\ MessagesAreWhole'
  BY <1>1, <1>2, <1>3 DEF Stream, NoJump, Late, MessagesAreWhole
<1>5. Held(w)'
  <2>1. CASE buf' = <<>> /\ expect' = 0
    BY <2>1 DEF Held, InStep
  <2>2. CASE buf' = buf /\ expect' = expect + 1
    <3>1. CASE InStep(w)
      <4>1. expect' > Len(buf')
        BY <2>2, <3>1, HeldTypes DEF InStep
      <4> QED
        BY <1>4, <4>1 DEF Held, Ahead
    <3>2. CASE Dropped(w)
      <4>1. buf' = <<>> /\ expect' = 0
        BY <2>2, <3>2 DEF Dropped
      <4> QED
        BY <4>1 DEF Held, InStep
    <3> QED
      BY <1>2, <3>1, <3>2 DEF Held, Ahead, Behind, Late
  <2> QED
    BY <1>1, <2>1, <2>2
<1> QED
  BY <1>4, <1>5

LEMMA WholeWrites ==
  ASSUME TransferTypeOK, TransferTypeOK', MessagesFit, NEW w \in Writer, Write(w), Ordered(w),
         WholeInv(w)
  PROVE  WholeInv(w)'
<1> SUFFICES ASSUME gaps' =< 1
             PROVE  Stream(w)' /\ Held(w)' /\ MessagesAreWhole'
  BY DEF WholeInv
<1>1. Sends(w) \/ Skips(w)
  BY WriteKinds
<1>2. gaps \in Nat /\ (gaps' = gaps \/ gaps' = gaps + 1)
  BY <1>1, CountTypes DEF Sends, Skips
<1>3. gaps =< 1 /\ Stream(w) /\ Held(w) /\ MessagesAreWhole
  BY <1>2 DEF WholeInv
<1>4. Stream(w)' /\ (gaps' = gaps /\ NoJump(w) => NoJump(w)')
  BY <1>1, <1>3, StreamSends, StreamSkips DEF Sends
<1>5. /\ SamePlace(First(w), First(w)') \/ Later(First(w), First(w)')
      /\ wire[w] # <<>> => wire'[w] # <<>> /\ First(w)' = First(w) /\ wire'[w][1] = wire[w][1]
      /\ IsCopy(w) => IsCopy(w)'
      /\ UNCHANGED <<buf, expect, magic, got>>
  BY WriteKeepsOrder
<1>6. First(w).num \in Nat /\ First(w)'.num \in Nat /\ Len(buf) \in Nat
  BY HeldTypes, NextLineTypes DEF LinesTyped, First
<1>7. wire[w] # <<>> => /\ First(w)' = First(w) /\ (IsCopy(w)' <=> IsCopy(w))
  BY <1>5 DEF IsCopy
\* Where nothing was under way, the packet that is taken next may change.
<1>8. wire[w] = <<>> =>
        /\ ~ IsCopy(w)
        /\ \/ gaps' = gaps /\ (First(w)' = First(w) \/ (First(w).num = 0 /\ First(w)'.num = 0))
           \/ /\ gaps' = gaps + 1 /\ NoJump(w)'
              /\ First(w)'.num = First(w).num + 1 \/ First(w)'.num = 0
  <2> HAVE wire[w] = <<>>
  <2>1. First(w) = Next(w) /\ ~ IsCopy(w)
    BY DEF First, Line, IsCopy
  <2>2. CASE Sends(w)
    <3>1. PICK p \in Packets : \E more \in Copies(p) \ {<<>>} :
            wire'[w] = wire[w] \o more /\ p.piece = Next(w)
      BY <2>2 DEF Sends
    <3>2. PICK more \in Copies(p) \ {<<>>} : wire'[w] = wire[w] \o more
      BY <3>1
    <3>3. wire'[w] = <<p>> \/ wire'[w] = <<p, p>>
      BY <3>2 DEF Copies
    <3>4. First(w)' = p.piece
      BY <3>3 DEF First, Line
    <3> QED
      BY <2>1, <2>2, <3>1, <3>4 DEF Sends
  <2>3. CASE Skips(w)
    <3>1. wire'[w] = <<>>
      BY <2>3 DEF Skips
    <3>2. First(w)' = Next(w)' /\ NoJump(w)'
      BY <3>1 DEF First, Line, NoJump
    <3> QED
      BY <2>1, <2>3, <3>2 DEF Skips, SamePlace, Follows
  <2> QED
    BY <1>1, <2>2, <2>3
<1>9. Late(w) => Late(w)' /\ gaps' = gaps
  BY <1>2, <1>4 DEF Late
<1>10. CASE InStep(w)
  <2>1. CASE buf = <<>>
    <3>1. InStep(w)'
      BY <1>5, <1>10, <2>1 DEF InStep
    <3> QED
      BY <1>3, <1>4, <1>5, <3>1 DEF Held, MessagesAreWhole
  <2>2. CASE buf # <<>>
    <3>1. Partial(w)' /\ expect' = Len(buf') /\ Len(buf) >= 1 /\ expect = Len(buf)
      BY <1>5, <1>6, <1>10, <2>2 DEF InStep, Partial
    <3>2. /\ gaps' = 0 => IsCopy(w)' \/ Continues(w)'
          /\ First(w)'.num = expect' => Continues(w)'
          /\ Restarts(w)' => Late(w)'
      <4>1. CASE wire[w] # <<>>
        <5>1. (IsCopy(w) => IsCopy(w)') /\ (Continues(w) => Continues(w)')
          BY <1>5, <1>7, <4>1 DEF Continues
        <5>2. Restarts(w)' => Restarts(w)
          BY <1>7, <4>1 DEF Restarts
        <5>3. First(w)'.num = expect' => Continues(w)'
          BY <1>5, <1>7, <1>10, <2>2, <4>1, <5>1 DEF InStep
        <5>4. gaps' = 0 => IsCopy(w)' \/ Continues(w)'
          BY <1>2, <1>10, <2>2, <5>1 DEF InStep
        <5> QED
          BY <1>9, <1>10, <2>2, <5>2, <5>3, <5>4 DEF InStep
      <4>2. CASE wire[w] = <<>> /\ gaps' = gaps
        <5>1. ~ IsCopy(w) /\ (First(w)' = First(w) \/ (First(w).num = 0 /\ First(w)'.num = 0))
          BY <1>2, <1>8, <4>2
        <5>2. First(w)' = First(w) => (Continues(w) => Continues(w)')
          BY <1>5 DEF Continues
        <5>3. Continues(w) => First(w).num # 0
          BY <1>6, <3>1 DEF Continues
        <5>4. gaps' = 0 => Continues(w)'
          BY <1>10, <2>2, <4>2, <5>1, <5>2, <5>3 DEF InStep
        <5>5. First(w)'.num = expect' => Continues(w)'
          BY <1>5, <1>6, <1>10, <2>2, <3>1, <5>1, <5>2 DEF InStep
        <5>6. Restarts(w)' => Late(w)'
          <6>1. Restarts(w)' => Restarts(w)
            BY <5>1 DEF Restarts
          <6> QED
            BY <1>9, <1>10, <2>2, <6>1 DEF InStep
        <5> QED
          BY <5>4, <5>5, <5>6
      <4>3. CASE wire[w] = <<>> /\ gaps' # gaps
        <5>1. /\ ~ IsCopy(w) /\ gaps' = gaps + 1 /\ NoJump(w)'
              /\ First(w)'.num = First(w).num + 1 \/ First(w)'.num = 0
          BY <1>8, <4>3
        <5>2. gaps = 0 /\ gaps' = 1 /\ Late(w)'
          BY <1>2, <5>1 DEF Late
        <5>3. First(w).num = Len(buf)
          BY <1>10, <2>2, <5>1, <5>2 DEF InStep, Continues
        <5>4. First(w)'.num # expect'
          BY <1>5, <1>6, <3>1, <5>1, <5>3
        <5> QED
          BY <5>2, <5>4
      <4> QED
        BY <4>1, <4>2, <4>3
    <3>3. InStep(w)'
      BY <3>1, <3>2 DEF InStep
    <3> QED
      BY <1>3, <1>4, <1>5, <3>3 DEF Held, MessagesAreWhole
  <2> QED
    BY <2>1, <2>2
<1>11. CASE Dropped(w)
  <2>1. /\ buf' = <<>> /\ expect' = -1
        /\ Late(w)' \/ (magic'.num = 0 /\ magic'.of > 1)
    BY <1>5, <1>9, <1>11 DEF Dropped
  <2>2. Restarts(w)' => Late(w)'
    <3>1. CASE wire[w] # <<>> \/ gaps' = gaps
      <4>1. Restarts(w)' => Restarts(w)
        BY <1>2, <1>7, <1>8, <3>1 DEF Restarts
      <4> QED
        BY <1>9, <1>11, <4>1 DEF Dropped
    <3>2. CASE wire[w] = <<>> /\ gaps' # gaps
      BY <1>2, <1>8, <3>2 DEF Late
    <3> QED
      BY <3>1, <3>2
  <2>3. Dropped(w)'
    BY <2>1, <2>2 DEF Dropped
  <2> QED
    BY <1>3, <1>4, <1>5, <2>3 DEF Held, MessagesAreWhole
<1>12. CASE Ahead(w)
  <2>1. Ahead(w)'
    BY <1>5, <1>9, <1>12 DEF Ahead
  <2> QED
    BY <1>3, <1>4, <1>5, <2>1 DEF Held, MessagesAreWhole
<1>13. CASE Behind(w)
  <2>1. Late(w)' /\ gaps' = gaps /\ Partial(w)' /\ Len(buf') = 1 /\ expect' = 0
    BY <1>5, <1>9, <1>13 DEF Behind, Partial
  <2>2. IsCopy(w)' \/ First(w)'.num = 1
    <3>1. CASE wire[w] # <<>>
      BY <1>7, <1>13, <3>1 DEF Behind
    <3>2. CASE wire[w] = <<>>
      BY <1>2, <1>8, <1>13, <2>1, <3>2 DEF Behind
    <3> QED
      BY <3>1, <3>2
  <2>3. Behind(w)'
    BY <2>1, <2>2 DEF Behind
  <2> QED
    BY <1>3, <1>4, <1>5, <2>3 DEF Held, MessagesAreWhole
<1> QED
  BY <1>3, <1>10, <1>11, <1>12, <1>13 DEF Held

\* One writer to mwifi_read, whose messages fit the header: as long as one packet was
\* lost, or one write or read given up, at most, the application reads nothing but
\* whole messages, however many packets are repeated.
THEOREM OneGapMixesNothing ==
  ASSUME NEW w, Writer = {w}, ~ RootReads, MessagesFit
  PROVE  TransferSpec => [](gaps =< 1 => MessagesAreWhole)
<1> DEFINE Inv == TransferTypeOK /\ OrderInv(w) /\ WholeInv(w)
<1>1. TransferInit => Inv
  <2> SUFFICES ASSUME TransferInit PROVE Inv
    OBVIOUS
  <2>1. wire[w] = <<>> /\ got = <<>> /\ buf = <<>> /\ expect = 0
    BY DEF TransferInit
  <2>2. Len(wire[w]) = 0 /\ DOMAIN got = {} /\ Len(buf) = 0
    BY <2>1
  <2>3. Ordered(w) /\ Taken = {} /\ Stream(w) /\ InStep(w) /\ MessagesAreWhole
    BY <2>1, <2>2 DEF Ordered, Taken, Stream, NoJump, InStep, MessagesAreWhole
  <2> QED
    BY <2>1, <2>2, <2>3, TransferTypeInit DEF OrderInv, WholeInv, Held
<1>2. Inv /\ [TransferNext]_transferVars => Inv'
  <2> SUFFICES ASSUME Inv, [TransferNext]_transferVars PROVE Inv'
    OBVIOUS
  <2>1. TransferTypeOK /\ TransferTypeOK' /\ OrderInv(w) /\ OrderInv(w)' /\ Ordered(w)
    BY TransferTypeStep, OrderStep DEF OrderInv
  <2>2. CASE UNCHANGED transferVars
    <3>1. /\ UNCHANGED <<msg, wire, buf, expect, magic, got, gaps>>
          /\ First(w)' = First(w) /\ IsCopy(w)' = IsCopy(w)
      BY <2>2 DEF transferVars, First, Line, Next, PacketOf, Writing, IsCopy
    <3>2. \A i : Tight(w, i)' = Tight(w, i) /\ Line(w, i)' = Line(w, i) /\ Line(w, i + 1)' = Line(w, i + 1)
      BY <3>1 DEF Tight, Line, Next, PacketOf, Writing, Follows
    <3>3. NoJump(w)' = NoJump(w) /\ (Stream(w) => Stream(w)')
      BY <3>1, <3>2 DEF Stream, NoJump, Jumps
    <3>4. Late(w)' = Late(w) /\ Restarts(w)' = Restarts(w) /\ Continues(w)' = Continues(w)
          /\ Partial(w)' = Partial(w)
      BY <3>1, <3>3 DEF Late, Restarts, Continues, Partial
    <3>5. Held(w) => Held(w)'
      BY <3>1, <3>4 DEF Held, InStep, Dropped, Ahead, Behind
    <3> QED
      BY <2>1, <3>1, <3>3, <3>5 DEF WholeInv, MessagesAreWhole
  <2>3. CASE ReadFails \/ ReadNotStarted
    BY <2>1, <2>3, WholeGaps
  <2>4. CASE Write(w)
    BY <2>1, <2>4, WholeWrites
  <2>5. CASE Read(w)
    <3>1. gaps' = gaps
      BY <2>1, <2>5, ReadCases
    <3> QED
      BY <2>1, <2>5, <3>1, WholeReads DEF WholeInv
  <2> QED
    BY <2>1, <2>2, <2>3, <2>4, <2>5 DEF TransferNext
<1>3. Inv => (gaps =< 1 => MessagesAreWhole)
  BY DEF WholeInv
<1> QED
  BY <1>1, <1>2, <1>3, PTL DEF TransferSpec

-----------------------------------------------------------------------------
\* What d mishaps between a packet (message m, number k, of s) and the one the line has next
\* (message n, number j) explain: nothing, a copy, or that the packets between are missing;
\* one for each message, that of the second packet only when its beginning is among them.
Paid(m, k, s, n, j, d) ==
  \/ (n = m /\ j = k + 1) \/ (n = m + 1 /\ j = 0 /\ k + 1 = s)
  \/ n = m /\ j = k /\ d >= 1
  \/ /\ n > m \/ (n = m /\ j > k)
     /\ d >= 1
     /\ d >= n - (IF k + 1 = s THEN m + 1 ELSE m) + (IF j > 0 THEN 1 ELSE 0)

\* What the reader can afford when packet k of message m comes next, as a copy if dup = 1;
\* own is the number of messages it has read with two more for each mishap so far.  Either
\* anything, when message m may be lost as well; or to lose m alone, when at the end of m
\* it begins anew; or nothing, when it is in step.
Spare(m, k, dup, own) == IF k = 0 /\ dup = 0 THEN m =< own ELSE m + 1 =< own

Enough(m, k, dup, len, e, own) ==
  \/ Spare(m, k, dup, own)
  \/ dup = 0 /\ k > 0 /\ m =< own /\ e =< len
  \/ dup = 0 /\ k = 0 /\ len = 0 /\ e = 0 /\ m =< own + 1
  \/ dup = 0 /\ k > 0 /\ e = k /\ len = k /\ m =< own + 1

\* What mwifi_read does with that packet: x messages are read, 0 or 1.
Does(k, s, dup, len, e, len2, e2, x) ==
  \/ k # e /\ k # 0 /\ len2 = 0 /\ e2 = 0 /\ x = 0
  \/ dup = 1 /\ x = 0
  \/ /\ dup = 0
     /\ \E kept \in {len, 0} :
          /\ (k = e /\ kept = len) \/ (k # e /\ k = 0 /\ kept = 0)
          /\ IF kept + 1 >= s THEN len2 = 0 /\ e2 = 0 /\ x = 1
             ELSE len2 = kept + 1 /\ e2 = (IF k = e THEN e + 1 ELSE 0) /\ x = 0

\* A packet that is taken by a reader that can afford what it may do to it.
Takes(m, k, s, dup, len, e, len2, e2, x, own) ==
  /\ m \in Nat /\ k \in Nat /\ s \in Nat /\ dup \in {0, 1} /\ len \in Nat /\ e \in Int
  /\ len2 \in Nat /\ e2 \in Int /\ x \in {0, 1} /\ own \in Nat /\ k < s
  /\ Enough(m, k, dup, len, e, own) /\ Does(k, s, dup, len, e, len2, e2, x)

LEMMA EnoughForLast ==
  ASSUME NEW m, NEW k, NEW s, NEW dup, NEW len, NEW e, NEW len2, NEW e2, NEW x, NEW own,
         Takes(m, k, s, dup, len, e, len2, e2, x, own)
  PROVE  /\ m =< own + 1
         /\ k + 1 = s => m =< own + x
<1> USE DEF Takes
<1>1. CASE Spare(m, k, dup, own)
  BY <1>1 DEF Spare
<1>2. CASE dup = 0 /\ k > 0 /\ m =< own /\ e =< len
  BY <1>2
<1>3. CASE dup = 0 /\ k = 0 /\ len = 0 /\ e = 0 /\ m =< own + 1
  BY <1>3 DEF Does
<1>4. CASE dup = 0 /\ k > 0 /\ e = k /\ len = k /\ m =< own + 1
  BY <1>4 DEF Does
<1> QED
  BY <1>1, <1>2, <1>3, <1>4 DEF Enough

LEMMA EnoughStays ==
  ASSUME NEW m, NEW k, NEW s, NEW dup, NEW len, NEW e, NEW len2, NEW e2, NEW x, NEW own,
         Takes(m, k, s, dup, len, e, len2, e2, x, own),
         NEW n \in Nat, NEW j \in Nat, NEW dup2 \in {0, 1}, NEW d \in Nat, Paid(m, k, s, n, j, d),
         dup2 = 1 => n = m /\ j = k
  PROVE  Enough(n, j, dup2, len2, e2, own + x + 2 * d)
<1>0. m =< own + 1 /\ (k + 1 = s => m =< own + x)
  BY EnoughForLast
<1> USE DEF Takes
<1>1. CASE n = m /\ j = k /\ d >= 1
  BY <1>0, <1>1 DEF Enough, Spare
<1>2. CASE /\ n > m \/ (n = m /\ j > k)
           /\ d >= 1
           /\ d >= n - (IF k + 1 = s THEN m + 1 ELSE m) + (IF j > 0 THEN 1 ELSE 0)
  <2>1. dup2 = 0
    BY <1>2
  <2>2. CASE k + 1 = s
    BY <1>0, <1>2, <2>1, <2>2 DEF Enough, Spare
  <2>3. CASE k + 1 # s
    BY <1>0, <1>2, <2>1, <2>3 DEF Enough, Spare
  <2> QED
    BY <2>2, <2>3
<1>3. CASE n = m /\ j = k + 1
  <2>1. dup2 = 0 /\ j > 0
    BY <1>3
  <2>2. CASE Spare(m, k, dup, own)
    <3>1. CASE m + 1 =< own
      BY <1>3, <3>1 DEF Enough, Spare
    <3>2. CASE k = 0 /\ dup = 0 /\ m =< own
      BY <1>3, <2>1, <3>2 DEF Enough, Does
    <3> QED
      BY <2>2, <3>1, <3>2 DEF Spare
  <2>3. CASE dup = 0 /\ k > 0 /\ m =< own /\ e =< len
    BY <1>3, <2>1, <2>3 DEF Enough, Does
  <2>4. CASE dup = 0 /\ k = 0 /\ len = 0 /\ e = 0 /\ m =< own + 1
    BY <1>3, <2>1, <2>4 DEF Enough, Does
  <2>5. CASE dup = 0 /\ k > 0 /\ e = k /\ len = k /\ m =< own + 1
    BY <1>3, <2>1, <2>5 DEF Enough, Does
  <2> QED
    BY <2>2, <2>3, <2>4, <2>5 DEF Enough
<1>4. CASE n = m + 1 /\ j = 0 /\ k + 1 = s
  <2>1. dup2 = 0
    BY <1>4
  <2>2. CASE Spare(m, k, dup, own)
    <3>1. CASE m + 1 =< own
      BY <1>4, <3>1 DEF Enough, Spare
    <3>2. CASE k = 0 /\ dup = 0 /\ m =< own
      BY <1>4, <2>1, <3>2 DEF Enough, Does
    <3> QED
      BY <2>2, <3>1, <3>2 DEF Spare
  <2>3. CASE dup = 0 /\ k > 0 /\ m =< own /\ e =< len
    BY <1>4, <2>1, <2>3 DEF Enough, Does
  <2>4. CASE dup = 0 /\ k = 0 /\ len = 0 /\ e = 0 /\ m =< own + 1
    BY <1>4, <2>1, <2>4 DEF Enough, Does
  <2>5. CASE dup = 0 /\ k > 0 /\ e = k /\ len = k /\ m =< own + 1
    BY <1>4, <2>1, <2>5 DEF Enough, Does
  <2> QED
    BY <2>2, <2>3, <2>4, <2>5 DEF Enough
<1> QED
  BY <1>1, <1>2, <1>3, <1>4 DEF Paid

\* More mishaps explain more: a packet that is lost, or a message given up, before the next.
LEMMA PaidAgain ==
  ASSUME NEW m \in Nat, NEW k \in Nat, NEW s \in Nat, k < s,
         NEW n \in Nat, NEW j \in Nat, NEW d \in Nat, Paid(m, k, s, n, j, d),
         n > m \/ (n = m /\ j > k),
         NEW n2 \in Nat, NEW j2 \in Nat, (n2 = n /\ j2 = j + 1) \/ (n2 = n + 1 /\ j2 = 0)
  PROVE  Paid(m, k, s, n2, j2, d + 1)
<1>1. CASE n2 = n /\ j2 = j + 1
  BY <1>1 DEF Paid
<1>2. CASE n2 = n + 1 /\ j2 = 0
  BY <1>2 DEF Paid
<1> QED
  BY <1>1, <1>2

\* Whatever it can afford, the reader is less than two messages behind.
LEMMA EnoughBounds ==
  ASSUME NEW m \in Nat, NEW k \in Nat, NEW dup \in {0, 1}, NEW len \in Nat, NEW e \in Int, NEW own \in Nat,
         Enough(m, k, dup, len, e, own)
  PROVE  m =< own + 1
BY DEF Enough, Spare

-----------------------------------------------------------------------------
\* The mishaps are entered along the line of packets: up to the packet at i there were
\* G[i], and those between two packets pay for what they are apart.
PaidAt(w, i, d) ==
  Paid(Line(w, i).msg, Line(w, i).num, Line(w, i).of, Line(w, i + 1).msg, Line(w, i + 1).num, d)

Ledger(w, G) ==
  /\ G \in [1 .. Len(wire[w]) + 1 -> Nat]
  /\ G[Len(wire[w]) + 1] =< gaps + repeats
  /\ \A i \in 1 .. Len(wire[w]) : \E d \in Nat : G[i + 1] = G[i] + d /\ PaidAt(w, i, d)

LEMMA MishapTypes ==
  ASSUME TransferTypeOK
  PROVE  gaps \in Nat /\ repeats \in Nat
BY DEF TransferTypeOK

LEMMA LedgerReads ==
  ASSUME TransferTypeOK, TransferTypeOK', NEW w \in Writer, Ordered(w), wire[w] # <<>>,
         wire' = [wire EXCEPT ![w] = Tail(wire[w])], UNCHANGED <<msg, gaps, repeats>>,
         NEW G, Ledger(w, G)
  PROVE  /\ \E H : Ledger(w, H)' /\ H[1] = G[2]
         /\ G[1] \in Nat /\ \E d \in Nat : G[2] = G[1] + d /\ PaidAt(w, 1, d)
<1>1. PICK n \in Nat \ {0} : n = Len(wire[w])
  BY ReadMoves
<1>2. Len(wire'[w]) = n - 1 /\ \A i \in Nat \ {0} : Line(w, i)' = Line(w, i + 1)
  BY <1>1, ReadMoves
<1>3. /\ G \in [1 .. n + 1 -> Nat] /\ G[n + 1] =< gaps + repeats
      /\ \A i \in 1 .. n : \E d \in Nat : G[i + 1] = G[i] + d /\ PaidAt(w, i, d)
  BY <1>1 DEF Ledger
<1>4. PICK H : H = [i \in 1 .. n |-> G[i + 1]]
  OBVIOUS
<1>5. /\ H \in [1 .. n -> Nat] /\ \A i \in 1 .. n : H[i] = G[i + 1]
  <2>1. \A i \in 1 .. n : i + 1 \in 1 .. n + 1
    OBVIOUS
  <2> QED
    BY <1>3, <1>4, <2>1
<1>6. \A i \in 1 .. n - 1 : \E d \in Nat : H[i + 1] = H[i] + d /\ PaidAt(w, i, d)'
  <2> TAKE i \in 1 .. n - 1
  <2>1. i \in Nat \ {0} /\ i + 1 \in Nat \ {0} /\ i + 1 \in 1 .. n /\ i \in 1 .. n
    OBVIOUS
  <2>2. Line(w, i)' = Line(w, i + 1) /\ Line(w, i + 1)' = Line(w, (i + 1) + 1)
    BY <1>2, <2>1
  <2>3. PICK d \in Nat : G[(i + 1) + 1] = G[i + 1] + d /\ PaidAt(w, i + 1, d)
    BY <1>3, <2>1
  <2>4. PaidAt(w, i, d)'
    BY <2>2, <2>3 DEF PaidAt
  <2>5. H[i + 1] = H[i] + d
    BY <1>5, <2>1, <2>3
  <2> QED
    BY <2>4, <2>5
<1>7. Ledger(w, H)'
  <2>1. (n - 1) + 1 = n /\ n \in 1 .. n
    OBVIOUS
  <2>2. H[n] =< gaps' + repeats'
    BY <1>3, <1>5, <2>1
  <2> QED
    BY <1>2, <1>5, <1>6, <2>1, <2>2 DEF Ledger
<1>8. 1 \in 1 .. n /\ 1 + 1 = 2 /\ 1 \in 1 .. n + 1
  OBVIOUS
<1>9. H[1] = G[2] /\ G[1] \in Nat
  BY <1>3, <1>5, <1>8
<1>10. PICK d \in Nat : G[1 + 1] = G[1] + d /\ PaidAt(w, 1, d)
  BY <1>3, <1>8
<1> QED
  BY <1>7, <1>8, <1>9, <1>10

LEMMA LedgerSends ==
  ASSUME TransferTypeOK, TransferTypeOK', NEW w \in Writer, Sends(w), NEW G, Ledger(w, G)
  PROVE  \E H : Ledger(w, H)' /\ H[1] = G[1]
<1>1. PICK p \in Packets : \E more \in Copies(p) \ {<<>>} :
        /\ wire'[w] = wire[w] \o more /\ repeats' = repeats + Len(more) - 1
        /\ p.piece = Next(w) /\ Follows(Next(w), Next(w)')
  BY DEF Sends
<1>2. PICK more \in Copies(p) \ {<<>>} :
        /\ wire'[w] = wire[w] \o more /\ repeats' = repeats + Len(more) - 1
        /\ p.piece = Next(w) /\ Follows(Next(w), Next(w)')
  BY <1>1
<1>3. PICK n \in Nat : n = Len(wire[w])
  BY LineTypes
<1>4. Grown(w, n, p, more) /\ gaps' = gaps
  BY <1>2, <1>3, LineGrows DEF Sends
<1>5. PICK k \in {1, 2} : k = Len(more)
  BY DEF Copies
<1>6. /\ Len(wire'[w]) = n + k
      /\ \A i \in 1 .. n : Line(w, i)' = Line(w, i)
      /\ \A i \in 1 .. k : Line(w, n + i)' = Next(w)
      /\ Line(w, n + k + 1)' = Next(w)' /\ Line(w, n + 1) = Next(w)
  <2>1. Line(w, n + 1) = Next(w)
    BY <1>3 DEF Line
  <2> QED
    BY <1>2, <1>4, <1>5, <2>1 DEF Grown
<1>7. /\ G \in [1 .. n + 1 -> Nat] /\ G[n + 1] =< gaps + repeats
      /\ \A i \in 1 .. n : \E d \in Nat : G[i + 1] = G[i] + d /\ PaidAt(w, i, d)
  BY <1>3 DEF Ledger
<1>8. PICK last \in Nat : last = G[n + 1]
  BY <1>7
<1>9. PICK H : H = [i \in 1 .. n + k + 1 |-> IF i =< n + 1 THEN G[i] ELSE last + (k - 1)]
  OBVIOUS
<1>10. /\ H \in [1 .. n + k + 1 -> Nat] /\ \A i \in 1 .. n + 1 : H[i] = G[i]
       /\ \A i \in 2 .. k + 1 : H[n + i] = last + (k - 1)
  <2>1. \A i \in 1 .. n + 1 : i \in 1 .. n + k + 1 /\ i =< n + 1
    OBVIOUS
  <2>2. \A i \in 2 .. k + 1 : n + i \in 1 .. n + k + 1 /\ ~ n + i =< n + 1
    OBVIOUS
  <2>3. \A i \in 1 .. n + k + 1 : i =< n + 1 => i \in 1 .. n + 1
    OBVIOUS
  <2>4. last + (k - 1) \in Nat
    OBVIOUS
  <2>5. H \in [1 .. n + k + 1 -> Nat]
    BY <1>7, <1>9, <2>3, <2>4
  <2> QED
    BY <1>9, <2>1, <2>2, <2>5
<1>11. \A i \in 1 .. n : \E d \in Nat : H[i + 1] = H[i] + d /\ PaidAt(w, i, d)'
  <2> TAKE i \in 1 .. n
  <2>1. i \in 1 .. n + 1 /\ i + 1 \in 1 .. n + 1
    OBVIOUS
  <2>2. Line(w, i)' = Line(w, i) /\ Line(w, i + 1)' = Line(w, i + 1)
    <3>1. CASE i < n
      <4>1. i + 1 \in 1 .. n
        BY <3>1
      <4> QED
        BY <1>6, <4>1
    <3>2. CASE i = n
      <4>1. 1 \in 1 .. k
        OBVIOUS
      <4> QED
        BY <1>6, <3>2, <4>1
    <3> QED
      BY <3>1, <3>2
  <2>3. PICK d \in Nat : G[i + 1] = G[i] + d /\ PaidAt(w, i, d)
    BY <1>7
  <2>4. PaidAt(w, i, d)'
    BY <2>2, <2>3 DEF PaidAt
  <2> QED
    BY <1>10, <2>1, <2>3, <2>4
<1>12. \A i \in n + 1 .. n + k : \E d \in Nat : H[i + 1] = H[i] + d /\ PaidAt(w, i, d)'
  <2> TAKE i \in n + 1 .. n + k
  <2>0. Next(w).msg \in Nat /\ Next(w).num \in Nat
    BY LineTypes
  <2>1. CASE i = n + k
    <3>1. Line(w, i)' = Next(w) /\ Line(w, i + 1)' = Next(w)'
      <4>1. k \in 1 .. k
        OBVIOUS
      <4> QED
        BY <1>6, <2>1, <4>1
    <3>2. PaidAt(w, i, 0)'
      BY <1>2, <3>1 DEF PaidAt, Paid, Follows
    <3>3. H[i + 1] = H[i] + 0
      <4>1. H[n + k] = last + (k - 1)
        <5>1. CASE k = 1
          <6>1. n + 1 \in 1 .. n + 1 /\ last + (k - 1) = last
            BY <5>1
          <6> QED
            BY <1>8, <1>10, <5>1, <6>1
        <5>2. CASE k = 2
          <6>1. k \in 2 .. k + 1
            BY <5>2
          <6> QED
            BY <1>10, <6>1
        <5> QED
          BY <5>1, <5>2
      <4>2. H[n + (k + 1)] = last + (k - 1)
        <5>1. k + 1 \in 2 .. k + 1
          OBVIOUS
        <5> QED
          BY <1>10, <5>1
      <4>3. i + 1 = n + (k + 1) /\ last + (k - 1) + 0 = last + (k - 1)
        BY <2>1
      <4> QED
        BY <2>1, <4>1, <4>2, <4>3
    <3> QED
      BY <3>2, <3>3
  <2>2. CASE i # n + k
    <3>1. k = 2 /\ i = n + 1 /\ i + 1 = n + 2
      BY <2>2
    <3>2. Line(w, i)' = Next(w) /\ Line(w, i + 1)' = Next(w)
      <4>1. 1 \in 1 .. k /\ 2 \in 1 .. k
        BY <3>1
      <4> QED
        BY <1>6, <3>1, <4>1
    <3>3. PaidAt(w, i, 1)'
      BY <3>2 DEF PaidAt, Paid
    <3>4. H[i + 1] = H[i] + 1
      <4>1. 2 \in 2 .. k + 1 /\ n + 1 \in 1 .. n + 1 /\ last + (k - 1) = last + 1
        BY <3>1
      <4> QED
        BY <1>8, <1>10, <3>1, <4>1
    <3> QED
      BY <3>3, <3>4
  <2> QED
    BY <2>1, <2>2
<1>13. H[n + k + 1] =< gaps' + repeats'
  <2>1. H[n + (k + 1)] = last + (k - 1)
    <3>1. k + 1 \in 2 .. k + 1
      OBVIOUS
    <3> QED
      BY <1>10, <3>1
  <2>2. gaps \in Nat /\ repeats \in Nat /\ repeats' = repeats + k - 1
    BY <1>2, <1>5, MishapTypes
  <2>3. n + k + 1 = n + (k + 1)
    OBVIOUS
  <2>4. last + (k - 1) =< gaps + (repeats + k - 1)
    BY <1>7, <1>8, <2>2
  <2> QED
    BY <1>4, <2>1, <2>2, <2>3, <2>4
<1>14. \A i \in 1 .. n + k : i \in 1 .. n \/ i \in n + 1 .. n + k
  OBVIOUS
<1>15. Ledger(w, H)'
  BY <1>6, <1>10, <1>11, <1>12, <1>13, <1>14 DEF Ledger
<1>16. 1 \in 1 .. n + 1
  OBVIOUS
<1> QED
  BY <1>10, <1>15, <1>16

LEMMA LedgerSkips ==
  ASSUME TransferTypeOK, TransferTypeOK', NEW w \in Writer, Skips(w), Ordered(w),
         NEW G, Ledger(w, G)
  PROVE  \E H : /\ Ledger(w, H)'
                /\ H[1] = IF wire[w] = <<>> /\ gaps' # gaps THEN G[1] + 1 ELSE G[1]
<1>1. PICK n \in Nat : n = Len(wire[w])
  BY LineTypes
<1>2. wire' = wire /\ Len(wire'[w]) = n /\ repeats' = repeats /\ gaps \in Nat /\ repeats \in Nat
  BY <1>1, MishapTypes DEF Skips
<1>3. \A i \in 1 .. n : Line(w, i)' = Line(w, i)
  BY <1>1, <1>2 DEF Line
<1>4. Line(w, n + 1) = Next(w) /\ Line(w, n + 1)' = Next(w)'
  BY <1>1, <1>2 DEF Line
<1>5. /\ G \in [1 .. n + 1 -> Nat] /\ G[n + 1] =< gaps + repeats
      /\ \A i \in 1 .. n : \E d \in Nat : G[i + 1] = G[i] + d /\ PaidAt(w, i, d)
  BY <1>1 DEF Ledger
<1>6. \A i \in 1 .. n : i # n => /\ i + 1 \in 1 .. n
                                 /\ \A d \in Nat : PaidAt(w, i, d) => PaidAt(w, i, d)'
  <2> TAKE i \in 1 .. n
  <2> HAVE i # n
  <2>1. i + 1 \in 1 .. n
    OBVIOUS
  <2>2. Line(w, i)' = Line(w, i) /\ Line(w, i + 1)' = Line(w, i + 1)
    BY <1>3, <2>1
  <2> QED
    BY <2>1, <2>2 DEF PaidAt
<1>7. CASE gaps' = gaps /\ SamePlace(Next(w), Next(w)')
  <2>1. \A i \in 1 .. n : \A d \in Nat : PaidAt(w, i, d) => PaidAt(w, i, d)'
    <3> TAKE i \in 1 .. n
    <3>1. CASE i = n
      <4>1. /\ Line(w, i)' = Line(w, i)
            /\ Line(w, i + 1)'.msg = Line(w, i + 1).msg /\ Line(w, i + 1)'.num = Line(w, i + 1).num
        BY <1>3, <1>4, <1>7, <3>1 DEF SamePlace
      <4> QED
        BY <4>1 DEF PaidAt
    <3>2. CASE i # n
      BY <1>6, <3>2
    <3> QED
      BY <3>1, <3>2
  <2>2. Ledger(w, G)'
    BY <1>2, <1>5, <1>7, <2>1 DEF Ledger
  <2> QED
    BY <1>7, <2>2
<1>8. CASE gaps' = gaps + 1 /\ (Follows(Next(w), Next(w)')
                                \/ (Next(w)'.msg = Next(w).msg + 1 /\ Next(w)'.num = 0))
  <2>1. PICK last \in Nat : last = G[n + 1]
    BY <1>5
  <2>2. PICK H : H = [i \in 1 .. n + 1 |-> IF i = n + 1 THEN last + 1 ELSE G[i]]
    OBVIOUS
  <2>3. H \in [1 .. n + 1 -> Nat] /\ H[n + 1] = last + 1 /\ \A i \in 1 .. n : H[i] = G[i]
    <3>1. n + 1 \in 1 .. n + 1 /\ \A i \in 1 .. n : i \in 1 .. n + 1 /\ i # n + 1
      OBVIOUS
    <3> QED
      BY <1>5, <2>2, <3>1
  <2>4. \A i \in 1 .. n : \E d \in Nat : H[i + 1] = H[i] + d /\ PaidAt(w, i, d)'
    <3> TAKE i \in 1 .. n
    <3>1. PICK d \in Nat : G[i + 1] = G[i] + d /\ PaidAt(w, i, d)
      BY <1>5
    <3>2. CASE i = n
      <4>1. /\ Line(w, n)' = Line(w, n) /\ Later(Line(w, n), Next(w))
            /\ Line(w, n).num < Line(w, n).of /\ Line(w, n) \in Piece
        <5>1. ~ n < n /\ n \in 1 .. n
          BY <3>2
        <5>2. Line(w, n) = wire[w][n].piece
          BY <1>1, <5>1 DEF Line
        <5> QED
          BY <1>1, <1>3, <1>4, <5>1, <5>2, LineTypes DEF Ordered
      <4>2. PICK m \in Nat, k \in Nat, s \in Nat :
              m = Line(w, n).msg /\ k = Line(w, n).num /\ s = Line(w, n).of
        <5>1. \A s \in Sizes : s \in Nat
          OBVIOUS
        <5>2. n \in Nat \ {0}
          BY <3>2
        <5> QED
          BY <4>1, <5>1, <5>2, LineTypes DEF Piece
      <4>3. PICK v \in Nat, j \in Nat : v = Next(w).msg /\ j = Next(w).num
        BY LineTypes
      <4>4. PICK v2 \in Nat, j2 \in Nat : v2 = Next(w)'.msg /\ j2 = Next(w)'.num
        <5>1. n + 1 \in Nat \ {0}
          OBVIOUS
        <5> QED
          BY <1>4, <5>1, NextLineTypes DEF LinesTyped
      <4>5. k < s /\ Paid(m, k, s, v, j, d)
        BY <1>4, <3>1, <3>2, <4>1, <4>2, <4>3 DEF PaidAt
      <4>6. v > m \/ (v = m /\ j > k)
        BY <4>1, <4>2, <4>3 DEF Later
      <4>7. (v2 = v /\ j2 = j + 1) \/ (v2 = v + 1 /\ j2 = 0)
        BY <1>8, <4>3, <4>4 DEF Follows
      <4>8. Paid(m, k, s, v2, j2, d + 1)
        BY <4>5, <4>6, <4>7, PaidAgain
      <4>9. PaidAt(w, n, d + 1)'
        BY <1>4, <4>1, <4>2, <4>4, <4>8 DEF PaidAt
      <4>10. H[n + 1] = H[n] + (d + 1)
        <5>1. H[n] = G[n] /\ G[n] \in Nat
          <6>1. n \in 1 .. n /\ n \in 1 .. n + 1
            BY <3>2
          <6> QED
            BY <1>5, <2>3, <6>1
        <5>2. H[n + 1] = last + 1 /\ last = G[n + 1]
          BY <2>1, <2>3
        <5>3. last = G[n] + d
          BY <3>1, <3>2, <5>2
        <5> QED
          BY <5>1, <5>2, <5>3
      <4>11. d + 1 \in Nat
        OBVIOUS
      <4> QED
        BY <3>2, <4>9, <4>10, <4>11
    <3>3. CASE i # n
      BY <1>6, <2>3, <3>1, <3>3
    <3> QED
      BY <3>2, <3>3
  <2>5. Ledger(w, H)'
    <3>1. H[n + 1] =< gaps' + repeats'
      BY <1>2, <1>5, <1>8, <2>1, <2>3
    <3> QED
      BY <1>2, <2>3, <2>4, <3>1 DEF Ledger
  <2>6. H[1] = IF wire[w] = <<>> /\ gaps' # gaps THEN G[1] + 1 ELSE G[1]
    <3>1. CASE n = 0
      <4>2. wire[w] = <<>>
        <5>1. \A q \in Seq(Packets) : q # <<>> => Len(q) \in Nat \ {0}
          OBVIOUS
        <5>2. wire[w] \in Seq(Packets)
          BY LineTypes
        <5> QED
          BY <1>1, <3>1, <5>1, <5>2
      <4>1. wire[w] = <<>> /\ n + 1 = 1 /\ gaps' # gaps
        BY <1>2, <1>8, <3>1, <4>2
      <4> QED
        BY <2>1, <2>3, <4>1
    <3>2. CASE n # 0
      <4>1. wire[w] # <<>> /\ 1 \in 1 .. n
        <5>1. wire[w] = <<>> => Len(wire[w]) = 0
          OBVIOUS
        <5> QED
          BY <1>1, <3>2, <5>1
      <4> QED
        BY <2>3, <4>1
    <3> QED
      BY <3>1, <3>2
  <2> QED
    BY <2>5, <2>6
<1> QED
  BY <1>7, <1>8 DEF Skips

-----------------------------------------------------------------------------
\* The packet that was accepted last is earlier than the first in the line, or that is a
\* copy of it.
MagicPast(w) == magic # NoPiece => Later(magic, First(w)) \/ IsCopy(w)

Copy(w) == IF IsCopy(w) THEN 1 ELSE 0

Affords(w, g) ==
  Enough(First(w).msg, First(w).num, Copy(w), Len(buf), expect, Cardinality(Taken) + 2 * g)

DamageInv(w) ==
  /\ IsFiniteSet(Taken)
  /\ MagicPast(w)
  /\ \E G : Ledger(w, G) /\ Affords(w, G[1])

LEMMA TakenTypes == IsFiniteSet(Taken) => Cardinality(Taken) \in Nat
BY FS_CardinalityType

LEMMA MagicTypes ==
  ASSUME TransferTypeOK
  PROVE  /\ NoPiece \notin Piece
         /\ magic # NoPiece => magic.msg \in Nat /\ magic.num \in Nat
<1>1. \A p \in Piece : DOMAIN p = {"from", "msg", "num", "of"}
  BY DEF Piece
<1>2. DOMAIN NoPiece = {"from"}
  BY DEF NoPiece
<1>3. NoPiece \notin Piece
  BY <1>1, <1>2
<1>4. \A p \in Piece : p.msg \in Nat /\ p.num \in Nat
  BY DEF Piece
<1> QED
  BY <1>3, <1>4, ReaderTypes

LEMMA FirstStays ==
  ASSUME UNCHANGED <<wire, magic>>, NEW w \in Writer
  PROVE  /\ IsCopy(w)' <=> IsCopy(w)
         /\ wire[w] # <<>> => First(w)' = First(w)
         /\ wire[w] = <<>> => First(w) = Next(w) /\ First(w)' = Next(w)'
BY DEF IsCopy, First, Line

LEMMA AffordsNat ==
  ASSUME TransferTypeOK, IsFiniteSet(Taken), NEW w \in Writer, NEW g \in Nat
  PROVE  /\ First(w).msg \in Nat /\ First(w).num \in Nat /\ Copy(w) \in {0, 1}
         /\ Len(buf) \in Nat /\ expect \in Int /\ Cardinality(Taken) + 2 * g \in Nat
         /\ Affords(w, g) => First(w).msg =< Cardinality(Taken) + 2 * g + 1
<1>1. /\ First(w).msg \in Nat /\ First(w).num \in Nat /\ Copy(w) \in {0, 1}
      /\ Len(buf) \in Nat /\ expect \in Int
  BY HeldTypes DEF Copy
<1>2. Cardinality(Taken) + 2 * g \in Nat
  BY TakenTypes
<1>3. Affords(w, g) => First(w).msg =< Cardinality(Taken) + 2 * g + 1
  BY <1>1, <1>2, EnoughBounds DEF Affords
<1> QED
  BY <1>1, <1>2, <1>3

LEMMA DamageGaps ==
  ASSUME TransferTypeOK, TransferTypeOK', ~ RootReads, NEW w \in Writer, DamageInv(w),
         ReadFails \/ ReadNotStarted
  PROVE  DamageInv(w)'
<1>1. UNCHANGED <<msg, wire, magic, got, repeats>> /\ gaps' = gaps + 1
  BY GapCases
<1>2. PICK G : Ledger(w, G) /\ Affords(w, G[1])
  BY DEF DamageInv
<1>3. PICK n \in Nat : n = Len(wire[w])
  BY LineTypes
<1>4. /\ G \in [1 .. n + 1 -> Nat] /\ G[n + 1] =< gaps + repeats
      /\ \A i \in 1 .. n : \E d \in Nat : G[i + 1] = G[i] + d /\ PaidAt(w, i, d)
  BY <1>2, <1>3 DEF Ledger
<1>5. \A i \in Nat : Line(w, i)' = Line(w, i)
  BY <1>1 DEF Line, Next, PacketOf, Writing
<1>6. PICK H : H = [i \in 1 .. n + 1 |-> G[i] + 1]
  OBVIOUS
<1>7. H \in [1 .. n + 1 -> Nat] /\ \A i \in 1 .. n + 1 : G[i] \in Nat /\ H[i] = G[i] + 1
  BY <1>4, <1>6
<1>8. Ledger(w, H)'
  <2>1. \A i \in 1 .. n : \E d \in Nat : H[i + 1] = H[i] + d /\ PaidAt(w, i, d)'
    <3> TAKE i \in 1 .. n
    <3>1. PICK d \in Nat : G[i + 1] = G[i] + d /\ PaidAt(w, i, d)
      BY <1>4
    <3>2. i \in Nat /\ i + 1 \in Nat /\ i \in 1 .. n + 1 /\ i + 1 \in 1 .. n + 1
      OBVIOUS
    <3>3. PaidAt(w, i, d)'
      BY <1>5, <3>1, <3>2 DEF PaidAt
    <3>4. H[i + 1] = H[i] + d
      BY <1>7, <3>1, <3>2
    <3> QED
      BY <3>3, <3>4
  <2>2. H[n + 1] =< gaps' + repeats'
    <3>1. n + 1 \in 1 .. n + 1
      OBVIOUS
    <3> QED
      BY <1>1, <1>4, <1>7, <3>1, MishapTypes
  <2>3. Len(wire'[w]) = n
    BY <1>1, <1>3
  <2> QED
    BY <1>7, <2>1, <2>2, <2>3 DEF Ledger
<1>9. /\ First(w)' = First(w) /\ Copy(w)' = Copy(w) /\ Taken' = Taken
      /\ Cardinality(Taken)' = Cardinality(Taken)
      /\ MagicPast(w)' = MagicPast(w)
  BY <1>1, <1>5 DEF First, Copy, IsCopy, Taken, MagicPast, Later
<1>10. Affords(w, H[1])'
  <2>1. G[1] \in Nat /\ H[1] = G[1] + 1
    <3>1. 1 \in 1 .. n + 1
      OBVIOUS
    <3> QED
      BY <1>7, <3>1
  <2>2. PICK m \in Nat, k \in Nat, dup \in {0, 1}, own \in Nat :
          /\ m = First(w).msg /\ k = First(w).num /\ dup = Copy(w)
          /\ own = Cardinality(Taken) + 2 * G[1]
    BY <2>1, AffordsNat DEF DamageInv
  <2>3. m =< own + 1
    BY <1>2, <2>1, <2>2, AffordsNat DEF DamageInv
  <2>6. Spare(m, k, dup, own + 2)
    BY <2>3 DEF Spare
  <2>4. Enough(m, k, dup, Len(buf'), expect', own + 2)
    BY <2>6 DEF Enough
  <2>5. Cardinality(Taken) + 2 * H[1] = own + 2
    BY <2>1, <2>2, TakenTypes DEF DamageInv
  <2> QED
    BY <1>9, <2>2, <2>4, <2>5 DEF Affords
<1> QED
  BY <1>8, <1>9, <1>10 DEF DamageInv

LEMMA DamageWrites ==
  ASSUME TransferTypeOK, TransferTypeOK', MessagesFit, NEW w \in Writer, Write(w), Ordered(w),
         DamageInv(w)
  PROVE  DamageInv(w)'
<1>1. /\ SamePlace(First(w), First(w)') \/ Later(First(w), First(w)')
      /\ wire[w] # <<>> => wire'[w] # <<>> /\ First(w)' = First(w) /\ wire'[w][1] = wire[w][1]
      /\ UNCHANGED <<buf, expect, magic, got>>
  BY WriteKeepsOrder
<1>2. PICK G : Ledger(w, G) /\ Affords(w, G[1])
  BY DEF DamageInv
<1>3. Taken' = Taken /\ Cardinality(Taken)' = Cardinality(Taken) /\ Cardinality(Taken) \in Nat
  BY <1>1, TakenTypes DEF Taken, DamageInv
<1>4. G[1] \in Nat
  <2>1. 1 \in 1 .. Len(wire[w]) + 1
    BY LineTypes
  <2> QED
    BY <1>2, <2>1 DEF Ledger
<1>5. /\ First(w).msg \in Nat /\ First(w).num \in Nat
      /\ First(w)'.msg \in Nat /\ First(w)'.num \in Nat
  BY HeldTypes, NextLineTypes DEF LinesTyped, First
<1>6. wire[w] = <<>> => ~ IsCopy(w) /\ First(w) = Next(w)
  BY DEF IsCopy, First, Line
<1>7. wire[w] = <<>> /\ wire'[w] # <<>> => ~ IsCopy(w)'
  <2> SUFFICES ASSUME wire[w] = <<>>, wire'[w] # <<>>, IsCopy(w)'
               PROVE  FALSE
    OBVIOUS
  <2>1. Sends(w)
    BY WriteKinds DEF Skips
  <2>2. PICK p \in Packets : \E more \in Copies(p) \ {<<>>} :
          wire'[w] = wire[w] \o more /\ p.piece = Next(w)
    BY <2>1 DEF Sends
  <2>3. PICK more \in Copies(p) \ {<<>>} : wire'[w] = <<>> \o more /\ p.piece = Next(w)
    BY <2>2
  <2>4. wire'[w][1] = p
    BY <2>3 DEF Copies
  <2>5. magic = First(w) /\ magic \in Piece
    BY <1>1, <1>6, <2>2, <2>4 DEF IsCopy, Packets
  <2>6. ~ Later(magic, First(w)) /\ magic # NoPiece
    BY <1>5, <2>5, MagicTypes DEF Later
  <2> QED
    BY <1>6, <2>6 DEF DamageInv, MagicPast
<1>8. IsCopy(w)' <=> IsCopy(w)
  <2>1. CASE wire[w] = <<>>
    BY <1>6, <1>7, <2>1 DEF IsCopy
  <2>2. CASE wire[w] # <<>>
    BY <1>1, <2>2 DEF IsCopy
  <2> QED
    BY <2>1, <2>2
<1>9. MagicPast(w)'
  <2> SUFFICES ASSUME magic # NoPiece, ~ IsCopy(w)
               PROVE  Later(magic, First(w)')
    BY <1>1, <1>8 DEF MagicPast, Later
  <2>1. Later(magic, First(w)) /\ magic.msg \in Nat /\ magic.num \in Nat
    BY MagicTypes DEF DamageInv, MagicPast
  <2> QED
    BY <1>1, <1>5, <2>1 DEF Later, SamePlace
<1>10. \/ /\ \E H : Ledger(w, H)' /\ H[1] = G[1]
          /\ First(w)'.msg = First(w).msg /\ First(w)'.num = First(w).num
       \/ /\ \E H : Ledger(w, H)' /\ H[1] = G[1] + 1
          /\ wire[w] = <<>>
          /\ Follows(First(w), First(w)')
             \/ (First(w)'.msg = First(w).msg + 1 /\ First(w)'.num = 0)
  <2>1. CASE Sends(w)
    <3>1. \E H : Ledger(w, H)' /\ H[1] = G[1]
      BY <1>2, <2>1, LedgerSends
    <3>2. First(w)' = First(w)
      <4>1. CASE wire[w] = <<>>
        <5>1. PICK p \in Packets : \E more \in Copies(p) \ {<<>>} :
                wire'[w] = wire[w] \o more /\ p.piece = Next(w)
          BY <2>1 DEF Sends
        <5>2. PICK more \in Copies(p) \ {<<>>} : wire'[w] = <<>> \o more /\ p.piece = Next(w)
          BY <4>1, <5>1
        <5>3. wire'[w][1] = p /\ Len(wire'[w]) >= 1
          BY <5>2 DEF Copies
        <5> QED
          BY <1>6, <4>1, <5>2, <5>3 DEF First, Line
      <4> QED
        BY <1>1, <4>1
    <3> QED
      BY <3>1, <3>2
  <2>2. CASE Skips(w)
    <3>1. PICK H : /\ Ledger(w, H)'
                   /\ H[1] = IF wire[w] = <<>> /\ gaps' # gaps THEN G[1] + 1 ELSE G[1]
      BY <1>2, <2>2, LedgerSkips
    <3>2. CASE wire[w] = <<>>
      <4>1. First(w) = Next(w) /\ First(w)' = Next(w)'
        BY <1>1, <2>2, <3>2 DEF Skips, First, Line
      <4>2. gaps \in Nat
        BY MishapTypes
      <4>3. CASE gaps' = gaps /\ SamePlace(Next(w), Next(w)')
        BY <3>1, <4>1, <4>3 DEF SamePlace
      <4>4. CASE gaps' = gaps + 1 /\ (Follows(Next(w), Next(w)')
                                      \/ (Next(w)'.msg = Next(w).msg + 1 /\ Next(w)'.num = 0))
        <5>1. gaps' # gaps
          BY <4>2, <4>4
        <5> QED
          BY <3>1, <3>2, <4>1, <4>4, <5>1
      <4> QED
        BY <2>2, <4>3, <4>4 DEF Skips
    <3>3. CASE wire[w] # <<>>
      BY <1>1, <3>1, <3>3
    <3> QED
      BY <3>2, <3>3
  <2> QED
    BY <2>1, <2>2, WriteKinds
<1>11. PICK m \in Nat, k \in Nat, dup \in {0, 1}, own \in Nat :
         /\ m = First(w).msg /\ k = First(w).num /\ dup = Copy(w)
         /\ own = Cardinality(Taken) + 2 * G[1]
  BY <1>4, AffordsNat DEF DamageInv
<1>12. Enough(m, k, dup, Len(buf), expect, own) /\ Copy(w)' = dup
  BY <1>2, <1>8, <1>11 DEF Affords, Copy
<1>13. \E H : Ledger(w, H)' /\ Affords(w, H[1])'
  <2>1. CASE /\ \E H : Ledger(w, H)' /\ H[1] = G[1]
             /\ First(w)'.msg = First(w).msg /\ First(w)'.num = First(w).num
    <3>1. PICK H : Ledger(w, H)' /\ H[1] = G[1]
      BY <2>1
    <3>2. Affords(w, H[1])'
      BY <1>1, <1>3, <1>11, <1>12, <2>1, <3>1 DEF Affords
    <3> QED
      BY <3>1, <3>2
  <2>2. CASE /\ \E H : Ledger(w, H)' /\ H[1] = G[1] + 1
             /\ wire[w] = <<>>
             /\ Follows(First(w), First(w)')
                \/ (First(w)'.msg = First(w).msg + 1 /\ First(w)'.num = 0)
    <3>1. PICK H : Ledger(w, H)' /\ H[1] = G[1] + 1
      BY <2>2
    <3>2. dup = 0
      BY <1>6, <1>11, <2>2 DEF Copy
    <3>3. PICK v \in Nat, j \in Nat : v = First(w)'.msg /\ j = First(w)'.num
      BY <1>5
    <3>4. (v = m /\ (j = k \/ j = k + 1)) \/ (v = m + 1 /\ j = 0)
      BY <1>11, <2>2, <3>3 DEF Follows
    <3>5. m =< own + 1
      BY <1>2, <1>4, <1>11, AffordsNat DEF DamageInv
    <3>9. Spare(v, j, dup, own + 2)
      <4>1. CASE v = m
        BY <3>5, <4>1 DEF Spare
      <4>2. CASE v = m + 1 /\ j = 0
        BY <3>2, <3>5, <4>2 DEF Spare
      <4> QED
        BY <3>4, <4>1, <4>2
    <3>6. Enough(v, j, dup, Len(buf), expect, own + 2)
      BY <3>9 DEF Enough
    <3>7. Cardinality(Taken) + 2 * (G[1] + 1) = own + 2
      BY <1>3, <1>4, <1>11
    <3>8. Affords(w, H[1])'
      BY <1>1, <1>3, <1>12, <3>1, <3>3, <3>6, <3>7 DEF Affords
    <3> QED
      BY <3>1, <3>8
  <2> QED
    BY <1>10, <2>1, <2>2
<1> QED
  BY <1>3, <1>9, <1>13 DEF DamageInv

LEMMA MagicReads ==
  ASSUME TransferTypeOK, TransferTypeOK', ~ RootReads, NEW w \in Writer, Read(w), Ordered(w),
         MagicPast(w)
  PROVE  /\ MagicPast(w)'
         /\ IsCopy(w)' => First(w)' = First(w)
<1> DEFINE h == First(w)
<1>1. /\ wire[w] # <<>> /\ h = wire[w][1].piece /\ h \in Piece
      /\ wire' = [wire EXCEPT ![w] = Tail(wire[w])] /\ UNCHANGED msg
      /\ Discards(h) \/ Filters(h) \/ Accepts(h)
  BY ReadCases
<1>2. \/ Later(h, First(w)')
      \/ First(w)' = h /\ wire'[w] # <<>> /\ wire'[w][1].piece = h
  BY <1>1, ReadMoves
<1>3. /\ h.msg \in Nat /\ h.num \in Nat /\ First(w)'.msg \in Nat /\ First(w)'.num \in Nat
  BY HeldTypes, NextLineTypes DEF LinesTyped, First
<1>4. wire'[w] # <<>> => First(w)' = wire'[w][1].piece /\ First(w)' # NoPiece
  <2> HAVE wire'[w] # <<>>
  <2>1. wire'[w] \in Seq(Packets)
    BY DEF TransferTypeOK
  <2>2. \A q \in Seq(Packets) : q # <<>> => 1 =< Len(q) /\ q[1] \in Packets
    OBVIOUS
  <2>3. 1 =< Len(wire'[w]) /\ wire'[w][1] \in Packets
    BY <2>1, <2>2
  <2>4. First(w)' = wire'[w][1].piece
    BY <2>3 DEF First, Line
  <2>5. wire'[w][1].piece \in Piece
    BY <2>3 DEF Packets
  <2> QED
    BY <2>4, <2>5, MagicTypes
<1>5. magic # NoPiece => magic.msg \in Nat /\ magic.num \in Nat /\ (Later(magic, h) \/ magic = h)
  BY <1>1, MagicTypes DEF MagicPast, IsCopy
<1> HIDE DEF h
<1>6. CASE magic' = h
  BY <1>2, <1>4, <1>6 DEF MagicPast, IsCopy, h
<1>7. CASE magic' = magic
  <2>1. IsCopy(w)' => First(w)' = h
    <3> SUFFICES ASSUME IsCopy(w)', Later(h, First(w)')
                 PROVE  FALSE
      BY <1>2 DEF h
    <3>1. magic = First(w)' /\ magic # NoPiece
      BY <1>4, <1>7 DEF IsCopy
    <3> QED
      BY <1>3, <1>5, <3>1 DEF Later
  <2>2. magic # NoPiece => Later(magic, First(w)') \/ IsCopy(w)'
    <3> HAVE magic # NoPiece
    <3>1. CASE Later(h, First(w)')
      BY <1>3, <1>5, <3>1 DEF Later
    <3>2. CASE First(w)' = h /\ wire'[w] # <<>> /\ wire'[w][1].piece = h
      BY <1>5, <1>7, <3>2 DEF IsCopy
    <3> QED
      BY <1>2, <3>1, <3>2
  <2> QED
    BY <1>7, <2>1, <2>2 DEF MagicPast, h
<1> QED
  BY <1>1, <1>6, <1>7 DEF Discards, Filters, Accepts

\* What a read does, in numbers.
LEMMA ReadDoes ==
  ASSUME TransferTypeOK, TransferTypeOK', ~ RootReads, MessagesFit, NEW w \in Writer, Read(w),
         OrderInv(w), OrderInv(w)', IsFiniteSet(Taken)
  PROVE  /\ IsFiniteSet(Taken)'
         /\ \E x \in {0, 1} :
              /\ Cardinality(Taken)' = Cardinality(Taken) + x
              /\ Does(First(w).num, First(w).of, Copy(w), Len(buf), expect, Len(buf'), expect', x)
<1> DEFINE h == First(w)
<1>1. /\ wire[w] # <<>> /\ h = wire[w][1].piece /\ h \in Piece
      /\ Discards(h) \/ Filters(h) \/ Accepts(h)
  BY ReadCases DEF OrderInv
<1>2. IsCopy(w) <=> h = magic
  BY <1>1 DEF IsCopy
<1>3. got' = got => Taken' = Taken
  BY DEF Taken
<1>4. buf \in Seq(Piece) /\ Len(buf) \in Nat /\ expect \in Int /\ Len(<<>>) = 0
  BY HeldTypes
<1>5. Cardinality(Taken) \in Nat
  BY TakenTypes
<1> HIDE DEF h
<1>6. CASE Discards(h)
  <2>1. Does(h.num, h.of, Copy(w), Len(buf), expect, Len(buf'), expect', 0)
    BY <1>4, <1>6 DEF Discards, Does
  <2>2. Taken' = Taken
    BY <1>3, <1>6 DEF Discards
  <2> QED
    BY <1>5, <2>1, <2>2 DEF h
<1>7. CASE Filters(h)
  <2>1. Does(h.num, h.of, Copy(w), Len(buf), expect, Len(buf'), expect', 0)
    BY <1>2, <1>7 DEF Filters, Does, Copy
  <2>2. Taken' = Taken
    BY <1>3, <1>7 DEF Filters
  <2> QED
    BY <1>5, <2>1, <2>2 DEF h
<1>8. CASE Accepts(h)
  <2>1. PICK kept \in {buf, <<>>} :
          /\ \/ h.num = expect /\ kept = buf
             \/ h.num # expect /\ h.num = 0 /\ kept = <<>>
          /\ IF Len(kept) + 1 >= h.of
               THEN got' = Append(got, Append(kept, h)) /\ buf' = <<>> /\ expect' = 0
               ELSE /\ got' = got /\ buf' = Append(kept, h)
                    /\ expect' = IF h.num = expect THEN expect + 1 ELSE 0
    BY <1>8 DEF Accepts
  <2>2. Copy(w) = 0
    BY <1>2, <1>8 DEF Accepts, Copy
  <2>3. kept \in Seq(Piece)
    <3>1. <<>> \in Seq(Piece)
      OBVIOUS
    <3>2. kept = buf \/ kept = <<>>
      OBVIOUS
    <3> QED
      BY <1>4, <3>1, <3>2
  <2>4. PICK l \in {Len(buf), 0} :
          l = Len(kept) /\ ((h.num = expect /\ l = Len(buf)) \/ (h.num # expect /\ h.num = 0 /\ l = 0))
    BY <1>4, <2>1
  <2>5. CASE l + 1 >= h.of
    <3>1. got' = Append(got, Append(kept, h)) /\ buf' = <<>> /\ expect' = 0
      BY <2>1, <2>4, <2>5
    <3>2. Does(h.num, h.of, Copy(w), Len(buf), expect, Len(buf'), expect', 1)
      BY <1>4, <2>2, <2>4, <2>5, <3>1 DEF Does
    <3>3. PICK s : s = Append(kept, h)[1].msg
      OBVIOUS
    <3>4. /\ DOMAIN got' = 1 .. Len(got) + 1 /\ got'[Len(got) + 1] = Append(kept, h)
          /\ \A i \in 1 .. Len(got) : got'[i] = got[i]
          /\ Len(got) \in Nat /\ DOMAIN got = 1 .. Len(got)
      <4>1. got \in Seq(Seq(Piece)) /\ DOMAIN got = 1 .. Len(got) /\ Len(got) \in Nat
        BY HeldTypes
      <4>2. Append(kept, h) \in Seq(Piece)
        BY <1>1, <2>3
      <4> QED
        BY <3>1, <4>1, <4>2
    <3>5. Taken' = Taken \union {s}
      <4>1. \A i \in DOMAIN got : i \in DOMAIN got' /\ got'[i][1].msg = got[i][1].msg
        BY <3>4
      <4>2. Len(got) + 1 \in DOMAIN got' /\ got'[Len(got) + 1][1].msg = s
        BY <3>3, <3>4
      <4>3. \A i \in DOMAIN got' : i \in DOMAIN got \/ i = Len(got) + 1
        BY <3>4
      <4> QED
        BY <4>1, <4>2, <4>3 DEF Taken
    <3>6. s \notin Taken
      <4> SUFFICES ASSUME NEW i \in DOMAIN got, got[i][1].msg = s
                   PROVE  FALSE
        BY DEF Taken
      <4>1. i \in DOMAIN got' /\ Len(got) + 1 \in DOMAIN got' /\ i < Len(got) + 1
        BY <3>4
      <4>2. got'[i][1].msg < got'[Len(got) + 1][1].msg
        BY <4>1 DEF OrderInv
      <4>3. got'[i][1].msg = s /\ got'[Len(got) + 1][1].msg = s
        BY <3>3, <3>4
      <4>4. s \in Nat
        BY HeldTypes DEF OrderInv
      <4> QED
        BY <4>2, <4>3, <4>4
    <3>7. IsFiniteSet(Taken)' /\ Cardinality(Taken)' = Cardinality(Taken) + 1
      BY <3>5, <3>6, FS_AddElement
    <3> QED
      BY <3>2, <3>7 DEF h
  <2>6. CASE ~ l + 1 >= h.of
    <3>1. got' = got /\ buf' = Append(kept, h) /\ expect' = IF h.num = expect THEN expect + 1 ELSE 0
      BY <2>1, <2>4, <2>6
    <3>2. Len(buf') = l + 1
      BY <1>1, <2>3, <2>4, <3>1
    <3>3. Does(h.num, h.of, Copy(w), Len(buf), expect, Len(buf'), expect', 0)
      BY <1>4, <2>2, <2>4, <2>6, <3>1, <3>2 DEF Does
    <3>4. Taken' = Taken
      BY <1>3, <3>1
    <3> QED
      BY <1>5, <3>3, <3>4 DEF h
  <2> QED
    BY <2>5, <2>6
<1> QED
  BY <1>1, <1>6, <1>7, <1>8

LEMMA DamageReads ==
  ASSUME TransferTypeOK, TransferTypeOK', ~ RootReads, MessagesFit, NEW w \in Writer, Read(w),
         OrderInv(w), OrderInv(w)', DamageInv(w)
  PROVE  DamageInv(w)'
<1>1. /\ wire[w] # <<>> /\ First(w) \in Piece /\ First(w).num < First(w).of
      /\ wire' = [wire EXCEPT ![w] = Tail(wire[w])] /\ UNCHANGED <<msg, gaps, repeats>>
  BY ReadCases DEF OrderInv
<1>2. PICK G : Ledger(w, G) /\ Affords(w, G[1])
  BY DEF DamageInv
<1>3. /\ \E H : Ledger(w, H)' /\ H[1] = G[2]
      /\ G[1] \in Nat /\ \E d \in Nat : G[2] = G[1] + d /\ PaidAt(w, 1, d)
  BY <1>1, <1>2, LedgerReads DEF OrderInv
<1>4. PICK H : Ledger(w, H)' /\ H[1] = G[2]
  BY <1>3
<1>5. PICK d \in Nat : G[2] = G[1] + d /\ PaidAt(w, 1, d)
  BY <1>3
<1>6. MagicPast(w)' /\ (IsCopy(w)' => First(w)' = First(w))
  BY MagicReads DEF OrderInv, DamageInv
<1>7. IsFiniteSet(Taken)'
  BY ReadDoes DEF DamageInv
<1>8. PICK x \in {0, 1} :
        /\ Cardinality(Taken)' = Cardinality(Taken) + x
        /\ Does(First(w).num, First(w).of, Copy(w), Len(buf), expect, Len(buf'), expect', x)
  BY ReadDoes DEF DamageInv
<1>9. PICK m \in Nat : m = First(w).msg
  BY HeldTypes
<1>10. PICK k \in Nat : k = First(w).num
  BY HeldTypes
<1>11. PICK s \in Nat : s = First(w).of
  <2>1. \A z \in Sizes : z \in Nat
    OBVIOUS
  <2>2. First(w).of \in Sizes
    BY <1>1 DEF Piece
  <2> QED
    BY <2>1, <2>2
<1>12. PICK dup \in {0, 1} : dup = Copy(w)
  BY DEF Copy
<1>13. PICK own \in Nat : own = Cardinality(Taken) + 2 * G[1]
  BY <1>3, TakenTypes DEF DamageInv
<1>14. PICK n \in Nat : n = First(w)'.msg
  BY NextLineTypes DEF LinesTyped, First
<1>15. PICK j \in Nat : j = First(w)'.num
  BY NextLineTypes DEF LinesTyped, First
<1>16. PICK dup2 \in {0, 1} : dup2 = Copy(w)'
  BY DEF Copy
<1>17. PICK len \in Nat : len = Len(buf)
  BY HeldTypes
<1>18. PICK e \in Int : e = expect
  BY HeldTypes
<1>19. PICK len2 \in Nat : len2 = Len(buf')
  <2>1. buf' \in Seq(Piece)
    BY DEF TransferTypeOK
  <2> QED
    BY <2>1
<1>20. PICK e2 \in Int : e2 = expect'
  BY DEF TransferTypeOK
<1>21. Takes(m, k, s, dup, len, e, len2, e2, x, own)
  <2>1. k < s
    BY <1>1, <1>10, <1>11
  <2>2. Enough(m, k, dup, len, e, own)
    BY <1>2, <1>9, <1>10, <1>12, <1>13, <1>17, <1>18 DEF Affords
  <2>3. Does(k, s, dup, len, e, len2, e2, x)
    BY <1>8, <1>10, <1>11, <1>12, <1>17, <1>18, <1>19, <1>20
  <2> QED
    BY <2>1, <2>2, <2>3 DEF Takes
<1>22. Paid(m, k, s, n, j, d)
  <2>1. First(w) = Line(w, 1) /\ First(w)' = Line(w, 1 + 1)
    <3>1. 1 + 1 = 2 /\ Ordered(w)
      BY DEF OrderInv
    <3> QED
      BY <1>1, <3>1, ReadMoves DEF First
  <2> QED
    BY <1>5, <1>9, <1>10, <1>11, <1>14, <1>15, <2>1 DEF PaidAt
<1>23. dup2 = 1 => n = m /\ j = k
  BY <1>6, <1>9, <1>10, <1>14, <1>15, <1>16 DEF Copy
<1>24. Enough(n, j, dup2, len2, e2, own + x + 2 * d)
  BY <1>21, <1>22, <1>23, EnoughStays
<1>25. Cardinality(Taken)' + 2 * H[1] = own + x + 2 * d
  <2>1. PICK y \in Nat : y = Cardinality(Taken)
    BY TakenTypes DEF DamageInv
  <2>2. PICK g \in Nat : g = G[1]
    BY <1>3
  <2>3. Cardinality(Taken)' = y + x /\ H[1] = g + d /\ own = y + 2 * g
    BY <1>4, <1>5, <1>8, <1>13, <2>1, <2>2
  <2>4. y + x + 2 * (g + d) = y + 2 * g + x + 2 * d
    OBVIOUS
  <2> QED
    BY <2>3, <2>4
<1>26. Affords(w, H[1])'
  BY <1>14, <1>15, <1>16, <1>19, <1>20, <1>24, <1>25 DEF Affords
<1> QED
  BY <1>4, <1>6, <1>7, <1>26 DEF DamageInv

LEMMA DamageInit ==
  ASSUME TransferInit, NEW w \in Writer
  PROVE  DamageInv(w)
<1>1. /\ wire[w] = <<>> /\ got = <<>> /\ buf = <<>> /\ expect = 0 /\ magic = NoPiece
      /\ gaps = 0 /\ repeats = 0 /\ msg[w].num = 0 /\ msg[w].size = 0 /\ msg[w].next = 0
  BY DEF TransferInit
<1>2. Taken = {} /\ Len(wire[w]) = 0
  <2>1. DOMAIN got = {}
    BY <1>1
  <2> QED
    BY <1>1, <2>1 DEF Taken
<1>3. IsFiniteSet(Taken) /\ Cardinality(Taken) = 0
  BY <1>2, FS_EmptySet
<1>4. First(w).msg = 1 /\ First(w).num = 0 /\ Copy(w) = 0
  BY <1>1, <1>2 DEF First, Line, Next, Writing, Copy, IsCopy
<1>5. PICK G : G = [i \in 1 .. 1 |-> 0]
  OBVIOUS
<1>6. G[1] = 0 /\ G \in [1 .. 0 + 1 -> Nat]
  <2>1. 1 .. 0 + 1 = 1 .. 1 /\ 1 \in 1 .. 1
    OBVIOUS
  <2> QED
    BY <1>5, <2>1
<1>7. Ledger(w, G)
  BY <1>1, <1>2, <1>6 DEF Ledger
<1>8. Affords(w, G[1])
  <2>1. Enough(1, 0, 0, 0, 0, 0 + 2 * 0)
    BY DEF Enough
  <2>2. Len(buf) = 0
    BY <1>1
  <2> QED
    BY <1>1, <1>3, <1>4, <1>6, <2>1, <2>2 DEF Affords
<1> QED
  BY <1>1, <1>3, <1>7, <1>8 DEF DamageInv, MagicPast

LEMMA DamageStep ==
  ASSUME NEW w, Writer = {w}, ~ RootReads, MessagesFit, TransferTypeOK, OrderInv(w), DamageInv(w),
         [TransferNext]_transferVars
  PROVE  DamageInv(w)'
<1>1. TransferTypeOK' /\ OrderInv(w)' /\ Ordered(w)
  BY TransferTypeStep, OrderStep DEF OrderInv
<1>2. CASE UNCHANGED transferVars
  <2>1. UNCHANGED <<msg, wire, buf, expect, magic, got, gaps, repeats>>
    BY <1>2 DEF transferVars
  <2>2. \A i \in Nat : Line(w, i)' = Line(w, i)
    BY <2>1 DEF Line, Next, PacketOf, Writing
  <2>3. /\ First(w)' = First(w) /\ Copy(w)' = Copy(w) /\ Taken' = Taken
        /\ Cardinality(Taken)' = Cardinality(Taken)
        /\ MagicPast(w)' = MagicPast(w)
    BY <2>1, <2>2 DEF First, Copy, IsCopy, Taken, MagicPast, Later
  <2>4. PICK G : Ledger(w, G) /\ Affords(w, G[1])
    BY DEF DamageInv
  <2>5. Ledger(w, G)'
    <3>1. \A i \in 1 .. Len(wire[w]) : \A d : PaidAt(w, i, d)' <=> PaidAt(w, i, d)
      <4> TAKE i \in 1 .. Len(wire[w])
      <4>1. i \in Nat /\ i + 1 \in Nat
        BY LineTypes
      <4> QED
        BY <2>2, <4>1 DEF PaidAt
    <3> QED
      BY <2>1, <2>4, <3>1 DEF Ledger
  <2>6. Affords(w, G[1])'
    BY <2>1, <2>3, <2>4 DEF Affords
  <2> QED
    BY <2>3, <2>5, <2>6 DEF DamageInv
<1>3. CASE ReadFails \/ ReadNotStarted
  BY <1>1, <1>3, DamageGaps
<1>4. CASE Write(w)
  BY <1>1, <1>4, DamageWrites
<1>5. CASE Read(w)
  BY <1>1, <1>5, DamageReads
<1> QED
  BY <1>2, <1>3, <1>4, <1>5 DEF TransferNext

LEMMA DamageBounds ==
  ASSUME NEW w, Writer = {w}, TransferTypeOK, OrderInv(w), DamageInv(w)
  PROVE  DamageIsLocal
<1> SUFFICES ASSUME Quiet
             PROVE  Messages =< Cardinality(Taken) + 2 * (gaps + repeats)
  <2>1. Taken = {got[i][1].msg : i \in {j \in DOMAIN got : got[j][1].from = w}}
    <3>1. \A i \in DOMAIN got : got[i][1].from = w
      BY HeldTypes DEF OrderInv, Piece
    <3> QED
      BY <3>1 DEF Taken
  <2> QED
    BY <2>1 DEF DamageIsLocal
<1>1. ~ Writing(w) /\ msg[w].num = Messages /\ wire[w] = <<>>
  BY DEF Quiet
<1>2. PICK G : Ledger(w, G) /\ Affords(w, G[1])
  BY DEF DamageInv
<1>3. Len(wire[w]) = 0
  BY <1>1
<1>4. First(w).msg = Messages + 1
  BY <1>1, <1>3 DEF First, Line, Next
<1>5. G[1] \in Nat /\ G[1] =< gaps + repeats
  <2>1. G \in [1 .. 1 -> Nat] /\ G[1] =< gaps + repeats
    BY <1>2, <1>3 DEF Ledger
  <2> QED
    BY <2>1
<1>6. Messages + 1 =< Cardinality(Taken) + 2 * G[1] + 1
  BY <1>2, <1>4, <1>5, AffordsNat DEF DamageInv
<1>7. Cardinality(Taken) \in Nat /\ Messages \in Nat
  BY TakenTypes DEF DamageInv
<1> QED
  BY <1>5, <1>6, <1>7, MishapTypes

\* One writer to mwifi_read, whose messages fit the header: once everything is written and
\* read, no more than two messages are missing for each packet that was lost or repeated and
\* each message or read that was given up, however many there were.
THEOREM DamageStaysLocal ==
  ASSUME NEW w, Writer = {w}, ~ RootReads, MessagesFit
  PROVE  TransferSpec => []DamageIsLocal
<1> DEFINE Inv == TransferTypeOK /\ OrderInv(w) /\ DamageInv(w)
<1>1. TransferInit => Inv
  <2> HAVE TransferInit
  <2>1. wire[w] = <<>> /\ got = <<>> /\ buf = <<>>
    BY DEF TransferInit
  <2>2. Len(wire[w]) = 0 /\ DOMAIN got = {}
    BY <2>1
  <2>3. Ordered(w) /\ Taken = {}
    BY <2>2 DEF Ordered, Taken
  <2>4. OrderInv(w)
    BY <2>1, <2>2, <2>3 DEF OrderInv
  <2> QED
    BY <2>4, TransferTypeInit, DamageInit
<1>2. Inv /\ [TransferNext]_transferVars => Inv'
  BY TransferTypeStep, OrderStep, DamageStep
<1>3. Inv => DamageIsLocal
  BY DamageBounds
<1> QED
  BY <1>1, <1>2, <1>3, PTL DEF TransferSpec

-----------------------------------------------------------------------------
(* A message to many.                                                      *)
HIDE TransferAssumption DEF TransferAssumption
USE MulticastAssumption

\* Before the write.
NothingSent ==
  /\ job = [n \in Node |-> NoJob] /\ inbox = [n \in Node |-> <<>>]
  /\ copies = [n \in Node |-> 0] /\ spoiled = {} /\ wanted = {}

\* The root has nobody above it and is nobody's child.
CastShape ==
  /\ mode = "none" => NothingSent
  /\ mode = "any" => wanted = Node
  /\ mode = "broadcast" => wanted = Node \ {Root}
  /\ above[Root] = {} /\ \A k \in Node : Root \notin job[k].kids
  /\ moved = 0 => above \in Topology

CastTypes == MulticastTypeOK /\ CastShape

LEMMA DeliverTypes ==
  ASSUME MulticastTypeOK, NEW k \in Node, NEW m \in Message, m.list \subseteq wanted,
         Deliver(k, m)
  PROVE  /\ inbox' \in [Node -> Seq(Message)]
         /\ \A n \in Node : \A i \in DOMAIN inbox'[n] : inbox'[n][i].list \subseteq wanted
<1>1. inbox \in [Node -> Seq(Message)] /\ inbox' = [inbox EXCEPT ![k] = Append(@, m)]
      /\ \A n \in Node : \A i \in DOMAIN inbox[n] : inbox[n][i].list \subseteq wanted
  BY DEF MulticastTypeOK, Deliver
<1>2. inbox[k] \in Seq(Message)
  BY <1>1
<1>3. Append(inbox[k], m) \in Seq(Message)
      /\ \A i \in DOMAIN Append(inbox[k], m) :
           Append(inbox[k], m)[i] = m \/ (i \in DOMAIN inbox[k] /\ Append(inbox[k], m)[i] = inbox[k][i])
  BY <1>2
<1> QED
  BY <1>1, <1>3

LEMMA TailTypes ==
  ASSUME MulticastTypeOK, NEW n \in Node, inbox[n] # <<>>,
         inbox' = [inbox EXCEPT ![n] = Tail(@)]
  PROVE  /\ inbox' \in [Node -> Seq(Message)]
         /\ \A k \in Node : \A i \in DOMAIN inbox'[k] : inbox'[k][i].list \subseteq wanted
         /\ Head(inbox[n]) \in Message /\ Head(inbox[n]).list \subseteq wanted
<1>1. inbox \in [Node -> Seq(Message)]
      /\ \A k \in Node : \A i \in DOMAIN inbox[k] : inbox[k][i].list \subseteq wanted
  BY DEF MulticastTypeOK
<1>2. inbox[n] \in Seq(Message)
  BY <1>1
<1>3. /\ Tail(inbox[n]) \in Seq(Message) /\ 1 \in DOMAIN inbox[n] /\ Head(inbox[n]) = inbox[n][1]
      /\ inbox[n][1] \in Message
      /\ \A i \in DOMAIN Tail(inbox[n]) : i + 1 \in DOMAIN inbox[n] /\ Tail(inbox[n])[i] = inbox[n][i + 1]
  BY <1>2
<1> QED
  BY <1>1, <1>3

LEMMA JobTypes ==
  ASSUME MulticastTypeOK, NEW n \in Node, NEW j \in Job, j.list \subseteq wanted,
         job' = [job EXCEPT ![n] = j]
  PROVE  /\ job' \in [Node -> Job] /\ \A k \in Node : job'[k].list \subseteq wanted
         /\ job'[n] = j /\ \A k \in Node \ {n} : job'[k] = job[k]
BY DEF MulticastTypeOK

\* What a job of mwifi_transmit_write becomes.
ServedOne(n, k, list) == [job[n] EXCEPT !.kids = @ \ {k}, !.list = list, !.ok = TRUE]
Failed(n, list) == [job[n] EXCEPT !.kids = {}, !.list = list, !.ok = FALSE]
\* ... when esp_mesh_get_subnet_nodes_list fails
ServedAlone(n, k) == [job[n] EXCEPT !.kids = @ \ {k}, !.list = @ \ {k}, !.ok = k \in job[n].list]
ToRest(n) ==
  [job[n] EXCEPT !.at = "rest", !.kids = {}, !.list = IF job[n].all THEN RestAll(n) ELSE @]
ServedRest(n, k) == [job[n] EXCEPT !.list = @ \ {k}, !.ok = TRUE]

JobBecomes(n, j) == j \in Job /\ job' = [job EXCEPT ![n] = j]

\* The steps of mwifi_transmit_write on node n, by what they change.
LEMMA TransmitSteps ==
  ASSUME MulticastTypeOK, NEW n \in Node, NEW k \in Node
  PROVE  /\ ServeChild(n, k) => /\ JobBecomes(n, ServedOne(n, k, LeftAfter(n, k)))
                                /\ job[n].at = "children" /\ k \in job[n].kids
         /\ ServeFails(n, k) => /\ JobBecomes(n, Failed(n, LeftAfter(n, k)))
                                /\ job[n].at = "children" /\ k \in job[n].kids
         /\ SubnetFails(n, k) => /\ JobBecomes(n, Failed(n, job[n].list \ {k}))
                                 /\ job[n].at = "children" /\ k \in job[n].kids /\ ~ job[n].all
         /\ SubnetListFails(n, k) => /\ JobBecomes(n, ServedAlone(n, k))
                                     /\ job[n].at = "children" /\ k \in job[n].kids /\ ~ job[n].all
         /\ ServeRest(n, k) => JobBecomes(n, ServedRest(n, k)) /\ InRest(n, k)
         /\ RestFails(n, k) => JobBecomes(n, Failed(n, job[n].list \ {k})) /\ InRest(n, k)
         /\ RestOfList(n) => JobBecomes(n, ToRest(n)) /\ job[n].at = "children"
<1>1. job \in [Node -> Job] /\ job[n] \in Job /\ LeftAfter(n, k) \in SUBSET Node /\ job[n].list \in SUBSET Node
      /\ RestAll(n) \in SUBSET Node
  BY DEF MulticastTypeOK, Job, LeftAfter, RestAll
<1>2. /\ \A list \in SUBSET Node : ServedOne(n, k, list) \in Job /\ Failed(n, list) \in Job
      /\ ServedAlone(n, k) \in Job /\ ToRest(n) \in Job /\ ServedRest(n, k) \in Job
  <2>1. \A list \in SUBSET Node : ServedOne(n, k, list) \in Job
    BY <1>1 DEF ServedOne, Job
  <2>2. \A list \in SUBSET Node : Failed(n, list) \in Job
    BY <1>1 DEF Failed, Job
  <2>3. ServedAlone(n, k) \in Job
    <3>1. \A o \in BOOLEAN : [job[n] EXCEPT !.kids = @ \ {k}, !.list = @ \ {k}, !.ok = o] \in Job
      BY <1>1 DEF Job
    <3>2. (k \in job[n].list) \in BOOLEAN
      OBVIOUS
    <3> QED
      BY <3>1, <3>2, Zenon DEF ServedAlone
  <2>4. ToRest(n) \in Job
    BY <1>1 DEF ToRest, Job, Place
  <2>5. ServedRest(n, k) \in Job
    BY <1>1 DEF ServedRest, Job
  <2> QED
    BY <2>1, <2>2, <2>3, <2>4, <2>5
<1>3. ServeChild(n, k) => JobBecomes(n, ServedOne(n, k, LeftAfter(n, k))) /\ HasChild(n) /\ k \in job[n].kids
  BY <1>1, <1>2 DEF ServeChild, JobBecomes, ServedOne
<1>4. ServeFails(n, k) => JobBecomes(n, Failed(n, LeftAfter(n, k))) /\ HasChild(n) /\ k \in job[n].kids
  BY <1>1, <1>2 DEF ServeFails, Fail, JobBecomes, Failed
<1>5. SubnetFails(n, k) => /\ JobBecomes(n, Failed(n, job[n].list \ {k})) /\ HasChild(n)
                           /\ k \in job[n].kids /\ ~ job[n].all
  <2>1. job[n].list \ {k} \in SUBSET Node
    BY <1>1
  <2> QED
    BY <1>1, <1>2, <2>1 DEF SubnetFails, Fail, JobBecomes, Failed
<1>6. SubnetListFails(n, k) => /\ JobBecomes(n, ServedAlone(n, k)) /\ HasChild(n)
                               /\ k \in job[n].kids /\ ~ job[n].all
  BY <1>1, <1>2 DEF SubnetListFails, JobBecomes, ServedAlone
<1>7. ServeRest(n, k) => JobBecomes(n, ServedRest(n, k)) /\ InRest(n, k)
  BY <1>1, <1>2 DEF ServeRest, JobBecomes, ServedRest
<1>8. RestFails(n, k) => JobBecomes(n, Failed(n, job[n].list \ {k})) /\ InRest(n, k)
  BY <1>1, <1>2 DEF RestFails, Fail, JobBecomes, Failed
<1>9. RestOfList(n) => JobBecomes(n, ToRest(n)) /\ job[n].at = "children"
  BY <1>1, <1>2 DEF RestOfList, JobBecomes, ToRest
<1> QED
  BY <1>3, <1>4, <1>5, <1>6, <1>7, <1>8, <1>9 DEF HasChild

LEMMA NobodyTransmits ==
  ASSUME CastTypes, mode = "none", NEW n \in Node
  PROVE  job[n] = NoJob /\ job[n].at = "none" /\ job[n].list = {} /\ inbox[n] = <<>>
<1>1. job[n] = NoJob /\ inbox[n] = <<>>
  BY DEF CastTypes, CastShape, NothingSent
<1> QED
  BY <1>1 DEF NoJob

LEMMA AloneIsMessage == Alone \in Message /\ Alone.list = {} /\ Alone.self /\ ~ Alone.all
BY DEF Alone, Message

\* What a child gets is a part of the list.
LEMMA ForChildTypes ==
  ASSUME MulticastTypeOK, NEW n \in Node, NEW k \in Node
  PROVE  ForChild(n, k) \in Message /\ ForChild(n, k).list \subseteq job[n].list
<1>1. job[n] \in Job /\ job[n].list \in SUBSET Node /\ AddressesFor(n, k) \subseteq job[n].list
  BY DEF MulticastTypeOK, Job, AddressesFor
<1>2. (k \in job[n].list) \in BOOLEAN
  OBVIOUS
<1>3. AddressesFor(n, k) \in SUBSET Node /\ job[n].self \in BOOLEAN
  BY <1>1 DEF Job
<1>4. CASE job[n].all
  BY <1>3, <1>4 DEF ForChild, Message
<1>5. CASE ~ job[n].all
  <2>1. ForChild(n, k) = [self |-> k \in job[n].list, all |-> FALSE, list |-> AddressesFor(n, k)]
    BY <1>5 DEF ForChild
  <2>2. \A o \in BOOLEAN : [self |-> o, all |-> FALSE, list |-> AddressesFor(n, k)] \in Message
    BY <1>3 DEF Message
  <2>3. ForChild(n, k) \in Message
    BY <1>2, <2>1, <2>2, Zenon
  <2> QED
    BY <1>1, <2>1, <2>3
<1> QED
  BY <1>4, <1>5

\* A step of a node that has a job, and leaves the write and the tree alone.
LEMMA JobStepTypes ==
  ASSUME CastTypes, NEW n \in Node, NEW j, JobBecomes(n, j), j.list \subseteq wanted,
         j.kids \subseteq job[n].kids \union Children(n), mode # "none",
         UNCHANGED <<above, mode, wanted, moved>>,
         inbox' \in [Node -> Seq(Message)],
         \A k \in Node : \A i \in DOMAIN inbox'[k] : inbox'[k][i].list \subseteq wanted,
         copies' \in [Node -> Nat], failed' \in 0 .. Failures, spoiled' \subseteq Node
  PROVE  CastTypes'
<1> USE DEF CastTypes
<1>1. /\ job' \in [Node -> Job] /\ \A k \in Node : job'[k].list \subseteq wanted
      /\ job'[n] = j /\ \A k \in Node \ {n} : job'[k] = job[k]
  BY JobTypes DEF JobBecomes
<1>2. MulticastTypeOK'
  BY <1>1 DEF MulticastTypeOK
<1>3. Root \notin Children(n)
  BY DEF CastShape, Children
<1>4. CastShape'
  BY <1>1, <1>3 DEF CastShape
<1> QED
  BY <1>2, <1>4

LEMMA TransmitTypes ==
  ASSUME CastTypes, NEW n \in Node, Transmitting(n)
  PROVE  CastTypes'
<1> USE DEF CastTypes
<1>0. /\ job \in [Node -> Job] /\ job[n] \in Job /\ job[n].list \subseteq wanted /\ job[n].kids \subseteq Node
      /\ inbox \in [Node -> Seq(Message)] /\ copies \in [Node -> Nat] /\ spoiled \subseteq Node
      /\ \A k \in Node : \A i \in DOMAIN inbox[k] : inbox[k][i].list \subseteq wanted
      /\ failed \in 0 .. Failures /\ Failures \in Nat /\ wanted \subseteq Node
  BY DEF MulticastTypeOK, Job, MulticastAssumption
<1>1. job[n].at # "none" => mode # "none"
  BY NobodyTransmits
<1>2. ASSUME NEW j, NEW lost \in SUBSET Node, NEW list \in SUBSET job[n].list, mode # "none",
             JobBecomes(n, Failed(n, list)), Fail(n, lost, list),
             UNCHANGED <<above, mode, wanted, inbox, copies, moved>>
      PROVE  CastTypes'
  <2>1. Failed(n, list).list = list /\ Failed(n, list).kids = {}
    BY <1>0 DEF Failed, Job
  <2>2. failed' \in 0 .. Failures /\ spoiled' \subseteq Node
    BY <1>0, <1>2 DEF Fail
  <2> QED
    BY <1>0, <1>2, <2>1, <2>2, JobStepTypes
<1>3. ASSUME NEW k \in Node, ServeChild(n, k) PROVE CastTypes'
  <2> DEFINE j == ServedOne(n, k, LeftAfter(n, k))
  <2>1. JobBecomes(n, j) /\ job[n].at = "children"
    BY <1>3, TransmitSteps
  <2>2. j.list \subseteq wanted /\ j.kids \subseteq job[n].kids
    BY <1>0 DEF ServedOne, LeftAfter, Job
  <2>3. UNCHANGED <<above, mode, wanted, moved, copies, failed, spoiled>>
        /\ (UNCHANGED inbox \/ Deliver(k, ForChild(n, k)))
    BY <1>3 DEF ServeChild
  <2>4. ForChild(n, k) \in Message /\ ForChild(n, k).list \subseteq wanted
    BY <1>0, ForChildTypes
  <2>5. /\ inbox' \in [Node -> Seq(Message)]
        /\ \A m \in Node : \A i \in DOMAIN inbox'[m] : inbox'[m][i].list \subseteq wanted
    BY <1>0, <2>3, <2>4, DeliverTypes
  <2> HIDE DEF j
  <2> QED
    BY <1>0, <1>1, <2>1, <2>2, <2>3, <2>5, JobStepTypes
<1>4. ASSUME NEW k \in Node, ServeFails(n, k) PROVE CastTypes'
  <2> DEFINE unserved == UNION {{m} \union Subnet(m) : m \in job[n].kids}
             lost == IF ForChild(n, k).all THEN unserved ELSE job[n].list \ LeftAfter(n, k)
  <2>1. JobBecomes(n, Failed(n, LeftAfter(n, k))) /\ job[n].at = "children"
    BY <1>4, TransmitSteps
  <2>2. Fail(n, lost, LeftAfter(n, k)) /\ UNCHANGED <<above, mode, wanted, inbox, copies, moved>>
    BY <1>4 DEF ServeFails
  <2>3. unserved \subseteq Node
    BY <1>0 DEF Subnet
  <2>4. lost \in SUBSET Node /\ LeftAfter(n, k) \in SUBSET job[n].list
    BY <1>0, <2>3 DEF LeftAfter
  <2> HIDE DEF lost
  <2> QED
    BY <1>1, <1>2, <2>1, <2>2, <2>4
<1>5. ASSUME NEW k \in Node, SubnetFails(n, k) PROVE CastTypes'
  <2>1. JobBecomes(n, Failed(n, job[n].list \ {k})) /\ job[n].at = "children"
    BY <1>5, TransmitSteps
  <2>2. Fail(n, job[n].list \intersect {k}, job[n].list \ {k})
        /\ UNCHANGED <<above, mode, wanted, inbox, copies, moved>>
    BY <1>5 DEF SubnetFails
  <2> QED
    BY <1>0, <1>1, <1>2, <2>1, <2>2
<1>6. ASSUME NEW k \in Node, SubnetListFails(n, k) PROVE CastTypes'
  <2> DEFINE j == ServedAlone(n, k)
  <2>1. JobBecomes(n, j) /\ job[n].at = "children"
    BY <1>6, TransmitSteps
  <2>2. j.list \subseteq wanted /\ j.kids \subseteq job[n].kids
    BY <1>0 DEF ServedAlone, Job
  <2>3. UNCHANGED <<above, mode, wanted, moved, copies>> /\ (UNCHANGED inbox \/ Deliver(k, Alone))
        /\ failed' \in 0 .. Failures /\ spoiled' \subseteq Node
    BY <1>0, <1>6 DEF SubnetListFails
  <2>5. /\ inbox' \in [Node -> Seq(Message)]
        /\ \A m \in Node : \A i \in DOMAIN inbox'[m] : inbox'[m][i].list \subseteq wanted
    BY <1>0, <2>3, AloneIsMessage, DeliverTypes
  <2> HIDE DEF j
  <2> QED
    BY <1>0, <1>1, <2>1, <2>2, <2>3, <2>5, JobStepTypes
<1>7. ASSUME NEW k \in Node, ServeRest(n, k) PROVE CastTypes'
  <2> DEFINE j == ServedRest(n, k)
  <2>1. JobBecomes(n, j) /\ job[n].at = "rest"
    BY <1>7, TransmitSteps DEF InRest
  <2>2. j.list \subseteq wanted /\ j.kids \subseteq job[n].kids
    BY <1>0 DEF ServedRest, Job
  <2>3. UNCHANGED <<above, mode, wanted, moved, copies, failed, spoiled>> /\ Deliver(k, Alone)
    BY <1>7 DEF ServeRest
  <2>5. /\ inbox' \in [Node -> Seq(Message)]
        /\ \A m \in Node : \A i \in DOMAIN inbox'[m] : inbox'[m][i].list \subseteq wanted
    BY <1>0, <2>3, AloneIsMessage, DeliverTypes
  <2> HIDE DEF j
  <2> QED
    BY <1>0, <1>1, <2>1, <2>2, <2>3, <2>5, JobStepTypes
<1>8. ASSUME NEW k \in Node, RestFails(n, k) PROVE CastTypes'
  <2>1. JobBecomes(n, Failed(n, job[n].list \ {k})) /\ job[n].at = "rest"
    BY <1>8, TransmitSteps DEF InRest
  <2>2. Fail(n, {k}, job[n].list \ {k})
        /\ UNCHANGED <<above, mode, wanted, inbox, copies, moved>>
    BY <1>8 DEF RestFails
  <2> QED
    BY <1>0, <1>1, <1>2, <2>1, <2>2
<1>9. CASE RestOfList(n)
  <2> DEFINE j == ToRest(n)
  <2>1. JobBecomes(n, j) /\ job[n].at = "children"
    BY <1>9, TransmitSteps
  <2>2. j.list \subseteq wanted /\ j.kids \subseteq job[n].kids
    BY <1>0 DEF ToRest, RestAll, Job, CastShape
  <2>3. UNCHANGED <<above, mode, wanted, moved, copies, failed, spoiled, inbox>>
    BY <1>9 DEF RestOfList
  <2> HIDE DEF j
  <2> QED
    BY <1>0, <1>1, <2>1, <2>2, <2>3, JobStepTypes
<1>10. CASE TransmitEnd(n)
  <2>1. NoJob \in Job /\ NoJob.list = {} /\ NoJob.kids = {}
    BY DEF NoJob, Job, Place
  <2>2. JobBecomes(n, NoJob) /\ job[n].at = "rest"
        /\ UNCHANGED <<above, mode, wanted, moved, failed, spoiled, inbox>>
        /\ copies' = [copies EXCEPT ![n] = IF job[n].keep /\ job[n].ok THEN @ + 1 ELSE @]
    BY <1>10, <2>1 DEF TransmitEnd, JobBecomes
  <2>3. copies' \in [Node -> Nat]
    BY <1>0, <2>2
  <2> QED
    BY <1>0, <1>1, <2>1, <2>2, <2>3, JobStepTypes
<1> QED
  BY <1>3, <1>4, <1>5, <1>6, <1>7, <1>8, <1>9, <1>10 DEF Transmitting

\* What mwifi_transmit_write begins with.
LEMMA TransmitIsJob ==
  ASSUME NEW list \in SUBSET Node, NEW self \in BOOLEAN, NEW all \in BOOLEAN, NEW keep \in BOOLEAN
  PROVE  /\ Transmit(list, self, all, keep) \in Job
         /\ Transmit(list, self, all, keep).kids = {}
BY DEF Transmit, Job, Place

\* It begins with the children the driver names, or without any.
Starts(n, t, j) ==
  /\ job' = [job EXCEPT ![n] = j]
  /\ j.at = t.at /\ j.list = t.list /\ j.self = t.self /\ j.all = t.all /\ j.keep = t.keep /\ j.ok = t.ok
  /\ \/ j.kids = Children(n) /\ spoiled' = spoiled
     \/ j.kids = {} /\ spoiled' = IF j.all THEN spoiled \union Subnet(n) ELSE spoiled
  /\ failed' \in 0 .. Failures /\ spoiled' \subseteq Node /\ j.kids \subseteq Node

LEMMA BeginStarts ==
  ASSUME MulticastTypeOK, NEW n \in Node, NEW t \in Job, t.kids = {}, Begin(n, t)
  PROVE  \E j \in Job : Starts(n, t, j)
<1>1. failed \in 0 .. Failures /\ Failures \in Nat /\ spoiled \subseteq Node /\ Children(n) \subseteq Node
      /\ Subnet(n) \subseteq Node
  BY DEF MulticastTypeOK, MulticastAssumption, Children, Subnet
<1>2. \/ job' = [job EXCEPT ![n] = [t EXCEPT !.kids = Children(n)]] /\ UNCHANGED <<failed, spoiled>>
      \/ /\ failed < Failures /\ failed' = failed + 1 /\ job' = [job EXCEPT ![n] = t]
         /\ spoiled' = IF t.all THEN spoiled \union Subnet(n) ELSE spoiled
  BY DEF Begin
<1>3. CASE job' = [job EXCEPT ![n] = [t EXCEPT !.kids = Children(n)]] /\ UNCHANGED <<failed, spoiled>>
  <2> DEFINE j == [t EXCEPT !.kids = Children(n)]
  <2>1. j \in Job /\ j.at = t.at /\ j.list = t.list /\ j.self = t.self /\ j.all = t.all /\ j.keep = t.keep
        /\ j.ok = t.ok /\ j.kids = Children(n)
    BY <1>1 DEF Job
  <2> HIDE DEF j
  <2>2. job' = [job EXCEPT ![n] = j] /\ failed' = failed /\ spoiled' = spoiled
    BY <1>3 DEF j
  <2>3. Starts(n, t, j)
    BY <1>1, <2>1, <2>2 DEF Starts
  <2> QED
    BY <2>1, <2>3
<1>4. CASE /\ failed < Failures /\ failed' = failed + 1 /\ job' = [job EXCEPT ![n] = t]
           /\ spoiled' = IF t.all THEN spoiled \union Subnet(n) ELSE spoiled
  <2>1. failed' \in 0 .. Failures /\ spoiled' \subseteq Node
    BY <1>1, <1>4
  <2>2. Starts(n, t, t)
    BY <1>4, <2>1 DEF Starts
  <2> QED
    BY <2>2
<1> QED
  BY <1>2, <1>3, <1>4

LEMMA CastReadTypes ==
  ASSUME CastTypes, NEW n \in Node, Reading(n)
  PROVE  CastTypes'
<1> USE DEF CastTypes
<1> DEFINE m == Head(inbox[n])
<1>0. inbox[n] # <<>> /\ inbox' = [inbox EXCEPT ![n] = Tail(@)] /\ mode # "none"
      /\ UNCHANGED <<above, mode, wanted, moved>>
  BY NobodyTransmits DEF Reading, ReadOwn, ReadForward
<1>1. /\ inbox' \in [Node -> Seq(Message)]
      /\ \A k \in Node : \A i \in DOMAIN inbox'[k] : inbox'[k][i].list \subseteq wanted
      /\ m \in Message /\ m.list \subseteq wanted
  BY <1>0, TailTypes
<1>2. CASE ReadOwn(n)
  <2>1. /\ UNCHANGED <<job, failed, spoiled>>
        /\ copies' = [copies EXCEPT ![n] = IF m.self THEN @ + 1 ELSE @]
    BY <1>2 DEF ReadOwn
  <2>2. MulticastTypeOK'
    BY <1>0, <1>1, <2>1 DEF MulticastTypeOK
  <2>3. CastShape'
    BY <1>0, <2>1 DEF CastShape
  <2> QED
    BY <2>2, <2>3
<1>3. CASE ReadForward(n)
  <2> DEFINE t == Transmit(m.list, m.self, m.all, m.self)
  <2>0. /\ Begin(n, t) /\ UNCHANGED copies
        /\ m.list \in SUBSET Node /\ m.self \in BOOLEAN /\ m.all \in BOOLEAN
    BY <1>1, <1>3 DEF ReadForward, Message
  <2>9. t \in Job /\ t.kids = {} /\ t.list = m.list
    BY <2>0, TransmitIsJob DEF Transmit
  <2> HIDE DEF t, m
  <2>10. PICK j \in Job : Starts(n, t, j)
    BY <2>0, <2>9, BeginStarts
  <2>1. job' = [job EXCEPT ![n] = j] /\ UNCHANGED copies
    BY <2>0, <2>10 DEF Starts
  <2>2. j \in Job /\ j.list \subseteq wanted /\ j.kids \subseteq Children(n)
    BY <1>1, <2>9, <2>10 DEF Starts
  <2>3. copies' \in [Node -> Nat] /\ failed' \in 0 .. Failures /\ spoiled' \subseteq Node
    BY <1>0, <2>1, <2>10 DEF MulticastTypeOK, Starts
  <2>4. JobBecomes(n, j)
    BY <2>1, <2>2 DEF JobBecomes
  <2> QED
    BY <1>0, <1>1, <2>1, <2>2, <2>3, <2>4, JobStepTypes
<1> QED
  BY <1>2, <1>3 DEF Reading

\* What both calls of mwifi_root_write do.
RootBegins(list, all) ==
  /\ \E j \in Job : Starts(Root, Transmit(list, TRUE, all, FALSE), j)
  /\ mode' \in {"list", "any", "broadcast"} /\ list \subseteq wanted' /\ wanted' \subseteq Node
  /\ mode' = "any" => wanted' = Node
  /\ mode' = "broadcast" => wanted' = Node \ {Root}
  /\ mode = "none" /\ UNCHANGED <<above, inbox, copies, moved>>

LEMMA RootBeginsTypes ==
  ASSUME CastTypes, NEW list \in SUBSET Node, NEW all \in BOOLEAN, RootBegins(list, all)
  PROVE  CastTypes'
<1> USE DEF CastTypes
<1>1. /\ mode' \in {"list", "any", "broadcast"} /\ list \subseteq wanted' /\ wanted' \subseteq Node
      /\ mode' = "any" => wanted' = Node
      /\ mode' = "broadcast" => wanted' = Node \ {Root}
      /\ mode = "none" /\ UNCHANGED <<above, inbox, copies, moved>>
  BY DEF RootBegins
<1> DEFINE t == Transmit(list, TRUE, all, FALSE)
<1>9. PICK j \in Job : Starts(Root, t, j)
  BY DEF RootBegins
<1>11. t.list = list
  BY DEF Transmit
<1> HIDE DEF t
<1>10. job' = [job EXCEPT ![Root] = j] /\ failed' \in 0 .. Failures /\ spoiled' \subseteq Node
  BY <1>9 DEF Starts
<1>2. j \in Job /\ j.list = list /\ Root \notin j.kids
  <2>1. Root \in Node /\ Root \notin Children(Root)
    BY DEF CastShape, Children, MulticastAssumption
  <2> QED
    BY <1>9, <1>11, <2>1 DEF Starts
<1>3. NothingSent
  BY <1>1 DEF CastShape
<1>4. job' \in [Node -> Job] /\ job'[Root] = j /\ \A k \in Node \ {Root} : job'[k] = NoJob
  BY <1>10, <1>2, <1>3 DEF NothingSent, MulticastTypeOK, MulticastAssumption
<1>5. \A k \in Node : inbox[k] = <<>>
  BY <1>3 DEF NothingSent
<1>6. NoJob.list = {} /\ NoJob.kids = {}
  BY DEF NoJob
<1>7. MulticastTypeOK'
  <2>1. \A k \in Node : job'[k].list \subseteq wanted'
    BY <1>1, <1>2, <1>4, <1>6
  <2>3. \A k \in Node : DOMAIN inbox'[k] = {}
    <3>1. inbox' = inbox
      BY <1>1
    <3> QED
      BY <1>5, <3>1
  <2>2. mode' \in {"none", "list", "any", "broadcast"} /\ wanted' \subseteq Node
        /\ UNCHANGED <<above, inbox, copies, moved>>
    BY <1>1
  <2> QED
    BY <1>4, <1>10, <2>1, <2>2, <2>3 DEF MulticastTypeOK
<1>8. CastShape'
  <2>1. \A k \in Node : Root \notin job'[k].kids
    BY <1>2, <1>4, <1>6
  <2>2. mode' # "none" /\ UNCHANGED <<above, moved>>
    BY <1>1
  <2> QED
    BY <1>1, <2>1, <2>2 DEF CastShape
<1> QED
  BY <1>7, <1>8

LEMMA RootWriteTypes ==
  ASSUME CastTypes,
         \/ \E list \in (SUBSET Node) \ {{}} : RootWriteList(list)
         \/ \E m \in Modes \ {"list"} : RootWriteAll(m)
  PROVE  CastTypes'
<1>1. ASSUME NEW list \in (SUBSET Node) \ {{}}, RootWriteList(list)
      PROVE  RootBegins(list, FALSE)
  <2> DEFINE t == Transmit(list, TRUE, FALSE, FALSE)
  <2>1. Begin(Root, t) /\ Root \in Node /\ list \in SUBSET Node
    BY <1>1 DEF RootWriteList, MulticastAssumption
  <2>2. t \in Job /\ t.kids = {}
    BY <2>1, TransmitIsJob
  <2>3. /\ mode' = "list" /\ wanted' = list /\ mode = "none"
        /\ UNCHANGED <<above, inbox, copies, moved>>
    BY <1>1 DEF RootWriteList
  <2>4. \E j \in Job : Starts(Root, t, j)
    <3> HIDE DEF t
    <3> QED
      BY <2>1, <2>2, BeginStarts DEF CastTypes
  <2> QED
    BY <2>1, <2>3, <2>4 DEF RootBegins
<1>2. ASSUME NEW m \in Modes \ {"list"}, RootWriteAll(m)
      PROVE  RootBegins({}, TRUE)
  <2> DEFINE t == Transmit({}, TRUE, TRUE, FALSE)
  <2>1. Begin(Root, t) /\ Root \in Node
    BY <1>2 DEF RootWriteAll, MulticastAssumption
  <2>4. t \in Job /\ t.kids = {}
    BY TransmitIsJob
  <2>2. \E j \in Job : Starts(Root, t, j)
    <3> HIDE DEF t
    <3> QED
      BY <2>1, <2>4, BeginStarts DEF CastTypes
  <2>3. /\ mode' = m /\ m \in {"any", "broadcast"}
        /\ wanted' = IF m = "any" THEN Node ELSE Node \ {Root}
        /\ mode = "none" /\ UNCHANGED <<above, inbox, copies, moved>>
    BY <1>2 DEF RootWriteAll, MulticastAssumption
  <2> QED
    BY <2>2, <2>3 DEF RootBegins
<1>3. ASSUME NEW list \in (SUBSET Node) \ {{}}, RootWriteList(list) PROVE CastTypes'
  <2>1. list \in SUBSET Node /\ FALSE \in BOOLEAN
    OBVIOUS
  <2> QED
    BY <1>1, <1>3, <2>1, RootBeginsTypes
<1>4. ASSUME NEW m \in Modes \ {"list"}, RootWriteAll(m) PROVE CastTypes'
  <2>1. {} \in SUBSET Node /\ TRUE \in BOOLEAN
    OBVIOUS
  <2> QED
    BY <1>2, <1>4, <2>1, RootBeginsTypes
<1> QED
  BY <1>3, <1>4

LEMMA MoveTypes ==
  ASSUME CastTypes, NEW n \in Node, NEW p \in Node, Move(n, p)
  PROVE  CastTypes'
<1> USE DEF CastTypes
<1>1. above \in [Node -> SUBSET Node] /\ moved \in 0 .. Moves /\ Moves \in Nat /\ Root \in Node /\ n # Root
      /\ above[Root] = {}
  BY DEF MulticastTypeOK, CastShape, MulticastAssumption, Move
<1>2. above' \in [Node -> SUBSET Node] /\ above'[Root] = {} /\ moved' \in 0 .. Moves /\ moved' # 0
  BY <1>1 DEF Move
<1>3. UNCHANGED <<mode, wanted, inbox, job, copies, failed, spoiled>>
  BY DEF Move
<1>4. MulticastTypeOK'
  BY <1>2, <1>3 DEF MulticastTypeOK
<1>5. CastShape'
  BY <1>2, <1>3 DEF CastShape, NothingSent
<1> QED
  BY <1>4, <1>5

LEMMA CastTypesInit == MulticastInit => CastTypes
<1> SUFFICES ASSUME MulticastInit PROVE CastTypes
  OBVIOUS
<1>1. NoJob \in Job /\ NoJob.list = {} /\ NoJob.kids = {}
  BY DEF NoJob, Job, Place
<1>2. above \in [Node -> SUBSET Node] /\ above[Root] = {}
  BY DEF MulticastInit, MulticastAssumption
<1>3. MulticastTypeOK
  BY <1>1, <1>2 DEF MulticastInit, MulticastTypeOK, MulticastAssumption
<1>4. CastShape
  BY <1>1, <1>2 DEF MulticastInit, CastShape, NothingSent
<1> QED
  BY <1>3, <1>4 DEF CastTypes

LEMMA CastTypesStep == CastTypes /\ [MulticastNext]_multicastVars => CastTypes'
<1> SUFFICES ASSUME CastTypes, [MulticastNext]_multicastVars PROVE CastTypes'
  OBVIOUS
<1>1. CASE UNCHANGED multicastVars
  BY <1>1 DEF multicastVars, CastTypes, MulticastTypeOK, CastShape, NothingSent
<1> QED
  BY <1>1, TransmitTypes, CastReadTypes, RootWriteTypes, MoveTypes DEF MulticastNext

\* The variables of a multicast have their types, and no list names a node the message is
\* not for, for any tree, number of nodes, moves and failing calls.
THEOREM MulticastTypeCorrect == MulticastSpec => []MulticastTypeOK
<1>1. CastTypes => MulticastTypeOK
  BY DEF CastTypes
<1> QED
  BY <1>1, CastTypesInit, CastTypesStep, PTL DEF MulticastSpec

-----------------------------------------------------------------------------
\* A list: an address is at one place at a time, with a job of mwifi_transmit_write,
\* in a message, or read.
MessageFor(k, m, x) == x \in m.list \/ (x = k /\ m.self)
OfJob(k, j, x) == x \in j.list \/ (x = k /\ j.keep)
JobFor(k, x) == OfJob(k, job[k], x)

NoBox(x) == \A k \in Node : \A i \in 1 .. Len(inbox[k]) : ~ MessageFor(k, inbox[k][i], x)
OneBox(x) ==
  \A k, l \in Node : \A i \in 1 .. Len(inbox[k]) : \A j \in 1 .. Len(inbox[l]) :
    MessageFor(k, inbox[k][i], x) /\ MessageFor(l, inbox[l][j], x) => k = l /\ i = j
OneJob(x) == \A k, l \in Node : JobFor(k, x) /\ JobFor(l, x) => k = l

Divided(x) ==
  /\ OneJob(x) /\ OneBox(x) /\ copies[x] =< 1
  /\ \A k \in Node : JobFor(k, x) => x \in wanted /\ NoBox(x) /\ copies[x] = 0
  /\ NoBox(x) \/ (x \in wanted /\ copies[x] = 0)
  /\ copies[x] > 0 => x \in wanted

JobsOfList == \A k \in Node : ~ job[k].all /\ ~ (job[k].keep /\ k \in job[k].list)
BoxesOfList ==
  \A k \in Node : \A i \in 1 .. Len(inbox[k]) :
    ~ inbox[k][i].all /\ ~ (inbox[k][i].self /\ k \in inbox[k][i].list)

ListInv ==
  mode = "list" => JobsOfList /\ BoxesOfList /\ \A x \in Node : Divided(x)

\* A message arrives.
LEMMA BoxGains ==
  ASSUME MulticastTypeOK, NEW k \in Node, NEW m \in Message, Deliver(k, m), NEW x \in Node
  PROVE  /\ ~ MessageFor(k, m, x) => (NoBox(x) => NoBox(x)') /\ (OneBox(x) => OneBox(x)')
         /\ NoBox(x) => OneBox(x)'
         /\ BoxesOfList /\ ~ m.all /\ ~ (m.self /\ k \in m.list) => BoxesOfList'
<1>1. inbox \in [Node -> Seq(Message)] /\ inbox' = [inbox EXCEPT ![k] = Append(@, m)]
      /\ inbox[k] \in Seq(Message)
  BY DEF MulticastTypeOK, Deliver
<1>2. /\ \A l \in Node \ {k} : inbox'[l] = inbox[l]
      /\ inbox'[k] = Append(inbox[k], m)
      /\ \A l \in Node : Len(inbox[l]) \in Nat
  BY <1>1
<1>3. /\ Len(inbox'[k]) = Len(inbox[k]) + 1 /\ inbox'[k][Len(inbox[k]) + 1] = m
      /\ \A i \in 1 .. Len(inbox[k]) : inbox'[k][i] = inbox[k][i]
  BY <1>1, <1>2
<1>4. \A l \in Node : \A i \in 1 .. Len(inbox'[l]) :
        (l = k /\ i = Len(inbox[k]) + 1 /\ inbox'[l][i] = m)
        \/ (i \in 1 .. Len(inbox[l]) /\ inbox'[l][i] = inbox[l][i])
  <2> TAKE l \in Node
  <2> TAKE i \in 1 .. Len(inbox'[l])
  <2>1. CASE l = k
    <3>1. i \in 1 .. Len(inbox[k]) + 1 /\ Len(inbox[k]) \in Nat
      BY <1>2, <1>3, <2>1
    <3>2. i \in 1 .. Len(inbox[k]) \/ i = Len(inbox[k]) + 1
      BY <3>1
    <3> QED
      BY <1>3, <2>1, <3>2
  <2>2. CASE l # k
    <3>1. inbox'[l] = inbox[l]
      BY <1>2, <2>2
    <3> QED
      BY <2>2, <3>1
  <2> QED
    BY <2>1, <2>2
<1>5. ~ MessageFor(k, m, x) => (NoBox(x) => NoBox(x)')
  BY <1>4 DEF NoBox
<1>6. ~ MessageFor(k, m, x) => (OneBox(x) => OneBox(x)')
  BY <1>4 DEF OneBox
<1>7. NoBox(x) => OneBox(x)'
  BY <1>4 DEF NoBox, OneBox
<1>8. BoxesOfList /\ ~ m.all /\ ~ (m.self /\ k \in m.list) => BoxesOfList'
  BY <1>4 DEF BoxesOfList
<1> QED
  BY <1>5, <1>6, <1>7, <1>8

\* A message is taken.
LEMMA BoxLoses ==
  ASSUME MulticastTypeOK, NEW n \in Node, inbox[n] # <<>>, inbox' = [inbox EXCEPT ![n] = Tail(@)],
         NEW x \in Node
  PROVE  /\ (NoBox(x) => NoBox(x)') /\ (OneBox(x) => OneBox(x)')
         /\ OneBox(x) /\ MessageFor(n, Head(inbox[n]), x) => NoBox(x)' /\ ~ NoBox(x)
         /\ BoxesOfList => /\ BoxesOfList' /\ ~ Head(inbox[n]).all
                           /\ ~ (Head(inbox[n]).self /\ n \in Head(inbox[n]).list)
<1>1. inbox \in [Node -> Seq(Message)] /\ inbox[n] \in Seq(Message)
  BY DEF MulticastTypeOK
<1>2. /\ \A l \in Node \ {n} : inbox'[l] = inbox[l]
      /\ inbox'[n] = Tail(inbox[n])
      /\ \A l \in Node : Len(inbox[l]) \in Nat
  BY <1>1
<1>3. /\ Len(inbox[n]) \in Nat \ {0} /\ Len(Tail(inbox[n])) = Len(inbox[n]) - 1
      /\ Head(inbox[n]) = inbox[n][1]
      /\ \A i \in 1 .. Len(inbox[n]) - 1 : Tail(inbox[n])[i] = inbox[n][i + 1]
  BY <1>1
<1>4. \A l \in Node : \A i \in 1 .. Len(inbox'[l]) :
        \/ l = n /\ i + 1 \in 2 .. Len(inbox[l]) /\ inbox'[l][i] = inbox[l][i + 1]
        \/ l # n /\ i \in 1 .. Len(inbox[l]) /\ inbox'[l][i] = inbox[l][i]
  <2> SUFFICES ASSUME NEW l \in Node, NEW i \in 1 .. Len(inbox'[l])
               PROVE  \/ l = n /\ i + 1 \in 2 .. Len(inbox[l]) /\ inbox'[l][i] = inbox[l][i + 1]
                      \/ l # n /\ i \in 1 .. Len(inbox[l]) /\ inbox'[l][i] = inbox[l][i]
    OBVIOUS
  <2>1. CASE l # n
    BY <1>2, <2>1
  <2>2. CASE l = n
    <3>1. i \in 1 .. Len(inbox[n]) - 1 /\ inbox'[l][i] = Tail(inbox[n])[i]
      BY <1>2, <1>3, <2>2
    <3>2. i + 1 \in 2 .. Len(inbox[n])
      BY <1>3, <3>1
    <3> QED
      BY <1>3, <2>2, <3>1, <3>2
  <2> QED
    BY <2>1, <2>2
<1>5. 1 \in 1 .. Len(inbox[n]) /\ Head(inbox[n]) = inbox[n][1]
      /\ \A i \in 2 .. Len(inbox[n]) : i \in 1 .. Len(inbox[n]) /\ i # 1
      /\ \A l \in Node : Len(inbox'[l]) \in Nat
  BY <1>2, <1>3
<1>6. (NoBox(x) => NoBox(x)') /\ (BoxesOfList => BoxesOfList')
  <2>1. \A l \in Node : \A i \in 1 .. Len(inbox'[l]) :
          \E u \in 1 .. Len(inbox[l]) : inbox'[l][i] = inbox[l][u]
    BY <1>4, <1>5
  <2> QED
    BY <2>1 DEF NoBox, BoxesOfList
<1>7. ASSUME OneBox(x) PROVE OneBox(x)'
  <2> DEFINE was(l, i) == IF l = n THEN i + 1 ELSE i
  <2>1. \A l \in Node : \A i \in 1 .. Len(inbox'[l]) :
          was(l, i) \in 1 .. Len(inbox[l]) /\ inbox'[l][i] = inbox[l][was(l, i)]
    BY <1>4, <1>5
  <2>2. \A k, l \in Node : \A i \in 1 .. Len(inbox[k]) : \A j \in 1 .. Len(inbox[l]) :
          MessageFor(k, inbox[k][i], x) /\ MessageFor(l, inbox[l][j], x) => k = l /\ i = j
    BY <1>7 DEF OneBox
  <2>3. \A l \in Node : \A i, j \in 1 .. Len(inbox'[l]) : was(l, i) = was(l, j) => i = j
    BY <1>5
  <2> HIDE DEF was
  <2>4. \A k, l \in Node : \A i \in 1 .. Len(inbox'[k]) : \A j \in 1 .. Len(inbox'[l]) :
          MessageFor(k, inbox'[k][i], x) /\ MessageFor(l, inbox'[l][j], x) => k = l /\ i = j
    <3> TAKE k, l \in Node
    <3> TAKE i \in 1 .. Len(inbox'[k])
    <3> TAKE j \in 1 .. Len(inbox'[l])
    <3> HAVE MessageFor(k, inbox'[k][i], x) /\ MessageFor(l, inbox'[l][j], x)
    <3>1. k = l /\ was(k, i) = was(l, j)
      BY <2>1, <2>2 DEF MessageFor
    <3> QED
      BY <2>3, <3>1
  <2> QED
    BY <2>4 DEF OneBox, MessageFor
<1>8. ASSUME OneBox(x), MessageFor(n, Head(inbox[n]), x) PROVE NoBox(x)' /\ ~ NoBox(x)
  <2>1. \A l \in Node : \A i \in 1 .. Len(inbox[l]) :
          MessageFor(l, inbox[l][i], x) => l = n /\ i = 1
    BY <1>5, <1>8 DEF OneBox
  <2> QED
    BY <1>4, <1>5, <1>8, <2>1 DEF NoBox
<1>9. BoxesOfList => ~ Head(inbox[n]).all /\ ~ (Head(inbox[n]).self /\ n \in Head(inbox[n]).list)
  BY <1>5 DEF BoxesOfList
<1> QED
  BY <1>6, <1>7, <1>8, <1>9

\* A step of a job of node n moves an address to a message of a child, or leaves it out.
LEMMA JobStepDivides ==
  ASSUME MulticastTypeOK, NEW n \in Node, NEW j, JobBecomes(n, j), UNCHANGED <<copies, wanted>>,
         NEW x \in Node, Divided(x), OfJob(n, j, x) => JobFor(n, x),
         NEW k \in Node, NEW m \in Message,
         UNCHANGED inbox \/ (Deliver(k, m) /\ (MessageFor(k, m, x) => JobFor(n, x) /\ ~ OfJob(n, j, x)))
  PROVE  Divided(x)'
<1>1. job'[n] = j /\ \A l \in Node \ {n} : job'[l] = job[l]
  BY DEF JobBecomes, MulticastTypeOK
<1>2. \A l \in Node : JobFor(l, x)' => JobFor(l, x)
  BY <1>1 DEF JobFor
<1>3. OneJob(x)'
  BY <1>2 DEF Divided, OneJob
<1>4. CASE UNCHANGED inbox
  <2>1. (NoBox(x)' <=> NoBox(x)) /\ (OneBox(x)' <=> OneBox(x))
    BY <1>4 DEF NoBox, OneBox
  <2> QED
    BY <1>2, <1>3, <2>1 DEF Divided
<1>5. CASE Deliver(k, m) /\ ~ MessageFor(k, m, x)
  <2>1. (NoBox(x) => NoBox(x)') /\ (OneBox(x) => OneBox(x)')
    BY <1>5, BoxGains
  <2> QED
    BY <1>2, <1>3, <2>1 DEF Divided
<1>6. CASE Deliver(k, m) /\ JobFor(n, x) /\ ~ OfJob(n, j, x)
  <2>1. NoBox(x) /\ copies[x] = 0 /\ x \in wanted /\ \A l \in Node : JobFor(l, x) => l = n
    BY <1>6 DEF Divided, OneJob
  <2>2. OneBox(x)'
    BY <1>6, <2>1, BoxGains
  <2>3. \A l \in Node : ~ JobFor(l, x)'
    BY <1>1, <1>2, <1>6, <2>1 DEF JobFor
  <2> QED
    BY <1>3, <2>1, <2>2, <2>3 DEF Divided
<1> QED
  BY <1>4, <1>5, <1>6

\* A step of a job keeps its keep and all, and shortens its list.
LEMMA JobOfListKept ==
  ASSUME MulticastTypeOK, JobsOfList, NEW n \in Node, NEW j, JobBecomes(n, j),
         j.all = job[n].all, j.keep = job[n].keep, j.list \subseteq job[n].list
  PROVE  JobsOfList'
<1>1. job'[n] = j /\ \A l \in Node \ {n} : job'[l] = job[l]
  BY DEF JobBecomes, MulticastTypeOK
<1> QED
  BY <1>1 DEF JobsOfList

SameWrite(n, j) == j.all = job[n].all /\ j.keep = job[n].keep /\ j.self = job[n].self

LEMMA JobFields ==
  ASSUME MulticastTypeOK, NEW n \in Node, NEW k \in Node, NEW list
  PROVE  /\ ServedOne(n, k, list).list = list /\ Failed(n, list).list = list
         /\ ServedAlone(n, k).list = job[n].list \ {k} /\ ServedRest(n, k).list = job[n].list \ {k}
         /\ ToRest(n).list = IF job[n].all THEN RestAll(n) ELSE job[n].list
         /\ SameWrite(n, ServedOne(n, k, list)) /\ SameWrite(n, Failed(n, list))
         /\ SameWrite(n, ServedAlone(n, k)) /\ SameWrite(n, ServedRest(n, k)) /\ SameWrite(n, ToRest(n))
         /\ ServedOne(n, k, list).at = job[n].at /\ Failed(n, list).at = job[n].at
         /\ ServedAlone(n, k).at = job[n].at /\ ServedRest(n, k).at = job[n].at /\ ToRest(n).at = "rest"
         /\ ServedOne(n, k, list).kids = job[n].kids \ {k} /\ Failed(n, list).kids = {}
         /\ ServedAlone(n, k).kids = job[n].kids \ {k} /\ ServedRest(n, k).kids = job[n].kids
         /\ ToRest(n).kids = {}
         /\ ServedOne(n, k, list).ok /\ ServedRest(n, k).ok /\ ~ Failed(n, list).ok
         /\ ToRest(n).ok = job[n].ok
<1>1. job[n] \in Job
  BY DEF MulticastTypeOK
<1> QED
  BY <1>1 DEF ServedOne, Failed, ServedAlone, ServedRest, ToRest, Job, SameWrite

\* The whole of a list: one step of a job that may send message m to k.
LEMMA ListJobStep ==
  ASSUME MulticastTypeOK, mode = "list", ListInv, NEW n \in Node, NEW j, JobBecomes(n, j),
         j.all = job[n].all, j.keep = job[n].keep, j.list \subseteq job[n].list,
         UNCHANGED <<copies, wanted>>, NEW k \in Node, NEW m \in Message,
         \/ UNCHANGED inbox
         \/ /\ Deliver(k, m) /\ ~ m.all /\ ~ (m.self /\ k \in m.list)
            /\ \A x \in Node : MessageFor(k, m, x) => x \in job[n].list \ j.list
  PROVE  ListInv'
<1>1. JobsOfList /\ BoxesOfList /\ \A x \in Node : Divided(x)
  BY DEF ListInv
<1>2. JobsOfList'
  BY <1>1, JobOfListKept
<1>3. BoxesOfList'
  <2>1. UNCHANGED inbox => BoxesOfList'
    BY <1>1 DEF BoxesOfList
  <2> QED
    BY <1>1, <2>1, BoxGains
<1>4. ASSUME NEW x \in Node PROVE Divided(x)'
  <2>1. OfJob(n, j, x) => JobFor(n, x)
    BY DEF OfJob, JobFor
  <2>2. x \in job[n].list \ j.list => JobFor(n, x) /\ ~ OfJob(n, j, x)
    BY <1>1 DEF OfJob, JobFor, JobsOfList
  <2> QED
    BY <1>1, <2>1, <2>2, JobStepDivides
<1> QED
  BY <1>2, <1>3, <1>4 DEF ListInv

\* The step of TransmitEnd: the node that keeps a copy of its own reads it.
LEMMA ListEnd ==
  ASSUME MulticastTypeOK, mode = "list", ListInv, NEW n \in Node, TransmitEnd(n)
  PROVE  ListInv'
<1>1. JobsOfList /\ BoxesOfList /\ \A x \in Node : Divided(x)
  BY DEF ListInv
<1>2. /\ job[n].list = {} /\ job' = [job EXCEPT ![n] = NoJob] /\ UNCHANGED <<wanted, inbox>>
      /\ copies' = [copies EXCEPT ![n] = IF job[n].keep /\ job[n].ok THEN @ + 1 ELSE @]
  BY DEF TransmitEnd
<1>3. NoJob.list = {} /\ ~ NoJob.keep /\ ~ NoJob.all
  BY DEF NoJob
<1>4. job'[n] = NoJob /\ (\A l \in Node \ {n} : job'[l] = job[l])
      /\ copies[n] \in Nat /\ (\A l \in Node \ {n} : copies'[l] = copies[l])
      /\ copies'[n] = IF job[n].keep /\ job[n].ok THEN copies[n] + 1 ELSE copies[n]
  BY <1>2 DEF MulticastTypeOK
<1>5. JobsOfList' /\ BoxesOfList'
  BY <1>1, <1>2, <1>3, <1>4 DEF JobsOfList, BoxesOfList
<1>6. ASSUME NEW x \in Node PROVE Divided(x)'
  <2>1. (NoBox(x)' <=> NoBox(x)) /\ (OneBox(x)' <=> OneBox(x))
    BY <1>2 DEF NoBox, OneBox
  <2>2. \A l \in Node : JobFor(l, x)' => l # n /\ JobFor(l, x)
    BY <1>3, <1>4 DEF JobFor, OfJob
  <2>3. OneJob(x)'
    BY <1>1, <2>2 DEF Divided, OneJob
  <2>4. CASE copies'[x] = copies[x]
    BY <1>1, <1>2, <2>1, <2>2, <2>3, <2>4 DEF Divided
  <2>5. CASE x = n /\ job[n].keep /\ copies'[x] = copies[x] + 1
    <3>1. JobFor(n, x)
      BY <2>5 DEF JobFor, OfJob
    <3>2. NoBox(x) /\ copies[x] = 0 /\ x \in wanted /\ \A l \in Node : JobFor(l, x) => l = n
      BY <1>1, <3>1 DEF Divided, OneJob
    <3>3. OneBox(x) /\ copies'[x] = 1
      BY <1>1, <2>5, <3>2 DEF Divided
    <3> QED
      BY <1>2, <2>1, <2>2, <2>3, <3>2, <3>3 DEF Divided
  <2> QED
    BY <1>4, <2>4, <2>5
<1> QED
  BY <1>5, <1>6 DEF ListInv

LEMMA ListTransmit ==
  ASSUME MulticastTypeOK, mode = "list", ListInv, NEW n \in Node, Transmitting(n)
  PROVE  ListInv'
<1>1. job[n] \in Job /\ ~ job[n].all
  BY DEF MulticastTypeOK, ListInv, JobsOfList
<1>2. Alone \in Message
  BY AloneIsMessage
<1>3. ASSUME NEW k \in Node, ServeChild(n, k) PROVE ListInv'
  <2> DEFINE j == ServedOne(n, k, LeftAfter(n, k))  m == ForChild(n, k)
  <2>0. JobBecomes(n, j)
    BY <1>3, TransmitSteps
  <2>1. JobBecomes(n, j) /\ j.all = job[n].all /\ j.keep = job[n].keep /\ j.list = LeftAfter(n, k)
    BY <1>1, <2>0, JobFields DEF SameWrite
  <2>2. UNCHANGED <<copies, wanted>> /\ (UNCHANGED inbox \/ Deliver(k, m))
    BY <1>3 DEF ServeChild
  <2>3. m \in Message
    BY ForChildTypes
  <2>4. ~ m.all /\ m.self = (k \in job[n].list) /\ m.list = AddressesFor(n, k)
    BY <1>1 DEF ForChild
  <2>5. ~ (m.self /\ k \in m.list) /\ \A x \in Node : MessageFor(k, m, x) => x \in job[n].list \ LeftAfter(n, k)
    BY <2>4 DEF AddressesFor, LeftAfter, MessageFor
  <2>6. LeftAfter(n, k) \subseteq job[n].list
    BY DEF LeftAfter
  <2> HIDE DEF j, m
  <2> QED
    BY <2>1, <2>2, <2>3, <2>4, <2>5, <2>6, ListJobStep
<1>4. ASSUME NEW j, JobBecomes(n, j), j.all = job[n].all, j.keep = job[n].keep,
             j.list \subseteq job[n].list, UNCHANGED <<copies, wanted, inbox>>
      PROVE  ListInv'
  BY <1>2, <1>4, ListJobStep
<1>5. ASSUME NEW k \in Node, ServeFails(n, k) PROVE ListInv'
  <2> DEFINE j == Failed(n, LeftAfter(n, k))
  <2>0. JobBecomes(n, j)
    BY <1>5, TransmitSteps
  <2>1. JobBecomes(n, j) /\ j.all = job[n].all /\ j.keep = job[n].keep /\ j.list = LeftAfter(n, k)
    BY <1>1, <2>0, JobFields DEF SameWrite
  <2>2. UNCHANGED <<copies, wanted, inbox>> /\ LeftAfter(n, k) \subseteq job[n].list
    BY <1>5 DEF ServeFails, LeftAfter
  <2> HIDE DEF j
  <2> QED
    BY <1>4, <2>1, <2>2
<1>6. ASSUME NEW k \in Node, SubnetFails(n, k) \/ RestFails(n, k) PROVE ListInv'
  <2> DEFINE j == Failed(n, job[n].list \ {k})
  <2>0. JobBecomes(n, j)
    BY <1>6, TransmitSteps
  <2>1. JobBecomes(n, j) /\ j.all = job[n].all /\ j.keep = job[n].keep /\ j.list = job[n].list \ {k}
    BY <1>1, <2>0, JobFields DEF SameWrite
  <2>2. UNCHANGED <<copies, wanted, inbox>>
    BY <1>6 DEF SubnetFails, RestFails
  <2> HIDE DEF j
  <2> QED
    BY <1>4, <2>1, <2>2
<1>7. ASSUME NEW k \in Node, NEW j, JobBecomes(n, j), j.all = job[n].all, j.keep = job[n].keep,
             j.list = job[n].list \ {k}, UNCHANGED <<copies, wanted>>,
             UNCHANGED inbox \/ (Deliver(k, Alone) /\ k \in job[n].list)
      PROVE  ListInv'
  <2>1. /\ Alone.list = {} /\ ~ Alone.all
        /\ \A x \in Node : MessageFor(k, Alone, x) => x = k
    BY DEF Alone, MessageFor
  <2> QED
    BY <1>2, <1>7, <2>1, ListJobStep
<1>8. ASSUME NEW k \in Node, SubnetListFails(n, k) PROVE ListInv'
  <2> DEFINE j == ServedAlone(n, k)
  <2>0. JobBecomes(n, j)
    BY <1>8, TransmitSteps
  <2>1. JobBecomes(n, j) /\ j.all = job[n].all /\ j.keep = job[n].keep /\ j.list = job[n].list \ {k}
    BY <1>1, <2>0, JobFields DEF SameWrite
  <2>2. UNCHANGED <<copies, wanted>> /\ (UNCHANGED inbox \/ (Deliver(k, Alone) /\ k \in job[n].list))
    BY <1>8 DEF SubnetListFails
  <2> HIDE DEF j
  <2> QED
    BY <1>7, <2>1, <2>2
<1>9. ASSUME NEW k \in Node, ServeRest(n, k) PROVE ListInv'
  <2> DEFINE j == ServedRest(n, k)
  <2>0. JobBecomes(n, j)
    BY <1>9, TransmitSteps
  <2>1. JobBecomes(n, j) /\ j.all = job[n].all /\ j.keep = job[n].keep /\ j.list = job[n].list \ {k}
    BY <1>1, <2>0, JobFields DEF SameWrite
  <2>2. UNCHANGED <<copies, wanted>> /\ Deliver(k, Alone) /\ k \in job[n].list
    BY <1>9 DEF ServeRest, InRest
  <2> HIDE DEF j
  <2> QED
    BY <1>7, <2>1, <2>2
<1>10. CASE RestOfList(n)
  <2> DEFINE j == ToRest(n)
  <2>0. JobBecomes(n, j)
    BY <1>10, TransmitSteps
  <2>1. JobBecomes(n, j) /\ j.all = job[n].all /\ j.keep = job[n].keep /\ j.list = job[n].list
    BY <1>1, <2>0, JobFields DEF SameWrite
  <2>2. UNCHANGED <<copies, wanted, inbox>>
    BY <1>10 DEF RestOfList
  <2> HIDE DEF j
  <2> QED
    BY <1>4, <2>1, <2>2
<1> QED
  BY <1>3, <1>5, <1>6, <1>8, <1>9, <1>10, ListEnd DEF Transmitting

LEMMA ListRead ==
  ASSUME MulticastTypeOK, mode = "list", ListInv, NEW n \in Node, Reading(n)
  PROVE  ListInv'
<1> DEFINE m == Head(inbox[n])
<1>1. JobsOfList /\ BoxesOfList /\ \A x \in Node : Divided(x)
  BY DEF ListInv
<1>2. inbox[n] # <<>> /\ inbox' = [inbox EXCEPT ![n] = Tail(@)] /\ UNCHANGED <<mode, wanted>>
  BY DEF Reading, ReadOwn, ReadForward
<1>3. m \in Message
  BY <1>2, TailTypes
<1>4. BoxesOfList' /\ ~ m.all /\ ~ (m.self /\ n \in m.list)
  BY <1>1, <1>2, BoxLoses
<1>5. \A x \in Node : /\ (NoBox(x) => NoBox(x)') /\ OneBox(x)'
                      /\ MessageFor(n, m, x) => /\ NoBox(x)' /\ ~ NoBox(x) /\ x \in wanted /\ copies[x] = 0
                                                /\ \A k \in Node : ~ JobFor(k, x)
  <2> TAKE x \in Node
  <2>1. (NoBox(x) => NoBox(x)') /\ OneBox(x)' /\ (MessageFor(n, m, x) => NoBox(x)' /\ ~ NoBox(x))
    BY <1>1, <1>2, BoxLoses DEF Divided
  <2> HIDE DEF m
  <2> QED
    BY <1>1, <2>1 DEF Divided
<1> HIDE DEF m
<1>6. CASE ReadOwn(n)
  <2>1. UNCHANGED job /\ copies' = [copies EXCEPT ![n] = IF m.self THEN @ + 1 ELSE @] /\ m.list = {}
    BY <1>6 DEF ReadOwn, m
  <2>2. JobsOfList'
    BY <1>1, <2>1 DEF JobsOfList
  <2>3. ASSUME NEW x \in Node PROVE Divided(x)'
    <3>1. \A k \in Node : JobFor(k, x)' <=> JobFor(k, x)
      BY <2>1 DEF JobFor
    <3>2. OneJob(x)'
      BY <1>1, <3>1 DEF Divided, OneJob
    <3>3. CASE x = n /\ m.self
      <4>1. MessageFor(n, m, x) /\ copies'[x] = copies[x] + 1
        BY <2>1, <3>3 DEF MessageFor, MulticastTypeOK
      <4> QED
        BY <1>2, <1>5, <3>1, <3>2, <4>1 DEF Divided
    <3>4. CASE ~ (x = n /\ m.self)
      <4>1. copies'[x] = copies[x]
        BY <2>1, <3>4 DEF MulticastTypeOK
      <4> QED
        BY <1>1, <1>2, <1>5, <3>1, <3>2, <4>1 DEF Divided
    <3> QED
      BY <3>3, <3>4
  <2> QED
    BY <1>4, <2>2, <2>3 DEF ListInv
<1>7. CASE ReadForward(n)
  <2> DEFINE t == Transmit(m.list, m.self, m.all, m.self)
  <2>0. /\ Begin(n, t) /\ UNCHANGED copies /\ job[n] = NoJob
        /\ m.list \in SUBSET Node /\ m.self \in BOOLEAN /\ m.all \in BOOLEAN
    BY <1>3, <1>7 DEF ReadForward, m, Message
  <2>9. t \in Job /\ t.kids = {} /\ t.list = m.list /\ t.keep = m.self /\ t.all = m.all
    BY <2>0, TransmitIsJob DEF Transmit
  <2> HIDE DEF t
  <2>10. PICK j \in Job : Starts(n, t, j)
    BY <2>0, <2>9, BeginStarts
  <2>1. job' = [job EXCEPT ![n] = j] /\ UNCHANGED copies /\ job[n] = NoJob
    BY <2>0, <2>10 DEF Starts
  <2>2. j.list = m.list /\ j.keep = m.self /\ j.all = m.all
    BY <2>9, <2>10 DEF Starts
  <2>3. job'[n] = j /\ \A l \in Node \ {n} : job'[l] = job[l]
    BY <2>1 DEF MulticastTypeOK
  <2>4. JobsOfList'
    BY <1>1, <1>4, <2>2, <2>3 DEF JobsOfList
  <2>5. ASSUME NEW x \in Node PROVE Divided(x)'
    <3>1. \A k \in Node : JobFor(k, x)' => (k = n /\ MessageFor(n, m, x)) \/ JobFor(k, x)
      BY <2>2, <2>3 DEF JobFor, OfJob, MessageFor
    <3>2. CASE MessageFor(n, m, x)
      <4>1. /\ NoBox(x)' /\ x \in wanted /\ copies[x] = 0 /\ OneBox(x)'
            /\ \A k \in Node : JobFor(k, x)' => k = n
        BY <1>5, <3>1, <3>2
      <4>2. OneJob(x)' /\ copies'[x] = 0 /\ x \in wanted'
        BY <1>2, <2>1, <4>1 DEF OneJob
      <4> QED
        BY <4>1, <4>2 DEF Divided
    <3>3. CASE ~ MessageFor(n, m, x)
      <4>1. \A k \in Node : JobFor(k, x)' => JobFor(k, x)
        BY <3>1, <3>3
      <4>2. OneJob(x)'
        BY <1>1, <4>1 DEF Divided, OneJob
      <4> QED
        BY <1>1, <1>2, <1>5, <2>1, <4>1, <4>2 DEF Divided
    <3> QED
      BY <3>2, <3>3
  <2> QED
    BY <1>4, <2>4, <2>5 DEF ListInv
<1> QED
  BY <1>6, <1>7 DEF Reading

LEMMA ListBegins ==
  ASSUME CastTypes, NEW list \in (SUBSET Node) \ {{}}, RootWriteList(list)
  PROVE  ListInv'
<1>1. MulticastTypeOK /\ NothingSent /\ Root \in Node
  BY DEF CastTypes, CastShape, RootWriteList, MulticastAssumption
<1> DEFINE t == Transmit(list, TRUE, FALSE, FALSE)
<1>11. Begin(Root, t) /\ wanted' = list /\ UNCHANGED <<inbox, copies>> /\ list \in SUBSET Node
  BY DEF RootWriteList
<1>12. t \in Job /\ t.kids = {} /\ t.list = list /\ ~ t.keep /\ ~ t.all
  BY <1>11, TransmitIsJob DEF Transmit
<1> HIDE DEF t
<1>13. PICK j \in Job : Starts(Root, t, j)
  BY <1>1, <1>11, <1>12, BeginStarts
<1>2. job' = [job EXCEPT ![Root] = j] /\ wanted' = list /\ UNCHANGED <<inbox, copies>>
  BY <1>11, <1>13 DEF Starts
<1>3. j.list = list /\ ~ j.keep /\ ~ j.all
  BY <1>12, <1>13 DEF Starts
<1>4. \A k \in Node : /\ inbox[k] = <<>> /\ copies[k] = 0 /\ job[k] = NoJob
  BY <1>1 DEF NothingSent
<1>5. job'[Root] = j /\ (\A k \in Node \ {Root} : job'[k] = NoJob)
  BY <1>1, <1>2, <1>4 DEF MulticastTypeOK
<1>6. NoJob.list = {} /\ ~ NoJob.keep /\ ~ NoJob.all
  BY DEF NoJob
<1>7. JobsOfList'
  BY <1>3, <1>5, <1>6 DEF JobsOfList
<1>8. \A k \in Node : inbox'[k] = <<>> /\ Len(inbox'[k]) = 0 /\ copies'[k] = 0
  BY <1>2, <1>4
<1>9. BoxesOfList'
  BY <1>8 DEF BoxesOfList
<1>10. ASSUME NEW x \in Node PROVE Divided(x)'
  <2>1. \A k \in Node : JobFor(k, x)' => k = Root /\ x \in wanted'
    BY <1>2, <1>3, <1>5, <1>6 DEF JobFor, OfJob
  <2>2. NoBox(x)' /\ OneBox(x)' /\ copies'[x] = 0
    BY <1>8 DEF NoBox, OneBox
  <2>3. OneJob(x)'
    BY <2>1 DEF OneJob
  <2> QED
    BY <2>1, <2>2, <2>3 DEF Divided
<1> QED
  BY <1>7, <1>9, <1>10 DEF ListInv

LEMMA ListStep ==
  ASSUME CastTypes, ListInv, [MulticastNext]_multicastVars
  PROVE  ListInv'
<1>1. MulticastTypeOK
  BY DEF CastTypes
<1>2. CASE UNCHANGED <<mode, job, inbox, copies, wanted>>
  <2>1. JobsOfList' <=> JobsOfList
    BY <1>2 DEF JobsOfList
  <2>2. BoxesOfList' <=> BoxesOfList
    BY <1>2 DEF BoxesOfList
  <2>3. \A x \in Node : Divided(x)' <=> Divided(x)
    BY <1>2 DEF Divided, OneJob, OneBox, NoBox, JobFor
  <2> QED
    BY <1>2, <2>1, <2>2, <2>3 DEF ListInv
<1>3. ASSUME NEW n \in Node, Transmitting(n) \/ Reading(n) PROVE ListInv'
  <2>1. mode' = mode
    BY <1>3 DEF Transmitting, Reading, ServeChild, ServeFails, SubnetFails, SubnetListFails,
                ServeRest, RestFails, RestOfList, TransmitEnd, ReadOwn, ReadForward
  <2>2. CASE mode = "list"
    BY <1>1, <1>3, <2>2, ListTransmit, ListRead
  <2> QED
    BY <2>1, <2>2 DEF ListInv
<1>4. ASSUME NEW m \in Modes \ {"list"}, RootWriteAll(m) PROVE ListInv'
  BY <1>4 DEF RootWriteAll, ListInv
<1>5. ASSUME NEW n \in Node, NEW p \in Node, Move(n, p) PROVE ListInv'
  BY <1>2, <1>5 DEF Move
<1> QED
  BY <1>2, <1>3, <1>4, <1>5, ListBegins DEF MulticastNext, multicastVars

-----------------------------------------------------------------------------
\* Everybody: every message says so, but the root's own.
ToEverybody == mode \in {"any", "broadcast"}
ToAll == [self |-> TRUE, all |-> TRUE, list |-> {}]

JobToAll(k) == job[k].list = {} /\ (job[k] # NoJob => job[k].all /\ job[k].self /\ job[k].keep)
BoxToAll(k) == \A i \in 1 .. Len(inbox[k]) : inbox[k][i] = ToAll

RootToAll ==
  /\ job[Root] # NoJob => job[Root].all /\ job[Root].self
  /\ ~ job[Root].keep /\ job[Root].list \subseteq RestAll(Root)
  /\ job[Root].at = "children" => job[Root].list = {}
  /\ copies[Root] =< 1 /\ (mode = "broadcast" => copies[Root] = 0)
  /\ inbox[Root] = <<>> \/ (inbox[Root] = <<Alone>> /\ mode = "any" /\ copies[Root] = 0)
  /\ job[Root].at = "children" \/ job[Root].list # {} => inbox[Root] = <<>> /\ copies[Root] = 0

\* While nobody moves, the message goes down the tree: nobody below a node that has
\* not begun to read has anything.
Begun(p) == job[p] # NoJob \/ copies[p] > 0 \/ p \in spoiled \/ p = Root
Fresh(k) == inbox[k] = <<>> /\ job[k] = NoJob /\ copies[k] = 0 /\ k \notin spoiled

OneCopy(k) ==
  /\ Len(inbox[k]) =< 1 /\ (inbox[k] # <<>> => ~ Begun(k))
  /\ copies[k] =< 1 /\ (job[k] # NoJob => copies[k] = 0)
  /\ job[k] # NoJob /\ ~ job[k].ok => k \in spoiled
BelowIsFresh == \A p, k \in Node : p \in above[k] /\ ~ Begun(p) => Fresh(k)
KidsAreFresh == \A p \in Node : \A k \in job[p].kids : k \in Children(p) /\ Fresh(k)
DownTheTree == (\A k \in Node \ {Root} : OneCopy(k)) /\ BelowIsFresh /\ KidsAreFresh

EveryInv ==
  ToEverybody => /\ RootToAll /\ \A k \in Node \ {Root} : JobToAll(k) /\ BoxToAll(k)
                 /\ moved = 0 => DownTheTree

LEMMA JobsOfKids ==
  ASSUME MulticastTypeOK, NEW n \in Node, job[n].at # "none" \/ job[n].kids # {} \/ job[n].list # {}
  PROVE  job[n] # NoJob
BY DEF NoJob

\* Nobody has two parents.
LEMMA OneParent ==
  ASSUME CastTypes, moved = 0, NEW p \in Node, NEW q \in Node, NEW k \in Node,
         k \in Children(p), k \in Children(q)
  PROVE  p = q
<1>1. above \in Topology
  BY DEF CastTypes, CastShape
<1>2. \A n, m \in Node : n \notin above[n] /\ (n \in above[m] => above[n] \subseteq above[m])
  BY <1>1, MulticastAssumption
<1>3. above[p] \union {p} = above[q] \union {q}
  BY DEF Children
<1> QED
  BY <1>2, <1>3

LEMMA LineOfParents ==
  ASSUME CastTypes, moved = 0
  PROVE  /\ \A n, m \in Node : n \notin above[n] /\ (n \in above[m] => above[n] \subseteq above[m])
         /\ \A n, m, k \in Node : n \in above[k] /\ m \in above[k] => n = m \/ n \in above[m] \/ m \in above[n]
         /\ \A n, k \in Node : k \in Children(n) => n \in above[k] /\ above[k] = above[n] \union {n} /\ k # n
         /\ above[Root] = {}
<1>1. above \in Topology /\ above[Root] = {}
  BY DEF CastTypes, CastShape
<1>2. \A n, m \in Node : n \notin above[n] /\ (n \in above[m] => above[n] \subseteq above[m])
  BY <1>1, MulticastAssumption
<1>3. \A n, m, k \in Node : {n, m} \subseteq above[k] => n = m \/ n \in above[m] \/ m \in above[n]
  BY <1>1, MulticastAssumption
<1>4. \A n, m, k \in Node : n \in above[k] /\ m \in above[k] => n = m \/ n \in above[m] \/ m \in above[n]
  BY <1>3
<1>5. \A n, k \in Node : k \in Children(n) => n \in above[k] /\ above[k] = above[n] \union {n} /\ k # n
  BY <1>2 DEF Children
<1> QED
  BY <1>1, <1>2, <1>4, <1>5

\* Node n, who has a job or a message, has only nodes that have begun above it.
LEMMA AboveHasBegun ==
  ASSUME DownTheTree, NEW n \in Node, ~ Fresh(n), NEW p \in Node, p \in above[n]
  PROVE  Begun(p)
BY DEF DownTheTree, BelowIsFresh

LEMMA EveryServes ==
  ASSUME CastTypes, ToEverybody, EveryInv, NEW n \in Node, NEW k \in Node, ServeChild(n, k)
  PROVE  EveryInv'
<1> DEFINE j == ServedOne(n, k, LeftAfter(n, k))
<1>1. MulticastTypeOK /\ job[n] \in Job /\ job[k] \in Job /\ inbox \in [Node -> Seq(Message)] /\ Root \in Node
  BY DEF CastTypes, MulticastTypeOK, MulticastAssumption
<1>2. JobBecomes(n, j) /\ job[n].at = "children" /\ k \in job[n].kids
  BY <1>1, TransmitSteps
<1>3. job[n] # NoJob /\ k # Root
  BY <1>1, <1>2, JobsOfKids DEF CastTypes, CastShape
<1>4. /\ RootToAll /\ (\A l \in Node \ {Root} : JobToAll(l) /\ BoxToAll(l))
      /\ moved = 0 => DownTheTree
  BY DEF EveryInv
<1>5. job[n].all /\ job[n].self /\ job[n].list = {}
  BY <1>2, <1>3, <1>4 DEF JobToAll, RootToAll
<1>6. ForChild(n, k) = ToAll /\ IsForSomebody(ToAll) /\ LeftAfter(n, k) = {}
  BY <1>5 DEF ForChild, ToAll, IsForSomebody, LeftAfter
<1>7. /\ inbox' = [inbox EXCEPT ![k] = Append(@, ToAll)]
      /\ UNCHANGED <<above, mode, wanted, copies, moved, failed, spoiled>>
  BY <1>6 DEF ServeChild, Deliver
<1>8. /\ j.all = job[n].all /\ j.keep = job[n].keep /\ j.self = job[n].self /\ j.list = {} /\ j.ok
      /\ j.at = "children" /\ j.kids = job[n].kids \ {k}
  BY <1>1, <1>2, <1>6, JobFields DEF SameWrite
<1> HIDE DEF j
<1>9. job'[n] = j /\ j # NoJob /\ \A l \in Node \ {n} : job'[l] = job[l]
  BY <1>1, <1>2, <1>8 DEF JobBecomes, NoJob, MulticastTypeOK
<1>10. inbox'[k] = Append(inbox[k], ToAll) /\ \A l \in Node \ {k} : inbox'[l] = inbox[l]
  BY <1>1, <1>7
<1>11. RootToAll'
  <2>1. RestAll(Root)' = RestAll(Root) /\ inbox'[Root] = inbox[Root] /\ copies' = copies /\ mode' = mode
    BY <1>3, <1>7, <1>10, <1>1 DEF RestAll
  <2>2. CASE n = Root
    <3>1. /\ job'[Root] = j /\ ~ job[Root].keep /\ job[Root].at = "children"
          /\ copies[Root] =< 1 /\ (mode = "broadcast" => copies[Root] = 0)
          /\ inbox[Root] = <<>> /\ copies[Root] = 0
      BY <1>2, <1>4, <1>9, <2>2 DEF RootToAll
    <3> QED
      BY <1>5, <1>8, <2>1, <2>2, <3>1 DEF RootToAll
  <2>3. CASE n # Root
    <3>1. job'[Root] = job[Root]
      BY <1>1, <1>9, <2>3
    <3> QED
      BY <1>4, <2>1, <3>1 DEF RootToAll
  <2> QED
    BY <2>2, <2>3
<1>12. \A l \in Node \ {Root} : JobToAll(l)'
  <2> TAKE l \in Node \ {Root}
  <2>1. JobToAll(l)
    BY <1>4
  <2>2. CASE l = n
    BY <1>3, <1>5, <1>8, <1>9, <2>1, <2>2 DEF JobToAll
  <2>3. CASE l # n
    <3>1. job'[l] = job[l]
      BY <1>9, <2>3
    <3> QED
      BY <2>1, <3>1 DEF JobToAll
  <2> QED
    BY <2>2, <2>3
<1>13. \A l \in Node \ {Root} : BoxToAll(l)'
  <2>1. inbox[k] \in Seq(Message)
    BY <1>1
  <2>2. \A i \in 1 .. Len(inbox'[k]) : inbox'[k][i] = ToAll \/ (i \in 1 .. Len(inbox[k]) /\ inbox'[k][i] = inbox[k][i])
    BY <1>10, <2>1
  <2> TAKE l \in Node \ {Root}
  <2>3. BoxToAll(l)
    BY <1>4
  <2>4. CASE l = k
    BY <2>2, <2>3, <2>4 DEF BoxToAll
  <2>5. CASE l # k
    <3>1. inbox'[l] = inbox[l]
      BY <1>10, <2>5
    <3> QED
      BY <2>3, <3>1 DEF BoxToAll
  <2> QED
    BY <2>4, <2>5
<1>14. ASSUME moved = 0 PROVE DownTheTree'
  <2>1. DownTheTree
    BY <1>4, <1>14
  <2>2. k \in Children(n) /\ Fresh(k) /\ k # n
    BY <1>2, <1>14, <2>1, LineOfParents DEF DownTheTree, KidsAreFresh
  <2>3. \A p \in Node : Begun(p)' <=> Begun(p)
    BY <1>3, <1>7, <1>9 DEF Begun
  <2>4. \A l \in Node \ {k} : Fresh(l)' <=> Fresh(l)
    BY <1>3, <1>7, <1>9, <1>10 DEF Fresh
  <2>5. Len(inbox'[k]) =< 1 /\ ~ Begun(k)
    BY <1>3, <1>10, <2>2 DEF Fresh, Begun
  <2>6. \A l \in Node \ {Root} : OneCopy(l)'
    <3> TAKE l \in Node \ {Root}
    <3>1. OneCopy(l)
      BY <2>1 DEF DownTheTree
    <3>2. CASE l = k
      <4>1. job'[l] = job[l] /\ copies'[l] = copies[l] /\ Len(inbox'[l]) =< 1 /\ spoiled' = spoiled
        <5>1. Len(inbox'[l]) =< 1
          BY <2>5, <3>2
        <5>2. copies' = copies /\ spoiled' = spoiled
          BY <1>7
        <5>3. job'[l] = job[l]
          BY <1>9, <2>2, <3>2
        <5> QED
          BY <5>1, <5>2, <5>3
      <4>2. ~ Begun(l)
        BY <2>5, <3>2 DEF Begun
      <4>3. ~ Begun(l)'
        BY <4>1, <4>2 DEF Begun
      <4> QED
        BY <3>1, <4>1, <4>3 DEF OneCopy
    <3>3. CASE l # k
      <4>1. inbox'[l] = inbox[l] /\ copies'[l] = copies[l] /\ (Begun(l)' <=> Begun(l)) /\ spoiled' = spoiled
            /\ (job'[l] # NoJob <=> job[l] # NoJob) /\ (~ job'[l].ok => ~ job[l].ok)
        BY <1>3, <1>7, <1>8, <1>9, <1>10, <2>3, <3>3
      <4> QED
        BY <3>1, <4>1 DEF OneCopy
    <3> QED
      BY <3>2, <3>3
  <2>7. BelowIsFresh'
    <3>1. \A p \in Node : p \in above[k] => Begun(p)
      <4>1. above[k] = above[n] \union {n} /\ Begun(n) /\ ~ Fresh(n)
        BY <1>3, <1>14, <2>2, LineOfParents DEF Begun, Fresh
      <4> QED
        BY <2>1, <4>1, AboveHasBegun
    <3> QED
      BY <1>7, <2>1, <2>3, <2>4, <3>1 DEF DownTheTree, BelowIsFresh
  <2>8. KidsAreFresh'
    <3>1. \A p \in Node : \A l \in job'[p].kids : l \in job[p].kids /\ l # k
      <4>1. \A p \in Node : \A l \in job[p].kids : l \in Children(p)
        BY <2>1 DEF DownTheTree, KidsAreFresh
      <4>2. \A p \in Node : k \in job[p].kids => p = n
        BY <1>14, <2>2, <4>1, OneParent
      <4> QED
        BY <1>8, <1>9, <4>2
    <3>2. \A p \in Node : Children(p)' = Children(p)
      BY <1>7 DEF Children
    <3>3. \A p \in Node : \A l \in job[p].kids : l \in Node
      BY <1>1 DEF MulticastTypeOK, Job
    <3> QED
      BY <2>1, <2>4, <3>1, <3>2, <3>3 DEF DownTheTree, KidsAreFresh
  <2> QED
    BY <2>6, <2>7, <2>8 DEF DownTheTree
<1> QED
  BY <1>7, <1>11, <1>12, <1>13, <1>14 DEF EveryInv

\* A node with a job goes on with it, and nothing is sent or read.
LEMMA ToAllKept ==
  ASSUME CastTypes, ToEverybody, EveryInv, NEW n \in Node, NEW j, JobBecomes(n, j),
         job[n] # NoJob, j # NoJob, SameWrite(n, j), j.list \subseteq RestAll(n),
         j.at = "children" => j.list = {},
         j.at = "children" \/ j.list # {} => job[n].at = "children" \/ job[n].list # {},
         UNCHANGED <<mode, copies, inbox>>
  PROVE  RootToAll' /\ \A l \in Node \ {Root} : JobToAll(l)' /\ BoxToAll(l)'
<1>1. RootToAll /\ \A l \in Node \ {Root} : JobToAll(l) /\ BoxToAll(l)
  BY DEF EveryInv
<1>2. job'[n] = j /\ (\A l \in Node \ {n} : job'[l] = job[l]) /\ Root \in Node
  BY DEF JobBecomes, CastTypes, MulticastTypeOK, MulticastAssumption
<1>3. RestAll(Root)' = RestAll(Root)
  BY DEF RestAll
<1>4. RootToAll'
  <2>1. CASE n = Root
    BY <1>1, <1>2, <1>3, <2>1 DEF RootToAll, SameWrite
  <2>2. CASE n # Root
    <3>1. job'[Root] = job[Root]
      BY <1>2, <2>2
    <3> QED
      BY <1>1, <1>3, <3>1 DEF RootToAll
  <2> QED
    BY <2>1, <2>2
<1>5. ASSUME NEW l \in Node \ {Root} PROVE JobToAll(l)' /\ BoxToAll(l)'
  <2>1. JobToAll(l) /\ BoxToAll(l)
    BY <1>1
  <2>2. BoxToAll(l)'
    BY <2>1 DEF BoxToAll
  <2>3. CASE l = n
    <3>1. job'[l] = j /\ j.list = {}
      BY <1>2, <2>3 DEF RestAll
    <3> QED
      BY <2>1, <2>2, <2>3, <3>1 DEF JobToAll, SameWrite
  <2>4. CASE l # n
    <3>1. job'[l] = job[l]
      BY <1>2, <2>4
    <3> QED
      BY <2>1, <2>2, <3>1 DEF JobToAll
  <2> QED
    BY <2>3, <2>4
<1> QED
  BY <1>4, <1>5

\* What happens at the root, or in the job of one node, changes nothing in the tree.
LEMMA TreeKept ==
  ASSUME CastTypes, DownTheTree, NEW n \in Node, NEW j, job' = [job EXCEPT ![n] = j],
         j.kids \subseteq job[n].kids,
         n = Root \/ (job[n] # NoJob /\ j # NoJob /\ (~ j.ok => ~ job[n].ok)),
         \A l \in Node \ {Root} : /\ inbox'[l] = inbox[l] /\ copies'[l] = copies[l]
                                  /\ l \in spoiled' <=> l \in spoiled,
         UNCHANGED above
  PROVE  DownTheTree'
<1>1. job'[n] = j /\ (\A l \in Node \ {n} : job'[l] = job[l]) /\ Root \in Node /\ above[Root] = {}
      /\ \A p \in Node : job[p].kids \subseteq Node \ {Root}
  BY DEF CastTypes, CastShape, MulticastTypeOK, MulticastAssumption, Job
<1>2. \A l \in Node \ {Root} : /\ job'[l] = NoJob <=> job[l] = NoJob
                               /\ ~ job'[l].ok => ~ job[l].ok
  BY <1>1
<1>3. \A p \in Node : Begun(p)' <=> Begun(p)
  BY <1>2 DEF Begun
<1>4. \A l \in Node \ {Root} : Fresh(l)' <=> Fresh(l)
  BY <1>2 DEF Fresh
<1>5. \A l \in Node \ {Root} : OneCopy(l)'
  <2> TAKE l \in Node \ {Root}
  <2>1. OneCopy(l)
    BY DEF DownTheTree
  <2>2. /\ inbox'[l] = inbox[l] /\ copies'[l] = copies[l] /\ (Begun(l)' <=> Begun(l))
        /\ (job'[l] = NoJob <=> job[l] = NoJob) /\ (~ job'[l].ok => ~ job[l].ok)
        /\ (l \in spoiled' <=> l \in spoiled)
    BY <1>2, <1>3
  <2> QED
    BY <2>1, <2>2 DEF OneCopy
<1>6. BelowIsFresh'
  BY <1>1, <1>3, <1>4 DEF DownTheTree, BelowIsFresh
<1>7. KidsAreFresh'
  <2>1. \A p \in Node : job'[p].kids \subseteq job[p].kids
    BY <1>1
  <2>2. \A p \in Node : Children(p)' = Children(p)
    BY DEF Children
  <2> QED
    BY <1>1, <1>4, <2>1, <2>2 DEF DownTheTree, KidsAreFresh
<1> QED
  BY <1>5, <1>6, <1>7 DEF DownTheTree

LEMMA EveryRestOfList ==
  ASSUME CastTypes, ToEverybody, EveryInv, NEW n \in Node, RestOfList(n)
  PROVE  EveryInv'
<1> DEFINE j == ToRest(n)
<1>1. MulticastTypeOK /\ RestAll(n) \subseteq Node
  BY DEF CastTypes, RestAll, MulticastAssumption
<1>2. JobBecomes(n, j) /\ job[n].at = "children"
  BY <1>1, TransmitSteps
<1>3. job[n] # NoJob
  BY <1>1, <1>2, JobsOfKids
<1>4. job[n].all /\ (moved = 0 => DownTheTree)
  BY <1>3 DEF EveryInv, RootToAll, JobToAll
<1>5. SameWrite(n, j) /\ j.list = RestAll(n) /\ j.at = "rest" /\ j.kids = {} /\ j.ok = job[n].ok
  BY <1>1, <1>4, JobFields
<1> HIDE DEF j
<1>6. j # NoJob /\ UNCHANGED <<above, mode, copies, inbox, spoiled, moved>>
  BY <1>5 DEF NoJob, RestOfList
<1>7. RootToAll' /\ \A l \in Node \ {Root} : JobToAll(l)' /\ BoxToAll(l)'
  BY <1>2, <1>3, <1>5, <1>6, ToAllKept
<1>8. moved = 0 => DownTheTree'
  BY <1>2, <1>3, <1>4, <1>5, <1>6, TreeKept DEF JobBecomes
<1> QED
  BY <1>6, <1>7, <1>8 DEF EveryInv

\* Only the root has a list, of itself.
LEMMA RestIsRoot ==
  ASSUME CastTypes, ToEverybody, EveryInv, NEW n \in Node, NEW k \in Node, InRest(n, k)
  PROVE  /\ n = Root /\ k = Root /\ mode = "any" /\ job[n] # NoJob
         /\ inbox[Root] = <<>> /\ copies[Root] = 0 /\ job[Root].list = {Root}
<1>1. k \in job[n].list /\ MulticastTypeOK
  BY DEF InRest, CastTypes
<1>2. n = Root
  BY <1>1 DEF EveryInv, JobToAll
<1>3. RootToAll /\ job[Root].list # {}
  BY <1>1, <1>2 DEF EveryInv
<1>4. k = Root /\ mode = "any" /\ job[Root].list = {Root}
  BY <1>1, <1>2, <1>3 DEF RootToAll, RestAll
<1>5. inbox[Root] = <<>> /\ copies[Root] = 0
  BY <1>3 DEF RootToAll
<1> QED
  BY <1>1, <1>2, <1>4, <1>5, JobsOfKids

LEMMA EveryRestFails ==
  ASSUME CastTypes, ToEverybody, EveryInv, NEW n \in Node, NEW k \in Node, RestFails(n, k)
  PROVE  EveryInv'
<1> DEFINE j == Failed(n, job[n].list \ {k})
<1>1. MulticastTypeOK /\ (moved = 0 => DownTheTree)
  BY DEF CastTypes, EveryInv
<1>2. JobBecomes(n, j) /\ InRest(n, k)
  BY <1>1, TransmitSteps
<1>3. n = Root /\ k = Root /\ job[n] # NoJob /\ job[Root].list = {Root} /\ job[n].at = "rest"
  BY <1>2, RestIsRoot DEF InRest
<1>4. SameWrite(n, j) /\ j.list = job[n].list \ {k} /\ j.at = job[n].at /\ j.kids = {}
  BY <1>1, JobFields
<1> HIDE DEF j
<1>5. j # NoJob /\ j.list = {} /\ j.at = "rest"
  BY <1>3, <1>4 DEF NoJob
<1>6. UNCHANGED <<above, mode, copies, inbox, moved>> /\ spoiled' = spoiled \union {Root}
  BY <1>3 DEF RestFails, Fail
<1>7. RootToAll' /\ \A l \in Node \ {Root} : JobToAll(l)' /\ BoxToAll(l)'
  BY <1>2, <1>3, <1>4, <1>5, <1>6, ToAllKept
<1>8. moved = 0 => DownTheTree'
  BY <1>1, <1>2, <1>3, <1>4, <1>5, <1>6, TreeKept DEF JobBecomes
<1> QED
  BY <1>6, <1>7, <1>8 DEF EveryInv

LEMMA EveryServesRest ==
  ASSUME CastTypes, ToEverybody, EveryInv, NEW n \in Node, NEW k \in Node, ServeRest(n, k)
  PROVE  EveryInv'
<1> DEFINE j == ServedRest(n, k)
<1>1. MulticastTypeOK /\ (moved = 0 => DownTheTree) /\ RootToAll
      /\ \A l \in Node \ {Root} : JobToAll(l) /\ BoxToAll(l)
  BY DEF CastTypes, EveryInv
<1>2. JobBecomes(n, j) /\ InRest(n, k)
  BY <1>1, TransmitSteps
<1>3. n = Root /\ k = Root /\ job[n] # NoJob /\ job[Root].list = {Root} /\ job[n].at = "rest"
      /\ inbox[Root] = <<>> /\ copies[Root] = 0 /\ mode = "any"
  BY <1>2, RestIsRoot DEF InRest
<1>4. SameWrite(n, j) /\ j.list = job[n].list \ {k} /\ j.at = job[n].at /\ j.kids = job[n].kids
  BY <1>1, JobFields
<1> HIDE DEF j
<1>5. j # NoJob /\ j.list = {} /\ j.at = "rest"
  BY <1>3, <1>4 DEF NoJob
<1>6. UNCHANGED <<above, mode, copies, moved, spoiled>> /\ inbox' = [inbox EXCEPT ![Root] = Append(@, Alone)]
  BY <1>3 DEF ServeRest, Deliver
<1>7. /\ job'[Root] = j /\ inbox'[Root] = Append(inbox[Root], Alone)
      /\ \A l \in Node \ {Root} : job'[l] = job[l] /\ inbox'[l] = inbox[l]
  BY <1>1, <1>2, <1>3, <1>6 DEF JobBecomes, MulticastTypeOK
<1>8. inbox'[Root] = <<Alone>>
  BY <1>3, <1>7
<1>9. RootToAll'
  BY <1>1, <1>3, <1>4, <1>5, <1>6, <1>7, <1>8 DEF RootToAll, SameWrite
<1>10. \A l \in Node \ {Root} : JobToAll(l)' /\ BoxToAll(l)'
  BY <1>1, <1>7 DEF JobToAll, BoxToAll
<1>11. moved = 0 => DownTheTree'
  <2> HAVE moved = 0
  <2>1. job' = [job EXCEPT ![n] = j] /\ j.kids \subseteq job[n].kids /\ n = Root /\ DownTheTree
    BY <1>1, <1>2, <1>3, <1>4 DEF JobBecomes
  <2>2. \A l \in Node \ {Root} : /\ inbox'[l] = inbox[l] /\ copies'[l] = copies[l]
                                 /\ l \in spoiled' <=> l \in spoiled
    BY <1>6, <1>7
  <2> QED
    BY <1>6, <2>1, <2>2, TreeKept
<1> QED
  BY <1>6, <1>9, <1>10, <1>11 DEF EveryInv

LEMMA EveryReadsOwn ==
  ASSUME CastTypes, ToEverybody, EveryInv, NEW n \in Node, ReadOwn(n)
  PROVE  EveryInv'
<1>1. /\ RootToAll /\ (\A l \in Node \ {Root} : JobToAll(l) /\ BoxToAll(l))
      /\ moved = 0 => DownTheTree
      /\ MulticastTypeOK /\ Root \in Node
  BY DEF EveryInv, CastTypes, MulticastAssumption
<1>2. /\ job[n] = NoJob /\ inbox[n] # <<>> /\ ~ Head(inbox[n]).all
      /\ copies' = [copies EXCEPT ![n] = IF Head(inbox[n]).self THEN @ + 1 ELSE @]
      /\ inbox' = [inbox EXCEPT ![n] = Tail(@)]
      /\ UNCHANGED <<above, mode, wanted, job, moved, spoiled>>
  BY DEF ReadOwn
<1>3. n = Root
  <2>1. inbox[n] \in Seq(Message)
    BY <1>1 DEF MulticastTypeOK
  <2>2. 1 \in 1 .. Len(inbox[n]) /\ Head(inbox[n]) = inbox[n][1]
    BY <1>2, <2>1
  <2>3. n # Root => Head(inbox[n]) = ToAll
    BY <1>1, <2>2 DEF BoxToAll
  <2> QED
    BY <1>2, <2>3 DEF ToAll
<1>4. inbox[Root] = <<Alone>> /\ copies[Root] = 0 /\ mode = "any"
  BY <1>1, <1>2, <1>3 DEF RootToAll
<1>5. Head(<<Alone>>) = Alone /\ Tail(<<Alone>>) = <<>> /\ Alone.self
  BY DEF Alone
<1>6. /\ inbox'[Root] = <<>> /\ copies'[Root] = 1
      /\ \A l \in Node \ {Root} : copies'[l] = copies[l] /\ inbox'[l] = inbox[l]
  BY <1>1, <1>2, <1>3, <1>4, <1>5 DEF MulticastTypeOK
<1>7. job[Root].list = {} /\ job[Root].at = "none"
  BY <1>2, <1>3 DEF NoJob
<1>8. RootToAll'
  BY <1>1, <1>2, <1>4, <1>6, <1>7 DEF RootToAll
<1>9. \A l \in Node \ {Root} : JobToAll(l)' /\ BoxToAll(l)'
  BY <1>1, <1>2, <1>6 DEF JobToAll, BoxToAll
<1>10. moved = 0 => DownTheTree'
  <2> HAVE moved = 0
  <2>1. DownTheTree /\ job' = [job EXCEPT ![Root] = job[Root]] /\ above' = above /\ Root \in Node
        /\ job[Root].kids \subseteq job[Root].kids
    BY <1>1, <1>2 DEF MulticastTypeOK
  <2>2. \A l \in Node \ {Root} : /\ inbox'[l] = inbox[l] /\ copies'[l] = copies[l]
                                 /\ l \in spoiled' <=> l \in spoiled
    BY <1>2, <1>6
  <2> QED
    BY <2>1, <2>2, TreeKept
<1> QED
  BY <1>2, <1>8, <1>9, <1>10, <1>1 DEF EveryInv

LEMMA EveryForwards ==
  ASSUME CastTypes, ToEverybody, EveryInv, NEW n \in Node, ReadForward(n)
  PROVE  EveryInv'
<1>1. /\ RootToAll /\ (\A l \in Node \ {Root} : JobToAll(l) /\ BoxToAll(l))
      /\ moved = 0 => DownTheTree
      /\ MulticastTypeOK /\ Root \in Node /\ inbox[n] \in Seq(Message)
  BY DEF EveryInv, CastTypes, MulticastAssumption, MulticastTypeOK
<1> DEFINE m == Head(inbox[n])
<1>2. /\ job[n] = NoJob /\ inbox[n] # <<>> /\ (m.all \/ m.list # {})
      /\ Begin(n, Transmit(m.list, m.self, m.all, m.self))
      /\ inbox' = [inbox EXCEPT ![n] = Tail(@)]
      /\ UNCHANGED <<above, mode, wanted, copies, moved>>
  BY DEF ReadForward
<1>3. n # Root
  <2>1. Head(<<Alone>>) = Alone /\ ~ Alone.all /\ Alone.list = {}
    BY DEF Alone
  <2> QED
    BY <1>1, <1>2, <2>1 DEF RootToAll
<1>4. m = ToAll
  <2>1. 1 \in 1 .. Len(inbox[n]) /\ Head(inbox[n]) = inbox[n][1]
    BY <1>1, <1>2
  <2> QED
    BY <1>1, <1>3, <2>1 DEF BoxToAll
<1> HIDE DEF m
<1> DEFINE t == Transmit({}, TRUE, TRUE, TRUE)
<1>5. Begin(n, t)
  BY <1>2, <1>4 DEF ToAll
<1>6. /\ t \in Job /\ t.kids = {} /\ t.list = {} /\ t.at = "children"
      /\ t.self /\ t.all /\ t.keep /\ t.ok
  BY TransmitIsJob DEF Transmit
<1> HIDE DEF t
<1>14. PICK j \in Job : Starts(n, t, j)
  BY <1>1, <1>5, <1>6, BeginStarts
<1>7. /\ j.at = "children" /\ j.list = {} /\ j.self /\ j.all /\ j.keep /\ j.ok /\ j # NoJob
      /\ job' = [job EXCEPT ![n] = j]
  BY <1>6, <1>14 DEF NoJob, Starts
<1>12. PICK unserved :
         /\ (unserved = {} /\ j.kids = Children(n)) \/ (unserved = Subnet(n) /\ j.kids = {})
         /\ spoiled' = spoiled \union unserved
  <2>1. \/ j.kids = Children(n) /\ spoiled' = spoiled \union {}
        \/ j.kids = {} /\ spoiled' = spoiled \union Subnet(n)
    BY <1>7, <1>14 DEF Starts
  <2> QED
    BY <2>1
<1>8. /\ job'[n] = j /\ inbox'[n] = Tail(inbox[n])
      /\ \A l \in Node \ {n} : job'[l] = job[l] /\ inbox'[l] = inbox[l]
  BY <1>1, <1>2, <1>7 DEF MulticastTypeOK
<1>9. RootToAll'
  BY <1>1, <1>2, <1>3, <1>8 DEF RootToAll, RestAll
<1>10. \A l \in Node \ {Root} : JobToAll(l)' /\ BoxToAll(l)'
  <2> TAKE l \in Node \ {Root}
  <2>1. JobToAll(l) /\ BoxToAll(l)
    BY <1>1
  <2>2. CASE l = n
    <3>1. JobToAll(l)'
      BY <1>7, <1>8, <2>2 DEF JobToAll
    <3>2. \A i \in 1 .. Len(Tail(inbox[n])) : i + 1 \in 1 .. Len(inbox[n]) /\ Tail(inbox[n])[i] = inbox[n][i + 1]
      BY <1>1, <1>2
    <3>3. BoxToAll(l)'
      BY <1>8, <2>1, <2>2, <3>2 DEF BoxToAll
    <3> QED
      BY <3>1, <3>3
  <2>3. CASE l # n
    <3>1. job'[l] = job[l] /\ inbox'[l] = inbox[l]
      BY <1>8, <2>3
    <3> QED
      BY <2>1, <3>1 DEF JobToAll, BoxToAll
  <2> QED
    BY <2>2, <2>3
<1>11. ASSUME moved = 0 PROVE DownTheTree'
  <2>1. DownTheTree /\ OneCopy(n) /\ n \in Node
    BY <1>1, <1>3, <1>11 DEF DownTheTree
  <2>2. ~ Begun(n) /\ Len(inbox[n]) =< 1 /\ ~ Fresh(n) /\ copies[n] = 0 /\ n \notin spoiled
    <3>1. ~ Begun(n) /\ Len(inbox[n]) =< 1 /\ ~ Fresh(n) /\ n \notin spoiled
      BY <1>2, <2>1 DEF OneCopy, Fresh, Begun
    <3>2. copies[n] \in Nat
      BY <1>1 DEF MulticastTypeOK
    <3> QED
      BY <3>1, <3>2 DEF Begun
  <2>3. inbox'[n] = <<>> /\ Len(inbox'[n]) = 0
    <3>3. \A S : \A s \in Seq(S) :
            s # <<>> /\ Len(s) =< 1 => Len(s) = 1 /\ Tail(s) \in Seq(S) /\ Len(Tail(s)) = 0
      <4> SUFFICES ASSUME NEW S, NEW s \in Seq(S), s # <<>>, Len(s) =< 1
                   PROVE  Len(s) = 1 /\ Tail(s) \in Seq(S) /\ Len(Tail(s)) = 0
        OBVIOUS
      <4>1. Len(s) \in Nat /\ Len(s) # 0
        OBVIOUS
      <4>2. Len(s) = 1
        <5>1. \A i \in Nat : i # 0 /\ i =< 1 => i = 1
          OBVIOUS
        <5> QED
          BY <4>1, <5>1, Zenon
      <4>3. Tail(s) \in Seq(S) /\ Len(Tail(s)) = Len(s) - 1
        OBVIOUS
      <4> QED
        BY <4>2, <4>3
    <3>4. \A S : \A s \in Seq(S) : Len(s) = 0 => s = <<>>
      OBVIOUS
    <3>1. Tail(inbox[n]) \in Seq(Message) /\ Len(Tail(inbox[n])) = 0
      BY <1>1, <1>2, <2>2, <3>3
    <3>2. Tail(inbox[n]) = <<>>
      BY <3>1, <3>4
    <3> QED
      BY <1>8, <3>1, <3>2
  \* Those who are below a node that had not begun have nothing yet.
  <2>8. \A l \in Node : l \in unserved => n \in above[l] /\ Fresh(l) /\ l # n
    <3>1. \A l \in Node : l \in unserved => n \in above[l]
      BY <1>12 DEF Subnet
    <3>2. \A l \in Node : n \in above[l] => Fresh(l)
      BY <2>1, <2>2 DEF DownTheTree, BelowIsFresh
    <3> QED
      BY <2>2, <3>1, <3>2
  <2>4. \A p \in Node : /\ Begun(p) \/ p = n => Begun(p)'
                        /\ p # n => /\ Begun(p)' <=> Begun(p) \/ p \in unserved
                                    /\ Fresh(p)' <=> Fresh(p) /\ p \notin unserved
    BY <1>2, <1>7, <1>8, <1>12 DEF Begun, Fresh
  <2>5. \A l \in Node \ {Root} : OneCopy(l)'
    <3> TAKE l \in Node \ {Root}
    <3>1. OneCopy(l)
      BY <2>1 DEF DownTheTree
    <3>2. CASE l = n
      <4>1. inbox'[l] = <<>> /\ Len(inbox'[l]) = 0 /\ copies'[l] = 0 /\ job'[l].ok
        BY <1>2, <1>7, <1>8, <2>2, <2>3, <3>2
      <4> QED
        BY <4>1 DEF OneCopy
    <3>3. CASE l # n
      <4>1. inbox'[l] = inbox[l] /\ copies'[l] = copies[l] /\ spoiled \subseteq spoiled'
            /\ job'[l] = job[l]
        BY <1>2, <1>8, <1>12, <3>3
      <4>2. inbox[l] # <<>> => ~ Begun(l)'
        <5>1. l \in unserved => inbox[l] = <<>>
          BY <2>8 DEF Fresh
        <5> QED
          BY <2>4, <3>1, <3>3, <5>1 DEF OneCopy
      <4> QED
        BY <3>1, <4>1, <4>2 DEF OneCopy
    <3> QED
      BY <3>2, <3>3
  <2>9. \A p \in Node : p \in above[n] => Begun(p)
    BY <2>1, <2>2, AboveHasBegun
  <2>6. BelowIsFresh'
    <3>1. ASSUME NEW p \in Node, NEW l \in Node, p \in above[l], ~ Begun(p), p \notin unserved, p # n
          PROVE  Fresh(l) /\ l # n /\ l \notin unserved
      <4>1. Fresh(l)
        BY <2>1, <3>1 DEF DownTheTree, BelowIsFresh
      <4>2. l # n
        BY <2>2, <4>1
      <4>3. ASSUME l \in unserved PROVE FALSE
        <5>1. n \in above[l] /\ unserved = Subnet(n)
          BY <1>12, <2>8, <4>3
        <5>2. p \in above[n] \/ n \in above[p]
          BY <1>11, <3>1, <5>1, LineOfParents
        <5> QED
          BY <2>9, <3>1, <5>1, <5>2 DEF Subnet
      <4> QED
        BY <4>1, <4>2, <4>3
    <3>2. above' = above
      BY <1>2
    <3> QED
      BY <2>4, <3>1, <3>2 DEF BelowIsFresh
  <2>7. KidsAreFresh'
    <3> SUFFICES ASSUME NEW p \in Node, NEW k \in job'[p].kids
                 PROVE  k \in Children(p)' /\ Fresh(k)'
      BY DEF KidsAreFresh
    <3>1. Children(p)' = Children(p)
      BY <1>2 DEF Children
    <3>2. CASE p = n
      <4>1. k \in j.kids /\ j.kids = Children(n) /\ unserved = {} /\ k \in Node
        BY <1>8, <1>12, <3>2 DEF Children
      <4>2. k # n /\ n \in above[k]
        BY <1>11, <4>1, LineOfParents
      <4>3. Fresh(k)
        BY <2>1, <2>2, <4>1, <4>2 DEF DownTheTree, BelowIsFresh
      <4> QED
        BY <2>4, <3>1, <3>2, <4>1, <4>2, <4>3
    <3>3. CASE p # n
      <4>1. k \in job[p].kids
        BY <1>8, <3>3
      <4>2. k \in Children(p) /\ Fresh(k) /\ k \in Node
        BY <2>1, <4>1 DEF DownTheTree, KidsAreFresh, Children
      <4>3. k # n
        BY <2>2, <4>2
      <4>4. ASSUME k \in unserved PROVE FALSE
        <5>1. n \in above[p]
          BY <2>8, <3>3, <4>2, <4>4 DEF Children
        <5>2. Fresh(p)
          BY <2>1, <2>2, <5>1 DEF DownTheTree, BelowIsFresh
        <5> QED
          BY <1>1, <4>1, <5>2, JobsOfKids DEF Fresh
      <4> QED
        BY <2>4, <3>1, <4>2, <4>3, <4>4
    <3> QED
      BY <3>2, <3>3
  <2> QED
    BY <2>5, <2>6, <2>7 DEF DownTheTree
<1> QED
  BY <1>2, <1>9, <1>10, <1>11 DEF EveryInv

LEMMA EveryEnds ==
  ASSUME CastTypes, ToEverybody, EveryInv, NEW n \in Node, TransmitEnd(n)
  PROVE  EveryInv'
<1>1. /\ RootToAll /\ (\A l \in Node \ {Root} : JobToAll(l) /\ BoxToAll(l))
      /\ moved = 0 => DownTheTree
      /\ MulticastTypeOK /\ Root \in Node /\ copies[n] \in Nat /\ job[n] \in Job
  BY DEF EveryInv, CastTypes, MulticastAssumption, MulticastTypeOK
<1>2. /\ job[n].at = "rest" /\ job[n].list = {}
      /\ job' = [job EXCEPT ![n] = NoJob]
      /\ copies' = [copies EXCEPT ![n] = IF job[n].keep /\ job[n].ok THEN @ + 1 ELSE @]
      /\ UNCHANGED <<above, mode, wanted, inbox, moved, spoiled>>
  BY DEF TransmitEnd
<1>3. job[n] # NoJob
  BY <1>1, <1>2, JobsOfKids
<1>4. NoJob.list = {} /\ NoJob.kids = {} /\ ~ NoJob.keep /\ NoJob.at = "none"
  BY DEF NoJob
<1>5. /\ job'[n] = NoJob /\ copies'[n] = IF job[n].keep /\ job[n].ok THEN copies[n] + 1 ELSE copies[n]
      /\ \A l \in Node \ {n} : job'[l] = job[l] /\ copies'[l] = copies[l]
  BY <1>1, <1>2 DEF MulticastTypeOK
<1>6. n = Root => copies' = copies
  BY <1>1, <1>2 DEF RootToAll, MulticastTypeOK
<1>7. copies'[Root] = copies[Root]
  BY <1>1, <1>5, <1>6
<1>8. RootToAll'
  <2>1. CASE n = Root
    BY <1>1, <1>2, <1>4, <1>5, <1>7, <2>1 DEF RootToAll
  <2>2. CASE n # Root
    <3>1. job'[Root] = job[Root]
      BY <1>1, <1>5, <2>2
    <3> QED
      BY <1>1, <1>2, <1>7, <3>1 DEF RootToAll, RestAll
  <2> QED
    BY <2>1, <2>2
<1>9. \A l \in Node \ {Root} : JobToAll(l)' /\ BoxToAll(l)'
  BY <1>1, <1>2, <1>4, <1>5 DEF JobToAll, BoxToAll
<1>10. ASSUME moved = 0, n = Root PROVE DownTheTree'
  <2>1. DownTheTree
    BY <1>1, <1>10
  <2>2. \A l \in Node \ {Root} : /\ inbox'[l] = inbox[l] /\ copies'[l] = copies[l]
                                 /\ l \in spoiled' <=> l \in spoiled
    BY <1>2, <1>5, <1>10
  <2> QED
    BY <1>2, <1>4, <1>10, <2>1, <2>2, TreeKept
<1>11. ASSUME moved = 0, n # Root PROVE DownTheTree'
  <2>1. DownTheTree /\ OneCopy(n) /\ job[n].keep
    BY <1>1, <1>3, <1>11 DEF DownTheTree, JobToAll
  <2>2. ~ Fresh(n) /\ Begun(n) /\ copies[n] = 0 /\ inbox[n] = <<>> /\ (~ job[n].ok => n \in spoiled)
    BY <1>3, <2>1 DEF Fresh, Begun, OneCopy
  <2>3. \A p \in Node : Begun(p)' <=> Begun(p)
    <3> TAKE p \in Node
    <3>1. CASE p = n
      <4>1. copies'[n] = 1 \/ n \in spoiled'
        BY <1>2, <1>5, <2>1, <2>2
      <4> QED
        BY <2>2, <3>1, <4>1 DEF Begun
    <3>2. CASE p # n
      BY <1>2, <1>5, <3>2 DEF Begun
    <3> QED
      BY <3>1, <3>2
  <2>4. \A l \in Node \ {n} : Fresh(l)' <=> Fresh(l)
    BY <1>2, <1>5 DEF Fresh
  <2>5. \A l \in Node \ {Root} : OneCopy(l)'
    <3> TAKE l \in Node \ {Root}
    <3>1. OneCopy(l)
      BY <2>1 DEF DownTheTree
    <3>2. CASE l = n
      <4>1. job'[l] = NoJob /\ inbox'[l] = <<>> /\ copies'[l] =< 1 /\ inbox'[l] = inbox[l]
        BY <1>2, <1>5, <2>2, <3>2
      <4> QED
        BY <3>1, <4>1 DEF OneCopy
    <3>3. CASE l # n
      <4>1. inbox'[l] = inbox[l] /\ copies'[l] = copies[l] /\ (Begun(l)' <=> Begun(l)) /\ spoiled' = spoiled
            /\ job'[l] = job[l]
        BY <1>2, <1>5, <2>3, <3>3
      <4> QED
        BY <3>1, <4>1 DEF OneCopy
    <3> QED
      BY <3>2, <3>3
  <2>6. BelowIsFresh'
    BY <1>2, <2>1, <2>2, <2>3, <2>4 DEF DownTheTree, BelowIsFresh
  <2>7. KidsAreFresh'
    <3>1. \A p \in Node : job'[p].kids \subseteq job[p].kids
      BY <1>4, <1>5
    <3>2. \A p \in Node : Children(p)' = Children(p)
      BY <1>2 DEF Children
    <3>3. \A p \in Node : \A k \in job[p].kids : k \in Node /\ k # n
      BY <2>1, <2>2 DEF DownTheTree, KidsAreFresh, Children
    <3> QED
      BY <2>1, <2>4, <3>1, <3>2, <3>3 DEF DownTheTree, KidsAreFresh
  <2> QED
    BY <2>5, <2>6, <2>7 DEF DownTheTree
<1> QED
  BY <1>2, <1>8, <1>9, <1>10, <1>11 DEF EveryInv

LEMMA EveryFails ==
  ASSUME CastTypes, ToEverybody, EveryInv, NEW n \in Node, NEW k \in Node, ServeFails(n, k)
  PROVE  EveryInv'
<1> DEFINE j == Failed(n, LeftAfter(n, k))
           unserved == UNION {{m} \union Subnet(m) : m \in job[n].kids}
<1>1. /\ MulticastTypeOK /\ job[n].kids \subseteq Node /\ Root \notin job[n].kids /\ Root \in Node
      /\ moved = 0 => DownTheTree
  BY DEF EveryInv, CastTypes, CastShape, MulticastTypeOK, MulticastAssumption, Job
<1>2. JobBecomes(n, j) /\ job[n].at = "children" /\ k \in job[n].kids
  BY <1>1, TransmitSteps
<1>3. job[n] # NoJob
  BY <1>1, <1>2, JobsOfKids
<1>4. job[n].all /\ job[n].list = {}
  BY <1>2, <1>3 DEF EveryInv, JobToAll, RootToAll
<1>5. ForChild(n, k).all /\ LeftAfter(n, k) = {}
  BY <1>4 DEF ForChild, LeftAfter
<1>6. /\ spoiled' = spoiled \union {n} \union unserved
      /\ UNCHANGED <<above, mode, wanted, inbox, copies, moved>>
  BY <1>5 DEF ServeFails, Fail
<1>7. SameWrite(n, j) /\ j.list = {} /\ j.at = "children" /\ j.kids = {}
  BY <1>1, <1>2, <1>5, JobFields
<1> HIDE DEF j
<1>8. j # NoJob
  BY <1>7 DEF NoJob
<1>9. RootToAll' /\ \A l \in Node \ {Root} : JobToAll(l)' /\ BoxToAll(l)'
  <2>1. j.list \subseteq RestAll(n)
    BY <1>7
  <2> QED
    BY <1>2, <1>3, <1>6, <1>7, <1>8, <2>1, ToAllKept
<1>10. \A l \in Node : l \in unserved <=> \E m \in job[n].kids : l = m \/ m \in above[l]
  BY <1>1 DEF Subnet
<1> HIDE DEF unserved
<1>11. job'[n] = j /\ \A l \in Node \ {n} : job'[l] = job[l]
  BY <1>1, <1>2 DEF JobBecomes, MulticastTypeOK
<1>12. ASSUME moved = 0 PROVE DownTheTree'
  <2>1. /\ DownTheTree /\ Begun(n) /\ ~ Fresh(n)
        /\ \A m \in job[n].kids : m \in Children(n) /\ Fresh(m) /\ m # Root /\ ~ Begun(m) /\ m \in Node
    BY <1>1, <1>3, <1>12 DEF DownTheTree, KidsAreFresh, Begun, Fresh
  \* Those that the call was to serve have nothing yet.
  <2>2. \A l \in Node : l \in unserved => Fresh(l)
    BY <1>10, <2>1 DEF DownTheTree, BelowIsFresh
  <2>3. \A m \in job[n].kids : \A p \in Node : p \in above[m] => Begun(p)
    <3> TAKE m \in job[n].kids
    <3> TAKE p \in Node
    <3>1. p \in above[m] => p \in above[n] \/ p = n
      BY <1>12, <2>1, LineOfParents
    <3> QED
      BY <2>1, <3>1, AboveHasBegun
  <2>4. \A p \in Node : Begun(p)' <=> Begun(p) \/ p \in unserved
    BY <1>3, <1>6, <1>8, <1>11, <2>1 DEF Begun
  <2>5. \A l \in Node : Fresh(l)' <=> Fresh(l) /\ l \notin unserved
    BY <1>3, <1>6, <1>8, <1>11, <2>1 DEF Fresh
  <2>6. \A l \in Node \ {Root} : OneCopy(l)'
    <3> TAKE l \in Node \ {Root}
    <3>1. OneCopy(l)
      BY <2>1 DEF DownTheTree
    <3>2. inbox'[l] = inbox[l] /\ copies'[l] = copies[l] /\ (job'[l] # NoJob <=> job[l] # NoJob)
          /\ spoiled \subseteq spoiled'
      BY <1>3, <1>6, <1>8, <1>11
    <3>3. inbox[l] # <<>> => ~ Begun(l)'
      <4>1. l \in unserved => inbox[l] = <<>>
        BY <2>2 DEF Fresh
      <4> QED
        BY <2>4, <3>1, <4>1 DEF OneCopy
    <3>4. job'[l] # NoJob /\ ~ job'[l].ok => l \in spoiled'
      <4>1. CASE l = n
        BY <1>6, <4>1
      <4>2. CASE l # n
        <5>1. job'[l] = job[l]
          BY <1>11, <4>2
        <5> QED
          BY <3>1, <3>2, <5>1 DEF OneCopy
      <4> QED
        BY <4>1, <4>2
    <3> QED
      BY <3>1, <3>2, <3>3, <3>4 DEF OneCopy
  <2>7. BelowIsFresh'
    <3>1. ASSUME NEW p \in Node, NEW l \in Node, p \in above[l], ~ Begun(p), p \notin unserved
          PROVE  Fresh(l) /\ l \notin unserved
      <4>1. Fresh(l)
        BY <2>1, <3>1 DEF DownTheTree, BelowIsFresh
      <4>2. ASSUME NEW m \in job[n].kids, l = m \/ m \in above[l] PROVE FALSE
        <5>1. m \in Node /\ p # m /\ m \notin above[p]
          BY <1>10, <2>1, <3>1
        <5>2. p \notin above[m]
          BY <2>3, <3>1
        <5>3. m \in above[l]
          BY <3>1, <4>2, <5>2
        <5> QED
          BY <1>12, <3>1, <5>1, <5>2, <5>3, LineOfParents
      <4> QED
        BY <1>10, <4>1, <4>2
    <3> QED
      BY <1>6, <2>4, <2>5, <3>1 DEF BelowIsFresh
  <2>8. KidsAreFresh'
    <3> SUFFICES ASSUME NEW p \in Node, NEW l \in job'[p].kids
                 PROVE  l \in Children(p)' /\ Fresh(l)'
      BY DEF KidsAreFresh
    <3>1. Children(p)' = Children(p) /\ p # n /\ l \in job[p].kids
      BY <1>6, <1>7, <1>11 DEF Children
    <3>2. l \in Children(p) /\ Fresh(l) /\ l \in Node /\ p \in above[l] /\ above[l] = above[p] \union {p}
      BY <1>12, <2>1, <3>1, LineOfParents DEF DownTheTree, KidsAreFresh, Children
    <3>3. ~ Fresh(p)
      BY <1>1, <3>1, JobsOfKids DEF Fresh
    <3>4. ASSUME NEW m \in job[n].kids, l = m \/ m \in above[l] PROVE FALSE
      <4>1. CASE l = m
        BY <1>12, <2>1, <3>1, <3>2, <4>1, OneParent
      <4>2. CASE m \in above[p]
        BY <2>1, <3>3, <4>2, AboveHasBegun
      <4>3. CASE m = p
        BY <2>1, <3>3, <4>3
      <4> QED
        BY <3>2, <3>4, <4>1, <4>2, <4>3
    <3>5. l \notin unserved
      BY <1>10, <3>2, <3>4
    <3> QED
      BY <2>5, <3>1, <3>2, <3>5
  <2> QED
    BY <2>6, <2>7, <2>8 DEF DownTheTree
<1> QED
  BY <1>6, <1>9, <1>12 DEF EveryInv

\* A message to everybody asks no subtree for its list of nodes.
LEMMA NobodyAsksForSubnets ==
  ASSUME CastTypes, ToEverybody, EveryInv, NEW n \in Node, NEW k \in Node,
         SubnetFails(n, k) \/ SubnetListFails(n, k)
  PROVE  FALSE
<1>1. MulticastTypeOK
  BY DEF CastTypes
<1>2. job[n].at = "children" /\ ~ job[n].all
  BY <1>1, TransmitSteps
<1>3. job[n] # NoJob
  BY <1>1, <1>2, JobsOfKids
<1> QED
  BY <1>2, <1>3 DEF EveryInv, RootToAll, JobToAll

LEMMA EveryBegins ==
  ASSUME CastTypes, NEW m \in Modes \ {"list"}, RootWriteAll(m)
  PROVE  EveryInv'
<1>1. MulticastTypeOK /\ NothingSent /\ Root \in Node /\ m \in {"any", "broadcast"} /\ above[Root] = {}
  BY DEF CastTypes, CastShape, RootWriteAll, MulticastAssumption
<1> DEFINE t == Transmit({}, TRUE, TRUE, FALSE)
<1>12. Begin(Root, t) /\ UNCHANGED <<above, inbox, copies, moved>>
  BY DEF RootWriteAll
<1>13. /\ t \in Job /\ t.kids = {} /\ t.list = {} /\ t.at = "children"
       /\ t.self /\ t.all /\ ~ t.keep
  BY TransmitIsJob DEF Transmit
<1> HIDE DEF t
<1>14. PICK j \in Job : Starts(Root, t, j)
  BY <1>1, <1>12, <1>13, BeginStarts
<1>4. j.at = "children" /\ j.list = {} /\ j.self /\ j.all /\ ~ j.keep /\ j # NoJob
  BY <1>13, <1>14 DEF NoJob, Starts
<1>2. job' = [job EXCEPT ![Root] = j] /\ UNCHANGED <<above, inbox, copies, moved>>
  BY <1>12, <1>14 DEF Starts
<1>15. PICK unserved :
         /\ (unserved = {} /\ j.kids = Children(Root)) \/ (unserved = Subnet(Root) /\ j.kids = {})
         /\ spoiled' = spoiled \union unserved
  BY <1>4, <1>14 DEF Starts
<1>5. (\A k \in Node : inbox[k] = <<>> /\ copies[k] = 0 /\ job[k] = NoJob) /\ spoiled = {}
  BY <1>1 DEF NothingSent
<1>6. job'[Root] = j /\ \A k \in Node \ {Root} : job'[k] = NoJob
  BY <1>1, <1>2, <1>5 DEF MulticastTypeOK
<1>7. NoJob.list = {} /\ NoJob.kids = {}
  BY DEF NoJob
<1>8. \A k \in Node : inbox'[k] = <<>> /\ copies'[k] = 0 /\ Len(inbox'[k]) = 0
  BY <1>2, <1>5
<1>9. RootToAll'
  BY <1>1, <1>4, <1>6, <1>8 DEF RootToAll
<1>10. \A l \in Node \ {Root} : JobToAll(l)' /\ BoxToAll(l)'
  BY <1>6, <1>7, <1>8 DEF JobToAll, BoxToAll
<1>11. ASSUME moved = 0 PROVE DownTheTree'
  <2>1. \A l \in Node : /\ l # Root => (Fresh(l)' <=> l \notin unserved)
                        /\ Begun(l)' <=> l = Root \/ l \in unserved
    BY <1>2, <1>5, <1>6, <1>8, <1>15 DEF Fresh, Begun
  <2>2. \A l \in Node \ {Root} : OneCopy(l)'
    BY <1>6, <1>8 DEF OneCopy
  <2>6. \A l \in Node : l \in unserved <=> unserved # {} /\ Root \in above[l]
    BY <1>15 DEF Subnet
  <2>3. BelowIsFresh'
    <3>1. ASSUME NEW p \in Node, NEW l \in Node, p \in above[l], p # Root, p \notin unserved
          PROVE  l # Root /\ l \notin unserved
      <4>1. l # Root
        BY <1>1, <3>1
      <4>2. ASSUME l \in unserved PROVE FALSE
        <5>1. p \in above[Root] \/ Root \in above[p]
          BY <1>1, <1>11, <2>6, <3>1, <4>2, LineOfParents
        <5> QED
          BY <1>1, <2>6, <3>1, <4>2, <5>1
      <4> QED
        BY <4>1, <4>2
    <3>2. above' = above
      BY <1>2
    <3> QED
      BY <2>1, <3>1, <3>2 DEF BelowIsFresh
  <2>4. \A k \in Children(Root) : k \in Node \ {Root}
    BY <1>1 DEF Children
  <2>7. \A p \in Node : Children(p)' = Children(p)
    BY <1>2 DEF Children
  <2>5. KidsAreFresh'
    <3> SUFFICES ASSUME NEW p \in Node, NEW k \in job'[p].kids
                 PROVE  k \in Children(p)' /\ Fresh(k)'
      BY DEF KidsAreFresh
    <3>1. p = Root /\ k \in j.kids
      BY <1>6, <1>7
    <3>2. j.kids = Children(Root) /\ unserved = {}
      BY <1>15, <3>1
    <3>3. k \in Children(Root) /\ k \in Node /\ k # Root /\ k \notin unserved
      BY <2>4, <3>1, <3>2
    <3>4. Children(p)' = Children(Root) /\ Fresh(k)'
      BY <2>1, <2>7, <3>1, <3>3
    <3> QED
      BY <3>3, <3>4
  <2> QED
    BY <2>2, <2>3, <2>5 DEF DownTheTree
<1> QED
  BY <1>2, <1>9, <1>10, <1>11 DEF EveryInv

LEMMA EveryStep ==
  ASSUME CastTypes, EveryInv, [MulticastNext]_multicastVars
  PROVE  EveryInv'
<1>1. CASE UNCHANGED multicastVars
  <2>1. \A k \in Node : /\ JobToAll(k)' <=> JobToAll(k)
                        /\ BoxToAll(k)' <=> BoxToAll(k)
                        /\ OneCopy(k)' <=> OneCopy(k)
    BY <1>1 DEF multicastVars, JobToAll, BoxToAll, OneCopy, Begun
  <2>2. RootToAll' <=> RootToAll
    BY <1>1 DEF multicastVars, RootToAll, RestAll
  <2>3. DownTheTree' <=> DownTheTree
    BY <1>1, <2>1 DEF multicastVars, DownTheTree, BelowIsFresh, KidsAreFresh, Begun, Fresh, Children
  <2> QED
    BY <1>1, <2>1, <2>2, <2>3 DEF EveryInv, ToEverybody, multicastVars
<1>2. ASSUME NEW n \in Node, Transmitting(n) \/ Reading(n) PROVE EveryInv'
  <2>1. mode' = mode
    BY <1>2 DEF Transmitting, Reading, ServeChild, ServeFails, SubnetFails, SubnetListFails,
                ServeRest, RestFails, RestOfList, TransmitEnd, ReadOwn, ReadForward
  <2>2. CASE ToEverybody
    BY <1>2, <2>2, EveryServes, EveryFails, NobodyAsksForSubnets, EveryServesRest, EveryRestFails,
       EveryRestOfList, EveryEnds, EveryReadsOwn, EveryForwards DEF Transmitting, Reading
  <2> QED
    BY <2>1, <2>2 DEF EveryInv, ToEverybody
<1>3. ASSUME NEW list \in (SUBSET Node) \ {{}}, RootWriteList(list) PROVE EveryInv'
  BY <1>3 DEF RootWriteList, EveryInv, ToEverybody
<1>4. ASSUME NEW n \in Node, NEW p \in Node, Move(n, p) PROVE EveryInv'
  <2>1. moved \in Nat
    BY DEF CastTypes, MulticastTypeOK, MulticastAssumption
  <2>2. moved' # 0 /\ UNCHANGED <<mode, wanted, inbox, job, copies, failed, spoiled>>
    BY <1>4, <2>1 DEF Move
  <2>3. (RootToAll' <=> RootToAll) /\ \A k \in Node : (JobToAll(k)' <=> JobToAll(k)) /\ (BoxToAll(k)' <=> BoxToAll(k))
    BY <2>2 DEF RootToAll, RestAll, JobToAll, BoxToAll
  <2> QED
    BY <2>2, <2>3 DEF EveryInv, ToEverybody
<1> QED
  BY <1>1, <1>2, <1>3, <1>4, EveryBegins DEF MulticastNext

CastInv == CastTypes /\ ListInv /\ EveryInv

\* Nobody reads a message twice, and nobody one that is not for him: a list is divided
\* among the children whatever nodes move and whatever calls fail, and a message to
\* everybody goes down the tree while nobody moves.
THEOREM ReadOnce == MulticastSpec => []ReadAtMostOnce
<1>1. MulticastInit => CastInv
  <2>1. MulticastInit => mode = "none"
    BY DEF MulticastInit
  <2> QED
    BY <2>1, CastTypesInit DEF CastInv, ListInv, EveryInv, ToEverybody
<1>2. CastInv /\ [MulticastNext]_multicastVars => CastInv'
  BY CastTypesStep, ListStep, EveryStep DEF CastInv
<1>3. CastInv => ReadAtMostOnce
  <2> SUFFICES ASSUME CastInv, NEW n \in Node
               PROVE  /\ copies[n] > 0 => n \in wanted
                      /\ mode = "list" \/ moved = 0 => copies[n] =< 1
    BY DEF ReadAtMostOnce
  <2>1. CastTypes /\ ListInv /\ EveryInv /\ mode \in {"none", "list", "any", "broadcast"}
    BY DEF CastInv, CastTypes, MulticastTypeOK
  <2>2. CASE mode = "none"
    <3>1. copies[n] = 0
      BY <2>1, <2>2 DEF CastTypes, CastShape, NothingSent
    <3> QED
      BY <3>1
  <2>3. CASE mode = "list"
    <3>1. Divided(n)
      BY <2>1, <2>3 DEF ListInv
    <3> QED
      BY <3>1 DEF Divided
  <2>4. CASE ToEverybody
    <3>1. RootToAll /\ (moved = 0 => DownTheTree)
      BY <2>1, <2>4 DEF EveryInv
    <3>2. (mode = "any" => wanted = Node) /\ (mode = "broadcast" => wanted = Node \ {Root})
      BY <2>1 DEF CastTypes, CastShape
    <3>3. copies[n] > 0 => n \in wanted
      BY <2>4, <3>1, <3>2 DEF RootToAll, ToEverybody
    <3>4. moved = 0 => copies[n] =< 1
      BY <3>1 DEF RootToAll, DownTheTree, OneCopy
    <3> QED
      BY <2>4, <3>3, <3>4 DEF ToEverybody
  <2> QED
    BY <2>1, <2>2, <2>3, <2>4 DEF ToEverybody
<1> QED
  BY <1>1, <1>2, <1>3, PTL DEF MulticastSpec

-----------------------------------------------------------------------------
\* Every variable of the three modules of mwifi has its type, whichever part runs.
THEOREM MwifiTypesHold == MwifiSpec => []MwifiTypeOK
<1> DEFINE Inv == TransferTypeOK /\ CastTypes /\ MeshTypeOK
<1>1. MwifiInit => Inv
  BY TransferTypeInit, CastTypesInit, MeshTypeInit DEF MwifiInit
<1>2. Inv /\ [MwifiNext]_mwifiVars => Inv'
  <2> SUFFICES ASSUME Inv, [MwifiNext]_mwifiVars PROVE Inv'
    OBVIOUS
  <2>1. /\ [TransferNext]_transferVars /\ [MulticastNext]_multicastVars /\ [MeshNext]_meshVars
    BY DEF MwifiNext, mwifiVars
  <2> QED
    BY <2>1, TransferTypeStep, CastTypesStep, MeshTypeStep
<1>3. Inv => MwifiTypeOK
  BY DEF MwifiTypeOK, CastTypes
<1> QED
  BY <1>1, <1>2, <1>3, PTL DEF MwifiSpec
=============================================================================
