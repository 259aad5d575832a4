------------------------- MODULE MdebugFlash_proofs -------------------------
(***************************************************************************)
(* The flash log: the reader never gets ahead of what was written, if      *)
(* reads and writes exclude each other, as mdebug.rst says they do; and    *)
(* what it reads is what was logged, whether they do or not.               *)
(***************************************************************************)
EXTENDS MdebugFlash, TLAPS, SequenceTheorems

USE FlashAssumption DEF FlashAssumption, File

Infos == [File -> [size : Nat, offset : Nat]]
InfoOK(i) == i \in Infos /\ \A f \in File : i[f].offset <= i[f].size

WriterType == [at : {"idle", "erase", "data", "save"}, n : Nat]
ReadingType == [at : {"idle", "look", "read", "count"}, room : Nat, i : {0, 1}, file : File, n : Nat, got : Seq(Int)]

\* What is known of the log, and where it is kept.
LogTypes ==
  /\ InfoOK(info) /\ (stored = <<>> \/ \E i \in Infos : InfoOK(i) /\ stored = <<i>>)
  /\ index \in File /\ stamp \in BOOLEAN /\ logReady \in BOOLEAN /\ entry \in Nat
  /\ cells \in [Cell -> Int]

\* Its two tasks: they work on a log that is ready, one at a time, and what the reader
\* asked for is there.
TaskTypes ==
  /\ wr \in WriterType /\ rd \in ReadingType
  /\ ~ logReady => wr.at = "idle" /\ rd.at = "idle"
  /\ wr.at = "idle" \/ rd.at = "idle"
  /\ rd.at \in {"read", "count"} => info[rd.file].offset + rd.n <= info[rd.file].size

FlashInv == LogTypes /\ TaskTypes

LEMMA NoInfoOK == InfoOK(NoInfo)
  BY DEF InfoOK, Infos, NoInfo

LEMMA IdleTypes == IdleWriter \in WriterType /\ IdleReader \in ReadingType
  <1>1. <<>> \in Seq(Int)
    OBVIOUS
  <1>. QED  BY <1>1 DEF IdleWriter, WriterType, IdleReader, ReadingType

LEMMA FlashInvInit == FlashInit => FlashInv
  <1>. SUFFICES ASSUME FlashInit PROVE FlashInv
    OBVIOUS
  <1>1. cells \in [Cell -> Int]
    BY DEF FlashInit, Garbled
  <1>2. LogTypes
    BY <1>1, NoInfoOK DEF FlashInit, LogTypes
  <1>3. TaskTypes
    BY IdleTypes DEF FlashInit, TaskTypes, IdleWriter, IdleReader
  <1>. QED  BY <1>2, <1>3 DEF FlashInv

\* mdebug_flash_init, mdebug_flash_deinit, mdebug_flash_erase and a reset
LEMMA LogKeepsInv ==
  ASSUME FlashInv, LogInit \/ LogDeinit \/ LogReset \/ LogErase
  PROVE  FlashInv'
  <1>. USE DEF FlashInv, LogTypes, TaskTypes
  <1>1. CASE LogInit
    <2>1. InfoOK(info')
      BY <1>1 DEF LogInit
    <2>2. index' \in File
      BY <1>1 DEF LogInit, IndexOf
    <2>3. cells' \in [Cell -> Int]
      BY <1>1 DEF LogInit, Erased
    <2>. QED  BY <1>1, <2>1, <2>2, <2>3 DEF LogInit
  <1>2. CASE LogDeinit
    BY <1>2 DEF LogDeinit
  <1>3. CASE LogReset
    <2>1. InfoOK(info')
      BY <1>3, NoInfoOK DEF LogReset
    <2>. QED  BY <1>3, <2>1, IdleTypes DEF LogReset, IdleWriter, IdleReader
  <1>4. CASE LogErase
    <2>1. cells' \in [Cell -> Int]
      BY <1>4 DEF LogErase, Erased
    <2>. QED  BY <1>4, <2>1 DEF LogErase
  <1>. QED  BY <1>1, <1>2, <1>3, <1>4

\* More in a file does not bring the reader ahead.
LEMMA GrownIsOK ==
  ASSUME NEW i, InfoOK(i), NEW f \in File, NEW n \in Nat
  PROVE  InfoOK([i EXCEPT ![f].size = @ + n])
  BY DEF InfoOK, Infos

LEMMA EmptyIsOK ==
  ASSUME NEW i, InfoOK(i), NEW f \in File
  PROVE  InfoOK([i EXCEPT ![f] = [size |-> 0, offset |-> 0]])
  BY DEF InfoOK, Infos

LEMMA ProgramTypes ==
  ASSUME cells \in [Cell -> Int], entry \in Nat, NEW from, NEW n, Program(from, n)
  PROVE  cells' \in [Cell -> Int]
  BY DEF Program, Garbled

LEMMA EntrySizesAreNat == \A n \in EntrySizes : n \in Nat
  <1>1. FileSize \in Nat /\ EntrySizes \subseteq 1 .. FileSize
    OBVIOUS
  <1>. QED  BY <1>1

LEMMA OtherIsFile == ASSUME NEW f \in File PROVE Other(f) \in File
  BY DEF Other

\* mdebug_flash_write
LEMMA WriterKeepsInv ==
  ASSUME ~ Overlap, FlashInv,
         \/ \E n \in EntrySizes : WriteEntry(n)
         \/ WriteErase \/ WriteEraseFails \/ WriteData \/ WriteDataFails
         \/ \E newline \in BOOLEAN : WriteSave(newline)
  PROVE  FlashInv'
  <1>. USE DEF FlashInv, LogTypes, TaskTypes
  <1>1. ASSUME NEW n \in EntrySizes, WriteEntry(n) PROVE FlashInv'
    <2>1. n \in Nat /\ Other(index) \in File
      BY EntrySizesAreNat, OtherIsFile
    <2>2. InfoOK(info') /\ index' \in File
      BY <1>1, <2>1, EmptyIsOK DEF WriteEntry
    <2>3. wr' \in WriterType /\ rd.at = "idle"
      BY <1>1, <2>1 DEF WriteEntry, WriterType
    <2>. QED  BY <1>1, <2>2, <2>3 DEF WriteEntry
  <1>2. CASE WriteErase
    <2>1. cells' \in [Cell -> Int]
      BY <1>2 DEF WriteErase, EraseFile, Erased
    <2>2. wr' \in WriterType
      BY <1>2 DEF WriteErase, WriterType
    <2>. QED  BY <1>2, <2>1, <2>2 DEF WriteErase
  <1>3. CASE WriteEraseFails
    BY <1>3, IdleTypes DEF WriteEraseFails, IdleWriter
  <1>4. CASE WriteData
    <2>1. wr.n + (IF stamp THEN StampSize ELSE 0) \in Nat
      BY DEF WriterType
    <2>2. InfoOK(info') /\ cells' \in [Cell -> Int]
      BY <1>4, <2>1, GrownIsOK, ProgramTypes DEF WriteData, Programs
    <2>3. wr' \in WriterType
      BY <1>4 DEF WriteData, WriterType
    <2>. QED  BY <1>4, <2>2, <2>3 DEF WriteData
  <1>5. CASE WriteDataFails
    <2>1. (IF stamp THEN StampSize ELSE 0) \in Nat
      OBVIOUS
    <2>2. InfoOK(info') /\ cells' \in [Cell -> Int]
      BY <1>5, <2>1, GrownIsOK, ProgramTypes DEF WriteDataFails, Programs
    <2>. QED  BY <1>5, <2>2, IdleTypes DEF WriteDataFails, IdleWriter
  <1>6. ASSUME NEW newline \in BOOLEAN, WriteSave(newline) PROVE FlashInv'
    BY <1>6, IdleTypes DEF WriteSave, IdleWriter, InfoOK
  <1>. QED  BY <1>1, <1>2, <1>3, <1>4, <1>5, <1>6

-----------------------------------------------------------------------------
LEMMA NextTypes ==
  ASSUME rd \in ReadingType
  PROVE  ReadNext \in ReadingType /\ ReadNext.at \in {"idle", "look"}
  BY IdleTypes DEF ReadNext, ReadingType, IdleReader

\* mdebug_flash_read asks for no more than is left.
LEMMA AskedIsLeft ==
  ASSUME LogTypes, rd \in ReadingType, NEW f \in File, Asked(f) > 0
  PROVE  Asked(f) \in Nat /\ info[f].offset + Asked(f) <= info[f].size
  <1>1. rd.room - Len(rd.got) \in Int
    BY DEF ReadingType
  <1>2. Unread(f) = info[f].size - info[f].offset /\ Unread(f) \in Nat
    BY DEF LogTypes, InfoOK, Infos, Unread
  <1>3. info[f].size \in Nat /\ info[f].offset \in Nat
    BY DEF LogTypes, InfoOK, Infos
  <1>. QED  BY <1>1, <1>2, <1>3 DEF Asked, Smaller

LEMMA CountedIsOK ==
  ASSUME NEW i, InfoOK(i), NEW f \in File, NEW n \in Nat, i[f].offset + n <= i[f].size
  PROVE  InfoOK([i EXCEPT ![f].offset = @ + n])
  BY DEF InfoOK, Infos

\* The cells that a read takes are in the partition if the last one is.
LEMMA CellsAreThere ==
  ASSUME NEW a \in Nat, NEW o \in Nat, NEW n \in Nat, a + o + n - 1 \in Cell, NEW k \in 1 .. n
  PROVE  a + o - 1 + k \in Cell
  <1>1. 3 * FileSize + StampSize - 1 \in Int
    OBVIOUS
  <1>. QED  BY <1>1 DEF Cell

LEMMA ReadCellsThere ==
  ASSUME info \in Infos, rd \in ReadingType, InPartition
  PROVE  \A k \in 1 .. rd.n : ReadFrom - 1 + k \in Cell
  <1>1. rd.file \in {0, 1} /\ rd.n \in Nat /\ info[rd.file].offset \in Nat
    BY DEF ReadingType, Infos
  <1>2. AddrOf(rd.file) \in Nat
    BY <1>1 DEF AddrOf
  <1>3. AddrOf(rd.file) + info[rd.file].offset + rd.n - 1 \in Cell
    BY DEF InPartition, ReadFrom
  <1>. QED  BY <1>1, <1>2, <1>3, CellsAreThere DEF ReadFrom

LEMMA ReadTypes ==
  ASSUME NEW r \in ReadingType, NEW s \in Seq(Int)
  PROVE  [r EXCEPT !.at = "count", !.got = @ \o s] \in ReadingType
  <1>1. r.got \o s \in Seq(Int)
    BY DEF ReadingType
  <1>. QED  BY <1>1 DEF ReadingType

LEMMA ReaderKeepsInv ==
  ASSUME ~ Overlap, FlashInv,
         \/ \E room \in Rooms : ReadEntry(room)
         \/ ReadNothing \/ ReadSize \/ ReadFile \/ ReadFileFails \/ ReadCount
  PROVE  FlashInv'
  <1>. USE DEF FlashInv, LogTypes, TaskTypes
  <1>0. FirstFile(rd.i) \in File
    BY DEF FirstFile, ReadingType
  <1>1. ASSUME NEW room \in Rooms, ReadEntry(room) PROVE FlashInv'
    <2>1. rd' \in ReadingType /\ rd'.at = "look"
      BY <1>1, IdleTypes DEF ReadEntry, ReadingType
    <2>. QED  BY <1>1, <2>1 DEF ReadEntry
  <1>2. CASE ReadNothing
    BY <1>2, NextTypes DEF ReadNothing
  <1>3. CASE ReadFile
    <2>. DEFINE f == rd.file
                n == rd.n
    <2>1. f \in File /\ n \in Nat /\ rd.at = "read" /\ info[f].offset + n <= info[f].size
      BY <1>3 DEF ReadFile, ReadingType
    <2>2. \A k \in 1 .. n : ReadFrom - 1 + k \in Cell
      BY <1>3, <2>1, ReadCellsThere DEF ReadFile, InfoOK
    <2>. DEFINE read == [k \in 1 .. n |-> IF f \in hurt THEN Hurt ELSE cells[ReadFrom - 1 + k]]
    <2>3. read \in Seq(Int)
      BY <2>1, <2>2 DEF Hurt
    <2>4. rd' = [rd EXCEPT !.at = "count", !.got = @ \o read]
      BY <1>3 DEF ReadFile
    <2>. HIDE DEF read
    <2>5. rd' \in ReadingType
      BY <2>3, <2>4, ReadTypes
    <2>6. rd'.at = "count" /\ rd'.file = f /\ rd'.n = n
      BY <2>4 DEF ReadingType
    <2>. QED  BY <1>3, <2>1, <2>5, <2>6 DEF ReadFile
  <1>4. CASE ReadFileFails
    <2>1. InfoOK(info')
      BY <1>4, EmptyIsOK DEF ReadFileFails, ReadingType
    <2>. QED  BY <1>4, <2>1, IdleTypes DEF ReadFileFails, IdleReader
  <1>5. CASE ReadCount
    <2>1. InfoOK(info')
      BY <1>5, CountedIsOK DEF ReadCount, ReadingType
    <2>2. rd' \in ReadingType /\ rd'.at \in {"idle", "look"}
      BY <1>5, NextTypes DEF ReadCount
    <2>. QED  BY <1>5, <2>1, <2>2 DEF ReadCount, InfoOK
  <1>6. CASE ReadSize
    <2>. DEFINE f == FirstFile(rd.i)
    <2>1. Asked(f) \in Nat /\ info[f].offset + Asked(f) <= info[f].size
      BY <1>0, <1>6, AskedIsLeft DEF ReadSize
    <2>2. rd' = [rd EXCEPT !.at = "read", !.file = f, !.n = Asked(f)]
      BY <1>6 DEF ReadSize
    <2>3. rd' \in ReadingType /\ rd'.at = "read" /\ rd'.file = f /\ rd'.n = Asked(f)
      <3>. HIDE DEF f
      <3>. QED  BY <1>0, <2>1, <2>2 DEF ReadingType, f
    <2>. QED  BY <1>6, <2>1, <2>3 DEF ReadSize
  <1>. QED  BY <1>1, <1>2, <1>3, <1>4, <1>5, <1>6

LEMMA FlashStepInv == ~ Overlap /\ FlashInv /\ [FlashNext]_flashVars => FlashInv'
  <1>1. CASE UNCHANGED flashVars
    BY <1>1 DEF flashVars, FlashInv, LogTypes, TaskTypes
  <1>. QED  BY <1>1, LogKeepsInv, WriterKeepsInv, ReaderKeepsInv DEF FlashNext

\* If reads and writes exclude each other, as the documents say, the offset of a file in
\* g_log_info never exceeds its size, whatever is reset, erased or fails in between: the
\* unsigned difference mdebug_flash_read works with is the number of cells left.
THEOREM ReaderStaysBehind == ~ Overlap => (FlashSpec => []OffsetWithinSize)
  <1>. SUFFICES ASSUME ~ Overlap PROVE FlashSpec => []OffsetWithinSize
    OBVIOUS
  <1>1. FlashInv => OffsetWithinSize
    BY DEF FlashInv, LogTypes, InfoOK, OffsetWithinSize
  <1>2. FlashInv /\ [FlashNext]_flashVars => FlashInv'
    BY FlashStepInv
  <1>. QED  BY FlashInvInit, <1>1, <1>2, PTL DEF FlashSpec

-----------------------------------------------------------------------------
(***************************************************************************)
(* What is read is what was logged, whether reads and writes exclude each  *)
(* other or not.                                                           *)
(***************************************************************************)
Contents(f) == [j \in 0 .. FileSize - 1 |-> cells[AddrOf(f) + j]]

\* The first cell of a file that no read has taken, and what the read that is about to
\* count took.
Taken(f) == rd.at = "count" /\ rd.file = f
Start(f) == info[f].offset + (IF Taken(f) THEN rd.n ELSE 0)
Caught == SubSeq(rd.got, Len(rd.got) - rd.n + 1, Len(rd.got))

\* A file of size s of which o cells are taken, after m entries
Sound(a, o, s, m) == o <= s /\ s <= FileSize /\ \A j \in 0 .. s - 1 : a[j] \in 1 .. m
Blank(a, s) == \A j \in s .. FileSize - 1 : a[j] = Erased
Ordered(a, s) == \A j, k \in 0 .. s - 1 : j <= k => a[j] <= a[k]
NotBefore(a, o, s, v) == \A j \in o .. s - 1 : v <= a[j]
AllBefore(a, s, b, t) == \A j \in 0 .. s - 1, k \in 0 .. t - 1 : a[j] <= b[k]

Types ==
  /\ info \in Infos /\ (stored = <<>> \/ \E i \in Infos : stored = <<i>>)
  /\ index \in File /\ stamp \in BOOLEAN /\ logReady \in BOOLEAN /\ disturbed \in BOOLEAN
  /\ entry \in Nat /\ cells \in [Cell -> Int] /\ hurt \subseteq File
  /\ wr \in WriterType /\ rd \in ReadingType

Shape ==
  /\ ~ logReady => wr.at = "idle" /\ rd.at = "idle"
  /\ wr.at = "erase" => info[index].size = 0
  /\ wr.at # "idle" => entry > 0
  /\ Len(rd.got) <= rd.room
  /\ rd.at = "read" => rd.n \in Nat \ {0} /\ rd.n <= rd.room - Len(rd.got)
  /\ rd.at = "count" => rd.n \in 1 .. Len(rd.got)

\* What was asked for is in the file, or the file is hurt.
PlanInv ==
  rd.at = "read" /\ rd.file \notin hurt => info[rd.file].offset + rd.n <= info[rd.file].size

\* A file that is not hurt holds numbers of entries as far as it is written, and is erased
\* behind that unless it is about to be.
FileInv(f) ==
  /\ Sound(Contents(f), Start(f), info[f].size, entry)
  /\ (wr.at = "erase" /\ index = f) \/ Blank(Contents(f), info[f].size)
SoundInv == logReady \/ stored # <<>> => \A f \in File \ hurt : FileInv(f)

GotInv ==
  /\ \A k \in 1 .. Len(rd.got) : rd.got[k] = Hurt \/ rd.got[k] \in 1 .. entry
  /\ rd.at = "count" => \/ \A k \in 1 .. rd.n : Caught[k] = Hurt
                        \/ \A k \in 1 .. rd.n : Caught[k] \in 1 .. entry

\* The newest entry read, the one about to be counted included
HasNew == rd.at = "count" /\ Caught[1] # Hurt
Newest == IF HasNew THEN Caught[rd.n] ELSE last.newest

CountOrder ==
  /\ last.ordered /\ last.newest \in 0 .. entry
  /\ HasNew => last.newest <= Caught[1] /\ \A k, l \in 1 .. rd.n : k <= l => Caught[k] <= Caught[l]

\* What is left to read is not older than that, and the older file comes first.
LeftInv(f) ==
  NotBefore(Contents(f), Start(f), info[f].size, Newest) /\ Ordered(Contents(f), info[f].size)
LeftOrder == \A f \in File \ hurt : LeftInv(f)
FileOrder == hurt = {} =>
  AllBefore(Contents(Other(index)), info[Other(index)].size, Contents(index), info[index].size)

\* The reader gets to the newer file with the older one read, or with a full buffer.
ReaderOrder ==
  /\ rd.at \in {"look", "read"} /\ rd.i = 0 => rd.got = <<>>
  /\ rd.at \in {"read", "count"} => rd.file = FirstFile(rd.i)
  /\ rd.at = "count" /\ rd.i = 0 => rd.n = Len(rd.got)
  /\ rd.at = "read" /\ rd.i = 0 /\ Other(index) \notin hurt =>
         info[Other(index)].size <= info[Other(index)].offset + rd.n \/ rd.room = Len(rd.got) + rd.n
  /\ Other(index) \notin hurt /\ (rd.at = "count" \/ (rd.at \in {"look", "read"} /\ rd.i = 1)) =>
         info[Other(index)].size <= Start(Other(index)) \/ rd.room = Len(rd.got)

OrderInv ==
  ~ disturbed => /\ logReady \/ (stored = <<>> /\ info = NoInfo)
                 /\ CountOrder /\ LeftOrder /\ FileOrder /\ ReaderOrder

ReadInv == Types /\ Shape /\ PlanInv /\ SoundInv /\ GotInv /\ OrderInv

LEMMA ReadInvInit == FlashInit => ReadInv
  <1>. SUFFICES ASSUME FlashInit PROVE ReadInv
    OBVIOUS
  <1>1. Types
    <2>1. cells \in [Cell -> Int]
      BY DEF FlashInit, Garbled
    <2>2. info \in Infos
      BY DEF FlashInit, NoInfo, Infos
    <2>. QED  BY <2>1, <2>2, IdleTypes DEF FlashInit, Types
  <1>2. rd = IdleReader /\ wr = IdleWriter /\ rd.got = <<>> /\ Len(rd.got) = 0 /\ rd.at = "idle"
    BY DEF FlashInit, IdleReader
  <1>3. Shape
    BY <1>2 DEF Shape, IdleReader, IdleWriter
  <1>4. SoundInv /\ PlanInv
    BY <1>2 DEF FlashInit, SoundInv, PlanInv
  <1>5. GotInv
    BY <1>2 DEF GotInv
  <1>6. CountOrder
    BY <1>2 DEF FlashInit, CountOrder, HasNew
  <1>7. \A f \in File : info[f].size = 0 /\ info[f].offset = 0
    BY DEF FlashInit, NoInfo
  <1>8. Other(index) \in File /\ index \in File
    BY DEF FlashInit, Other
  <1>9. LeftOrder /\ FileOrder
    <2>1. \A f \in File : Start(f) = 0
      BY <1>2, <1>7 DEF Start, Taken
    <2>. QED  BY <1>7, <1>8, <2>1 DEF LeftOrder, LeftInv, FileOrder, NotBefore, Ordered, AllBefore
  <1>10. ReaderOrder
    BY <1>2 DEF ReaderOrder
  <1>. QED  BY <1>1, <1>3, <1>4, <1>5, <1>6, <1>9, <1>10 DEF ReadInv, OrderInv, FlashInit

-----------------------------------------------------------------------------
\* Types and Shape, action by action
LEMMA InfoFacts ==
  ASSUME Types, NEW f \in File
  PROVE  info[f].size \in Nat /\ info[f].offset \in Nat /\ Start(f) \in Nat
  BY DEF Types, Infos, ReadingType, Start

LEMMA CellOfFile == ASSUME NEW f \in File, NEW j \in 0 .. FileSize - 1 PROVE AddrOf(f) + j \in Cell
  <1>1. AddrOf(f) \in {0, FileSize}
    BY DEF AddrOf
  <1>. QED  BY <1>1 DEF Cell

LEMMA LogKeepsTypes ==
  ASSUME Types, Shape, LogInit \/ LogDeinit \/ LogReset \/ LogErase
  PROVE  Types' /\ Shape'
  <1>. USE DEF Types, Shape
  <1>1. CASE LogInit
    <2>1. index' \in File /\ info' \in Infos
      BY <1>1 DEF LogInit, IndexOf
    <2>2. cells' \in [Cell -> Int]
      BY <1>1 DEF LogInit, Erased
    <2>3. hurt' \subseteq File
      BY <1>1 DEF LogInit, Unsaved
    <2>. QED  BY <1>1, <2>1, <2>2, <2>3 DEF LogInit
  <1>2. CASE LogDeinit
    BY <1>2 DEF LogDeinit
  <1>3. CASE LogReset
    <2>1. info' \in Infos
      BY <1>3 DEF LogReset, NoInfo, Infos
    <2>2. hurt' \subseteq File
      BY <1>3 DEF LogReset, Unsaved
    <2>3. rd' \in ReadingType /\ wr' \in WriterType /\ rd'.at = "idle" /\ wr'.at = "idle"
      BY <1>3, IdleTypes DEF LogReset, IdleReader, IdleWriter
    <2>4. Len(rd'.got) <= rd'.room
      BY <1>3 DEF LogReset, IdleReader
    <2>. QED  BY <1>3, <2>1, <2>2, <2>3, <2>4 DEF LogReset
  <1>4. CASE LogErase
    <2>1. cells' \in [Cell -> Int]
      BY <1>4 DEF LogErase, Erased
    <2>. QED  BY <1>4, <2>1 DEF LogErase
  <1>. QED  BY <1>1, <1>2, <1>3, <1>4

LEMMA InfoTypes ==
  ASSUME NEW i \in Infos, NEW f \in File, NEW n \in Nat
  PROVE  /\ [i EXCEPT ![f].size = @ + n] \in Infos /\ [i EXCEPT ![f].offset = @ + n] \in Infos
         /\ [i EXCEPT ![f] = [size |-> 0, offset |-> 0]] \in Infos
         /\ [i EXCEPT ![f] = [size |-> 0, offset |-> 0]][f].size = 0
  BY DEF Infos

LEMMA WriterKeepsTypes ==
  ASSUME Types, Shape,
         \/ \E n \in EntrySizes : WriteEntry(n)
         \/ WriteErase \/ WriteEraseFails \/ WriteData \/ WriteDataFails
         \/ \E newline \in BOOLEAN : WriteSave(newline)
  PROVE  Types' /\ Shape'
  <1>. USE DEF Types, Shape
  <1>1. ASSUME NEW n \in EntrySizes, WriteEntry(n) PROVE Types' /\ Shape'
    <2>1. n \in Nat /\ Other(index) \in File
      BY EntrySizesAreNat, OtherIsFile
    <2>2. info' \in Infos /\ index' \in File
      <3>1. CASE Fits(n)
        BY <1>1, <3>1 DEF WriteEntry
      <3>2. CASE ~ Fits(n)
        <4>1. index' = Other(index) /\ info' = [info EXCEPT ![Other(index)] = [size |-> 0, offset |-> 0]]
          BY <1>1, <3>2 DEF WriteEntry
        <4>2. [info EXCEPT ![Other(index)] = [size |-> 0, offset |-> 0]] \in Infos
          BY <2>1, InfoTypes
        <4>. QED  BY <2>1, <4>1, <4>2
      <3>. QED  BY <3>1, <3>2
    <2>3. wr' \in WriterType /\ wr'.at \in {"data", "erase"} /\ (wr'.at = "erase" <=> ~ Fits(n))
      BY <1>1, <2>1 DEF WriteEntry, WriterType
    <2>4. ~ Fits(n) => info'[index'].size = 0
      BY <1>1, <2>1, InfoTypes DEF WriteEntry
    <2>5. hurt' \subseteq File
      BY <1>1, <2>1 DEF WriteEntry
    <2>6. disturbed' \in BOOLEAN
      BY <1>1, Zenon DEF WriteEntry
    <2>7. Types'
      BY <1>1, <2>2, <2>3, <2>5, <2>6 DEF WriteEntry
    <2>. QED  BY <1>1, <2>3, <2>4, <2>7 DEF WriteEntry
  <1>2. CASE WriteErase
    <2>1. cells' \in [Cell -> Int]
      BY <1>2 DEF WriteErase, EraseFile, Erased
    <2>2. wr' \in WriterType /\ wr'.at = "data"
      BY <1>2 DEF WriteErase, WriterType
    <2>3. hurt' \subseteq File
      BY <1>2 DEF WriteErase
    <2>. QED  BY <1>2, <2>1, <2>2, <2>3 DEF WriteErase
  <1>3. CASE WriteEraseFails
    BY <1>3, IdleTypes DEF WriteEraseFails, IdleWriter
  <1>4. CASE WriteData
    <2>1. wr.n + (IF stamp THEN StampSize ELSE 0) \in Nat
      BY DEF WriterType
    <2>2. info' \in Infos /\ cells' \in [Cell -> Int]
      BY <1>4, <2>1, InfoTypes, ProgramTypes DEF WriteData, Programs
    <2>3. wr' \in WriterType /\ wr'.at = "save"
      BY <1>4 DEF WriteData, WriterType
    <2>4. hurt' \subseteq File
      BY <1>4 DEF WriteData, Programs
    <2>. QED  BY <1>4, <2>2, <2>3, <2>4 DEF WriteData
  <1>5. CASE WriteDataFails
    <2>1. (IF stamp THEN StampSize ELSE 0) \in Nat
      OBVIOUS
    <2>2. info' \in Infos /\ cells' \in [Cell -> Int]
      BY <1>5, <2>1, InfoTypes, ProgramTypes DEF WriteDataFails, Programs
    <2>3. hurt' \subseteq File
      BY <1>5 DEF WriteDataFails, Programs
    <2>. QED  BY <1>5, <2>2, <2>3, IdleTypes DEF WriteDataFails, IdleWriter
  <1>6. ASSUME NEW newline \in BOOLEAN, WriteSave(newline) PROVE Types' /\ Shape'
    BY <1>6, IdleTypes DEF WriteSave, IdleWriter
  <1>. QED  BY <1>1, <1>2, <1>3, <1>4, <1>5, <1>6

LEMMA ConcatTail ==
  ASSUME NEW s \in Seq(Int), NEW t \in Seq(Int), t # <<>>
  PROVE  /\ Len(s) \in Nat /\ Len(t) \in Nat /\ Len(s \o t) = Len(s) + Len(t)
         /\ SubSeq(s \o t, Len(s) + 1, Len(s) + Len(t)) = t
  <1>1. Len(s) \in Nat /\ Len(t) \in Nat /\ Len(t) > 0
    OBVIOUS
  <1>2. /\ Len(s) + 1 \in Len(s) + 1 .. Len(s) + Len(t)
        /\ Len(s) + Len(t) \in Len(s) + 1 .. Len(s) + Len(t)
    BY <1>1
  <1>3. SubSeq(s \o t, Len(s) + 1, Len(s) + Len(t))
          = SubSeq(t, (Len(s) + 1) - Len(s), (Len(s) + Len(t)) - Len(s))
    BY ONLY SubSeqOfConcat2, <1>2, s \in Seq(Int), t \in Seq(Int)
  <1>4. (Len(s) + 1) - Len(s) = 1 /\ (Len(s) + Len(t)) - Len(s) = Len(t)
    BY <1>1
  <1>5. SubSeq(t, 1, Len(t)) = t
    BY SubSeqFull
  <1>6. Len(s \o t) = Len(s) + Len(t)
    OBVIOUS
  <1>. QED  BY <1>1, <1>3, <1>4, <1>5, <1>6

\* mdebug_flash_read asks for no more than fits.
LEMMA ReadSizeFacts ==
  ASSUME Types, Shape, ReadSize
  PROVE  LET f == FirstFile(rd.i) IN
         /\ f \in File /\ Asked(f) \in Nat \ {0} /\ Asked(f) <= rd.room - Len(rd.got)
         /\ rd' \in ReadingType /\ rd'.at = "read" /\ rd'.file = f /\ rd'.n = Asked(f)
         /\ rd'.room = rd.room /\ rd'.i = rd.i /\ rd'.got = rd.got
  <1>. DEFINE f == FirstFile(rd.i)
  <1>1. f \in File
    BY DEF FirstFile, Types, ReadingType
  <1>2. info[f].offset \in Nat /\ info[f].size \in Nat
    BY <1>1, InfoFacts
  <1>3. rd.room - Len(rd.got) \in Nat
    BY DEF Types, Shape, ReadingType
  <1>4. Asked(f) \in Nat \ {0} /\ Asked(f) <= rd.room - Len(rd.got)
    <2>1. Asked(f) > 0
      BY DEF ReadSize
    <2>2. Unread(f) \in Nat
      BY <1>2 DEF Unread
    <2>. QED  BY <1>3, <2>1, <2>2 DEF Asked, Smaller
  <1>5. rd' = [rd EXCEPT !.at = "read", !.file = f, !.n = Asked(f)] /\ rd \in ReadingType
    BY DEF ReadSize, Types
  <1>. HIDE DEF f
  <1>6. /\ rd' \in ReadingType /\ rd'.at = "read" /\ rd'.file = f /\ rd'.n = Asked(f)
        /\ rd'.room = rd.room /\ rd'.i = rd.i /\ rd'.got = rd.got
    BY <1>1, <1>4, <1>5 DEF ReadingType
  <1>. QED  BY <1>1, <1>4, <1>6 DEF f

\* esp_partition_read gets what is asked for.
LEMMA ReadFileFacts ==
  ASSUME Types, Shape, ReadFile
  PROVE  LET f == rd.file
             read == [k \in 1 .. rd.n |-> IF f \in hurt THEN Hurt ELSE cells[ReadFrom - 1 + k]] IN
         /\ f \in File /\ rd.n \in Nat \ {0} /\ rd.n <= rd.room - Len(rd.got)
         /\ read \in Seq(Int) /\ Len(read) = rd.n
         /\ rd' \in ReadingType /\ rd'.at = "count" /\ rd'.file = f /\ rd'.n = rd.n
         /\ rd'.room = rd.room /\ rd'.i = rd.i /\ rd'.got = rd.got \o read
         /\ Len(rd'.got) = Len(rd.got) + rd.n /\ Caught' = read
  <1>. DEFINE f == rd.file
              read == [k \in 1 .. rd.n |-> IF f \in hurt THEN Hurt ELSE cells[ReadFrom - 1 + k]]
  <1>1. f \in File /\ rd.at = "read" /\ rd \in ReadingType
    BY DEF ReadFile, Types, ReadingType
  <1>4. rd.n \in Nat \ {0} /\ rd.n <= rd.room - Len(rd.got)
    BY <1>1 DEF Shape
  <1>5. \A k \in 1 .. rd.n : ReadFrom - 1 + k \in Cell
    BY ReadCellsThere DEF ReadFile, Types
  <1>6. read \in Seq(Int) /\ Len(read) = rd.n
    <2>1. \A k \in 1 .. rd.n : (IF f \in hurt THEN Hurt ELSE cells[ReadFrom - 1 + k]) \in Int
      BY <1>5 DEF Hurt, Types
    <2>. HIDE DEF f
    <2>. QED  BY <1>4, <2>1
  <1>7. rd' = [rd EXCEPT !.at = "count", !.got = @ \o read]
    BY DEF ReadFile
  <1>8. rd' \in ReadingType
    <2>. HIDE DEF read, f
    <2>. QED  BY <1>1, <1>6, <1>7, ReadTypes
  <1>9. /\ rd'.at = "count" /\ rd'.file = f /\ rd'.n = rd.n
        /\ rd'.room = rd.room /\ rd'.i = rd.i /\ rd'.got = rd.got \o read
    <2>. HIDE DEF read
    <2>. QED  BY <1>1, <1>7 DEF ReadingType
  <1>10. rd.got \in Seq(Int) /\ Len(rd.got) \in Nat
    BY DEF Types, ReadingType
  <1>11. Len(rd'.got) = Len(rd.got) + rd.n /\ Caught' = read
    <2>. HIDE DEF read, f
    <2>1. read # <<>>
      BY <1>4, <1>6
    <2>2. /\ Len(rd.got \o read) = Len(rd.got) + Len(read)
          /\ SubSeq(rd.got \o read, Len(rd.got) + 1, Len(rd.got) + Len(read)) = read
      BY <1>6, <1>10, <2>1, ConcatTail
    <2>3. Len(rd.got) + rd.n - rd.n + 1 = Len(rd.got) + 1
      BY <1>4, <1>10
    <2>4. Len(rd'.got) = Len(rd.got) + rd.n
      BY <1>6, <1>9, <2>2
    <2>5. Caught' = SubSeq(rd.got \o read, Len(rd.got) + rd.n - rd.n + 1, Len(rd.got) + rd.n)
      <3>1. Caught' = SubSeq(rd'.got, Len(rd'.got) - rd'.n + 1, Len(rd'.got))
        BY DEF Caught
      <3>2. rd'.got = rd.got \o read
        BY <1>9
      <3>3. rd'.n = rd.n
        BY <1>9
      <3>4. Len(rd'.got) - rd'.n + 1 = Len(rd.got) + rd.n - rd.n + 1
        BY <1>4, <1>10, <2>4, <3>3
      <3>. QED  BY ONLY <2>4, <3>1, <3>2, <3>4
    <2>. QED  BY <1>6, <2>2, <2>3, <2>4, <2>5
  <1>. QED  BY <1>1, <1>4, <1>6, <1>8, <1>9, <1>11

LEMMA ReadNextFacts ==
  ASSUME Types, Shape
  PROVE  /\ ReadNext \in ReadingType /\ ReadNext.at \in {"idle", "look"}
         /\ Len(ReadNext.got) <= ReadNext.room
         /\ IF rd.i = 1 THEN ReadNext = IdleReader
            ELSE ReadNext.at = "look" /\ ReadNext.i = 1 /\ ReadNext.got = rd.got /\ ReadNext.room = rd.room
  <1>1. CASE rd.i = 1
    <2>1. ReadNext = IdleReader
      BY <1>1 DEF ReadNext
    <2>2. IdleReader.at = "idle" /\ Len(IdleReader.got) <= IdleReader.room
      BY DEF IdleReader
    <2>. QED  BY <1>1, <2>1, <2>2, IdleTypes
  <1>2. CASE rd.i # 1
    <2>1. ReadNext = [rd EXCEPT !.at = "look", !.i = 1, !.file = 0, !.n = 0]
      BY <1>2 DEF ReadNext
    <2>. QED  BY <1>2, <2>1 DEF ReadingType, Types, Shape
  <1>. QED  BY <1>1, <1>2

LEMMA CountChanges ==
  ASSUME Types, info' = [info EXCEPT ![rd.file].offset = @ + rd.n]
  PROVE  /\ rd.file \in File /\ rd.n \in Nat
         /\ \A f \in File : /\ info'[f].size = info[f].size
                            /\ info'[f].offset = info[f].offset + (IF f = rd.file THEN rd.n ELSE 0)
  <1>1. rd.file \in File /\ rd.n \in Nat
    BY DEF Types, ReadingType
  <1>2. ASSUME NEW f \in File
        PROVE  /\ info'[f].size = info[f].size
               /\ info'[f].offset = info[f].offset + (IF f = rd.file THEN rd.n ELSE 0)
    <2>1. info[f].offset \in Nat /\ info \in Infos
      BY DEF Types, Infos
    <2>2. CASE f = rd.file
      BY <1>1, <2>1, <2>2 DEF Infos
    <2>3. CASE f # rd.file
      BY <1>1, <2>1, <2>3 DEF Infos
    <2>. QED  BY <2>2, <2>3
  <1>. QED  BY <1>1, <1>2

LEMMA EntryOfRead ==
  ASSUME NEW room \in Rooms, ReadEntry(room)
  PROVE  /\ room \in Nat /\ rd'.at = "look" /\ rd'.room = room /\ rd'.i = 0 /\ rd'.got = <<>>
         /\ rd.at = "idle"
  <1>1. room \in Nat
    <2>1. Rooms \subseteq Nat \ {0}
      OBVIOUS
    <2>. QED  BY <2>1
  <1>2. rd' = [IdleReader EXCEPT !.at = "look", !.room = room] /\ rd.at = "idle"
    BY DEF ReadEntry
  <1>3. /\ [IdleReader EXCEPT !.at = "look", !.room = room].at = "look"
        /\ [IdleReader EXCEPT !.at = "look", !.room = room].room = room
        /\ [IdleReader EXCEPT !.at = "look", !.room = room].i = 0
        /\ [IdleReader EXCEPT !.at = "look", !.room = room].got = <<>>
    BY DEF IdleReader
  <1>. QED  BY <1>1, <1>2, <1>3

LEMMA ReaderKeepsTypes ==
  ASSUME Types, Shape,
         \/ \E room \in Rooms : ReadEntry(room)
         \/ ReadNothing \/ ReadSize \/ ReadFile \/ ReadFileFails \/ ReadCount
  PROVE  Types' /\ Shape'
  <1>. USE DEF Types, Shape
  <1>0. FirstFile(rd.i) \in File
    BY DEF FirstFile, ReadingType
  <1>1. ASSUME NEW room \in Rooms, ReadEntry(room) PROVE Types' /\ Shape'
    <2>1. rd' \in ReadingType /\ rd'.at = "look"
      BY <1>1, IdleTypes DEF ReadEntry, ReadingType
    <2>2. room \in Nat /\ rd'.room = room /\ rd'.got = <<>>
      BY <1>1, EntryOfRead
    <2>3. Len(rd'.got) <= rd'.room
      BY <2>2
    <2>. QED  BY <1>1, <2>1, <2>3 DEF ReadEntry
  <1>2. CASE ReadNothing
    BY <1>2, ReadNextFacts DEF ReadNothing
  <1>3. CASE ReadFile
    <2>1. /\ rd' \in ReadingType /\ rd'.at = "count" /\ rd'.n \in 1 .. Len(rd'.got)
          /\ Len(rd'.got) <= rd'.room
      <3>1. Len(rd.got) \in Nat /\ rd.room \in Nat
        BY DEF ReadingType
      <3>. QED  BY <1>3, <3>1, ReadFileFacts
    <2>. QED  BY <1>3, <2>1 DEF ReadFile
  <1>4. CASE ReadFileFails
    <2>0. rd.file \in File
      BY DEF ReadingType
    <2>1. info' \in Infos
      BY <1>4, <2>0, InfoTypes DEF ReadFileFails
    <2>2. hurt' \subseteq File
      BY <1>4, <2>0 DEF ReadFileFails
    <2>3. info'[index].size = 0 \/ info'[index] = info[index]
      BY <1>4, <2>0 DEF ReadFileFails, Infos
    <2>4. rd' \in ReadingType /\ rd'.at = "idle" /\ Len(rd'.got) <= rd'.room
      BY <1>4, IdleTypes DEF ReadFileFails, IdleReader
    <2>. QED  BY <1>4, <2>1, <2>2, <2>3, <2>4 DEF ReadFileFails
  <1>5. CASE ReadCount
    <2>1. info' \in Infos
      BY <1>5, InfoTypes DEF ReadCount, ReadingType
    <2>2. info'[index].size = info[index].size
      BY <1>5, CountChanges DEF ReadCount
    <2>3. rd' \in ReadingType /\ rd'.at \in {"idle", "look"} /\ Len(rd'.got) <= rd'.room
      BY <1>5, ReadNextFacts DEF ReadCount
    <2>. QED  BY <1>5, <2>1, <2>2, <2>3 DEF ReadCount
  <1>6. CASE ReadSize
    <2>1. /\ rd' \in ReadingType /\ rd'.at = "read" /\ rd'.n \in Nat \ {0}
          /\ rd'.n <= rd'.room - Len(rd'.got) /\ Len(rd'.got) <= rd'.room
      BY <1>6, ReadSizeFacts
    <2>. QED  BY <1>6, <2>1 DEF ReadSize
  <1>. QED  BY <1>1, <1>2, <1>3, <1>4, <1>5, <1>6

-----------------------------------------------------------------------------
\* What the calls of the flash driver do to the files.
LEMMA ContentsAt ==
  ASSUME NEW f \in File, NEW j \in 0 .. FileSize - 1
  PROVE  Contents(f)[j] = cells[AddrOf(f) + j] /\ Contents(f)'[j] = cells'[AddrOf(f) + j]
  BY DEF Contents

LEMMA OneOfTheFiles ==
  ASSUME NEW f \in File, NEW g \in File, NEW j \in 0 .. FileSize - 1
  PROVE  /\ AddrOf(f) + j < 2 * FileSize /\ AddrOf(f) + j \in Int /\ AddrOf(g) \in Int
         /\ \A s \in Nat, n \in Nat : s + n <= FileSize =>
              (AddrOf(f) + j \in AddrOf(g) + s .. AddrOf(g) + s + n - 1 <=> f = g /\ j \in s .. s + n - 1)
  <1>1. /\ f = 0 => AddrOf(f) = 0
        /\ f = 1 => AddrOf(f) = FileSize
        /\ g = 0 => AddrOf(g) = 0
        /\ g = 1 => AddrOf(g) = FileSize
    BY DEF AddrOf
  <1>2. CASE f = g
    BY <1>1, <1>2
  <1>3. CASE f # g
    BY <1>1, <1>3
  <1>. QED  BY <1>2, <1>3

LEMMA WholeFile ==
  ASSUME NEW f \in File, NEW g \in File, NEW j \in 0 .. FileSize - 1
  PROVE  AddrOf(f) + j \in AddrOf(g) .. AddrOf(g) + FileSize - 1 <=> f = g
  <1>1. /\ f = 0 => AddrOf(f) = 0
        /\ f = 1 => AddrOf(f) = FileSize
        /\ g = 0 => AddrOf(g) = 0
        /\ g = 1 => AddrOf(g) = FileSize
    BY DEF AddrOf
  <1>2. CASE f = g
    BY <1>1, <1>2
  <1>3. CASE f # g
    BY <1>1, <1>3
  <1>. QED  BY <1>2, <1>3

LEMMA SameContents == ASSUME cells' = cells, NEW f \in File PROVE Contents(f)' = Contents(f)
  BY DEF Contents

LEMMA ErasedContents ==
  ASSUME Types, cells' = EraseFile, NEW f \in File, NEW j \in 0 .. FileSize - 1
  PROVE  Contents(f)'[j] = IF f = index THEN Erased ELSE Contents(f)[j]
  <1>1. AddrOf(f) + j \in Cell
    BY CellOfFile
  <1>2. cells'[AddrOf(f) + j] = IF AddrOf(f) + j \in AddrOf(index) .. AddrOf(index) + FileSize - 1
                                  THEN Erased ELSE cells[AddrOf(f) + j]
    BY <1>1 DEF EraseFile
  <1>3. AddrOf(f) + j \in AddrOf(index) .. AddrOf(index) + FileSize - 1 <=> f = index
    <2>1. index \in File
      BY DEF Types
    <2>. QED  BY <2>1, WholeFile
  <1>. QED  BY <1>2, <1>3, ContentsAt

LEMMA WipedContents ==
  ASSUME cells' = [c \in Cell |-> IF c < 2 * FileSize THEN Erased ELSE cells[c]],
         NEW f \in File, NEW j \in 0 .. FileSize - 1
  PROVE  Contents(f)'[j] = Erased
  <1>1. AddrOf(f) + j \in Cell /\ AddrOf(f) + j < 2 * FileSize
    BY CellOfFile, OneOfTheFiles
  <1>. QED  BY <1>1, ContentsAt

LEMMA ProgrammedContents ==
  ASSUME Types, NEW g \in File, NEW s \in Nat, NEW n \in Nat, s + n <= FileSize, Program(AddrOf(g) + s, n),
         NEW f \in File, NEW j \in 0 .. FileSize - 1
  PROVE  Contents(f)'[j] = IF f = g /\ j \in s .. s + n - 1
                             THEN IF Contents(f)[j] = Erased THEN entry ELSE Garbled
                             ELSE Contents(f)[j]
  <1>. DEFINE c == AddrOf(f) + j
  <1>1. c \in Cell
    BY CellOfFile
  <1>2. c \in AddrOf(g) + s .. AddrOf(g) + s + n - 1 <=> f = g /\ j \in s .. s + n - 1
    BY OneOfTheFiles
  <1>3. cells'[c] = IF c \notin AddrOf(g) + s .. AddrOf(g) + s + n - 1 THEN cells[c]
                    ELSE IF cells[c] = Erased THEN entry ELSE Garbled
    BY <1>1 DEF Program
  <1>4. Contents(f)[j] = cells[c] /\ Contents(f)'[j] = cells'[c]
    BY ContentsAt
  <1>. QED  BY <1>2, <1>3, <1>4

\* A file that keeps what is written stays sound, with more of it read or less.
LEMMA SoundStays ==
  ASSUME NEW a, NEW b, NEW o \in Nat, NEW p \in Nat, NEW s \in Nat, NEW m \in Nat, NEW n \in Nat,
         \A j \in 0 .. s - 1 : b[j] = a[j], p <= s, m <= n, Sound(a, o, s, m)
  PROVE  Sound(b, p, s, n)
  <1>1. \A j \in 0 .. s - 1 : b[j] \in 1 .. n
    BY DEF Sound
  <1>. QED  BY <1>1 DEF Sound

LEMMA BlankStays ==
  ASSUME NEW a, NEW b, NEW s, \A j \in 0 .. FileSize - 1 : b[j] = a[j], s \in Nat, Blank(a, s)
  PROVE  Blank(b, s)
  BY DEF Blank

LEMMA EmptyIsSound ==
  ASSUME NEW a, NEW m PROVE Sound(a, 0, 0, m)
  BY DEF Sound

-----------------------------------------------------------------------------
\* SoundInv, action by action
LEMMA InfoFactsNext ==
  ASSUME Types', NEW f \in File
  PROVE  info'[f].size \in Nat /\ info'[f].offset \in Nat /\ Start(f)' \in Nat /\ entry' \in Nat
  BY DEF Types, Infos, ReadingType, Start

\* What no step of the writer touches
LEMMA FileStays ==
  ASSUME Types, Types', NEW f \in File, FileInv(f), cells' = cells, entry' >= entry,
         info'[f].size = info[f].size, Start(f)' <= info[f].size,
         wr.at = "erase" /\ index = f => wr'.at = "erase" /\ index' = f
  PROVE  FileInv(f)'
  <1>1. Contents(f)' = Contents(f)
    BY SameContents
  <1>2. /\ info[f].size \in Nat /\ Start(f) \in Nat /\ entry \in Nat
        /\ Start(f)' \in Nat /\ entry' \in Nat
    BY InfoFacts, InfoFactsNext DEF Types
  <1>3. Sound(Contents(f)', Start(f)', info[f].size, entry')
    <2>1. Sound(Contents(f), Start(f), info[f].size, entry)
      BY DEF FileInv
    <2>. QED  BY <1>1, <1>2, <2>1, SoundStays
  <1>. QED  BY <1>1, <1>3 DEF FileInv

LEMMA FileIsEmpty ==
  ASSUME NEW f \in File, info'[f].size = 0, info'[f].offset = 0, ~ Taken(f)',
         (wr'.at = "erase" /\ index' = f) \/ Blank(Contents(f)', 0)
  PROVE  FileInv(f)'
  <1>1. Start(f)' = 0
    BY DEF Start
  <1>2. Sound(Contents(f)', 0, 0, entry')
    BY EmptyIsSound
  <1>. QED  BY <1>1, <1>2 DEF FileInv

LEMMA SavedIs ==
  ASSUME Types, NEW f \in File \ Unsaved
  PROVE  /\ stored = <<>> => info[f] = [size |-> 0, offset |-> 0]
         /\ stored # <<>> => stored[1] \in Infos /\ stored[1][f] = info[f]
  BY DEF Unsaved, NoInfo, Types

LEMMA LogKeepsSound ==
  ASSUME Types, Types', Shape, SoundInv, LogInit \/ LogDeinit \/ LogReset \/ LogErase
  PROVE  SoundInv'
  <1>1. CASE LogInit
    <2>. SUFFICES ASSUME NEW f \in File, f \notin hurt' PROVE FileInv(f)'
      BY DEF SoundInv
    <2>1. f \notin Unsaved /\ wr.at = "idle" /\ rd.at = "idle" /\ wr' = wr /\ rd' = rd /\ entry' = entry
      BY <1>1 DEF LogInit, Shape
    <2>2. ~ Taken(f)' /\ ~ Taken(f)
      BY <2>1 DEF Taken
    <2>3. CASE stored = <<>>
      <3>1. info' = info /\ cells' = [c \in Cell |-> IF c < 2 * FileSize THEN Erased ELSE cells[c]]
        BY <1>1, <2>3 DEF LogInit
      <3>2. info'[f].size = 0 /\ info'[f].offset = 0
        BY <2>1, <2>3, <3>1, SavedIs
      <3>3. Blank(Contents(f)', 0)
        BY <3>1, WipedContents DEF Blank
      <3>. QED  BY <2>2, <3>2, <3>3, FileIsEmpty
    <2>4. CASE stored # <<>>
      <3>1. info' = stored[1] /\ cells' = cells /\ f \notin hurt
        BY <1>1, <2>4 DEF LogInit
      <3>2. info'[f] = info[f]
        BY <2>1, <2>4, <3>1, SavedIs
      <3>3. FileInv(f)
        BY <2>4, <3>1 DEF SoundInv
      <3>4. Start(f)' = Start(f)
        BY <2>2, <3>2 DEF Start
      <3>5. Start(f) <= info[f].size /\ entry \in Nat
        BY <3>3 DEF FileInv, Sound, Types
      <3>. QED  BY <2>1, <3>1, <3>2, <3>3, <3>4, <3>5, FileStays
    <2>. QED  BY <2>3, <2>4
  <1>2. CASE LogDeinit
    <2>. SUFFICES ASSUME NEW f \in File, f \notin hurt' PROVE FileInv(f)'
      BY DEF SoundInv
    <2>1. FileInv(f)
      BY <1>2 DEF SoundInv, LogDeinit
    <2>. QED  BY <1>2, <2>1 DEF LogDeinit, FileInv, Contents, Start, Taken
  <1>3. CASE LogReset
    <2>. SUFFICES ASSUME NEW f \in File, f \notin hurt', stored # <<>> PROVE FileInv(f)'
      BY <1>3 DEF SoundInv, LogReset
    <2>1. /\ f \notin Unsaved /\ f \notin hurt /\ (wr.at = "idle" \/ index # f)
          /\ wr' = IdleWriter /\ rd' = IdleReader /\ entry' = entry /\ cells' = cells /\ info' = stored[1]
      BY <1>3 DEF LogReset
    <2>2. ~ Taken(f)'
      BY <2>1 DEF Taken, IdleReader
    <2>3. FileInv(f)
      BY <2>1 DEF SoundInv
    <2>4. info'[f] = info[f]
      BY <2>1, SavedIs
    <2>5. Start(f)' <= info[f].size
      <3>1. Start(f) <= info[f].size
        BY <2>3 DEF FileInv, Sound
      <3>2. info[f].offset \in Nat /\ info[f].size \in Nat /\ rd.n \in Nat
        BY InfoFacts DEF Types, ReadingType
      <3>3. Start(f) = info[f].offset + (IF Taken(f) THEN rd.n ELSE 0)
        BY DEF Start
      <3>4. Start(f)' = info[f].offset
        BY <2>2, <2>4, <3>2 DEF Start
      <3>. QED  BY <3>1, <3>2, <3>3, <3>4
    <2>6. entry' >= entry
      BY <2>1 DEF Types
    <2>. QED  BY <2>1, <2>3, <2>4, <2>5, <2>6, FileStays
  <1>4. CASE LogErase
    BY <1>4 DEF LogErase, SoundInv
  <1>. QED  BY <1>1, <1>2, <1>3, <1>4

\* An entry written to a file, or part of it
LEMMA FileGrows ==
  ASSUME Types, Types', Shape, SoundInv, wr.at = "data", NEW n \in Nat, Programs(n),
         wr'.at \in {"save", "idle"}, UNCHANGED <<rd, entry, index>>, NEW f \in File, f \notin hurt'
  PROVE  /\ FileInv(f) /\ FileInv(f)' /\ f \notin hurt /\ Start(f)' = Start(f)
         /\ f # index => /\ info'[f] = info[f]
                         /\ \A j \in 0 .. FileSize - 1 : Contents(f)'[j] = Contents(f)[j]
         /\ f = index => /\ info'[f].size = info[f].size + n
                         /\ \A j \in 0 .. info[f].size - 1 : Contents(f)'[j] = Contents(f)[j]
                         /\ \A j \in info[f].size .. info[f].size + n - 1 : Contents(f)'[j] = entry
  <1>1. /\ index \in File /\ entry \in Nat \ {0} /\ logReady
        /\ info[f].size \in Nat /\ info[f].offset \in Nat /\ Start(f) \in Nat
        /\ info[index].size \in Nat /\ info \in Infos
    <2>1. index \in File /\ info \in Infos /\ entry \in Nat /\ logReady /\ entry > 0
      BY DEF Types, Shape
    <2>2. info[f].size \in Nat /\ info[f].offset \in Nat /\ Start(f) \in Nat
      BY InfoFacts
    <2>3. info[index].size \in Nat
      BY <2>1, InfoFacts
    <2>. QED  BY <2>1, <2>2, <2>3
  <1>2. info[index].size + n <= FileSize /\ f \notin hurt
    BY <1>1 DEF Programs
  <1>3. /\ Program(AddrOf(index) + info[index].size, n)
        /\ info' = [info EXCEPT ![index].size = @ + n]
    BY DEF Programs
  <1>4. FileInv(f)
    BY <1>1, <1>2 DEF SoundInv
  <1>5. info'[f].offset = info[f].offset /\ Start(f)' = Start(f)
    <2>1. info'[f].offset = info[f].offset
      BY <1>1, <1>3 DEF Infos
    <2>. QED  BY <2>1 DEF Start, Taken
  <1>6. CASE f # index
    <2>1. info'[f] = info[f]
      BY <1>1, <1>3, <1>6 DEF Infos
    <2>2. \A j \in 0 .. FileSize - 1 : Contents(f)'[j] = Contents(f)[j]
      BY <1>1, <1>2, <1>3, <1>6, ProgrammedContents
    <2>3. Blank(Contents(f)', info[f].size)
      BY <1>1, <1>4, <1>6, <2>2, BlankStays DEF FileInv
    <2>4. Sound(Contents(f)', Start(f), info[f].size, entry)
      <3>1. Sound(Contents(f), Start(f), info[f].size, entry)
        BY <1>4 DEF FileInv
      <3>2. \A j \in 0 .. info[f].size - 1 : Contents(f)'[j] = Contents(f)[j]
        BY <1>1, <2>2, <3>1 DEF Sound
      <3>3. Start(f) <= info[f].size
        BY <3>1 DEF Sound
      <3>4. entry <= entry
        BY <1>1
      <3>. QED  BY <1>1, <3>1, <3>2, <3>3, <3>4, SoundStays
    <2>. QED  BY <1>2, <1>4, <1>5, <1>6, <2>1, <2>2, <2>3, <2>4 DEF FileInv
  <1>7. CASE f = index
    <2>1. info'[f].size = info[f].size + n
      BY <1>1, <1>3, <1>7 DEF Infos
    <2>2. \A j \in 0 .. FileSize - 1 :
            Contents(f)'[j] = IF j \in info[f].size .. info[f].size + n - 1
                                THEN IF Contents(f)[j] = Erased THEN entry ELSE Garbled
                                ELSE Contents(f)[j]
      BY <1>1, <1>2, <1>3, <1>7, ProgrammedContents
    <2>3. Sound(Contents(f), Start(f), info[f].size, entry) /\ Blank(Contents(f), info[f].size)
      BY <1>4 DEF FileInv
    <2>4. /\ Sound(Contents(f)', Start(f), info[f].size + n, entry)
          /\ Blank(Contents(f)', info[f].size + n)
          /\ \A j \in 0 .. info[f].size - 1 : Contents(f)'[j] = Contents(f)[j]
          /\ \A j \in info[f].size .. info[f].size + n - 1 : Contents(f)'[j] = entry
      <3>. DEFINE a == Contents(f)
                  b == Contents(f)'
                  s == info[f].size
      <3>1. s \in Nat /\ s + n <= FileSize /\ Start(f) \in Nat /\ entry \in Nat \ {0}
        BY <1>1, <1>2, <1>7
      <3>2. /\ Sound(a, Start(f), s, entry) /\ Blank(a, s)
            /\ \A j \in 0 .. FileSize - 1 :
                 b[j] = IF j \in s .. s + n - 1 THEN IF a[j] = Erased THEN entry ELSE Garbled ELSE a[j]
        BY <2>2, <2>3
      <3>. HIDE DEF a, b, s
      <3>3. /\ Sound(b, Start(f), s + n, entry) /\ Blank(b, s + n)
            /\ \A j \in 0 .. s - 1 : b[j] = a[j]
            /\ \A j \in s .. s + n - 1 : b[j] = entry
        <4>1. \A j \in 0 .. s - 1 : b[j] = a[j]
          BY <3>1, <3>2
        <4>2. \A j \in s .. s + n - 1 : b[j] = entry
          BY <3>1, <3>2 DEF Blank
        <4>3. \A j \in 0 .. s + n - 1 : b[j] \in 1 .. entry
          BY <3>1, <3>2, <4>1, <4>2 DEF Sound
        <4>4. Blank(b, s + n)
          BY <3>1, <3>2 DEF Blank
        <4>. QED  BY <3>1, <3>2, <4>1, <4>2, <4>3, <4>4 DEF Sound
      <3>. QED  BY <3>3 DEF a, b, s
    <2>. QED  BY <1>2, <1>4, <1>5, <1>7, <2>1, <2>4 DEF FileInv
  <1>. QED  BY <1>6, <1>7

LEMMA WriterKeepsSound ==
  ASSUME Types, Types', Shape, SoundInv,
         \/ \E n \in EntrySizes : WriteEntry(n)
         \/ WriteErase \/ WriteEraseFails \/ WriteData \/ WriteDataFails
         \/ \E newline \in BOOLEAN : WriteSave(newline)
  PROVE  SoundInv'
  <1>0. \A f \in File : Start(f) \in Nat /\ info[f].size \in Nat /\ info[f].offset \in Nat
    BY InfoFacts
  <1>. SUFFICES ASSUME NEW f \in File, f \notin hurt' PROVE FileInv(f)'
    BY DEF SoundInv
  <1>1. ASSUME NEW n \in EntrySizes, WriteEntry(n) PROVE FileInv(f)'
    <2>1. /\ cells' = cells /\ rd' = rd /\ entry' = entry + 1 /\ entry \in Nat
          /\ wr.at = "idle" /\ logReady /\ index \in File
      BY <1>1 DEF WriteEntry, Types
    <2>2. CASE Fits(n) \/ f = index
      <3>1. info'[f] = info[f] /\ f \notin hurt
        <4>1. CASE Fits(n)
          BY <1>1, <4>1 DEF WriteEntry
        <4>2. CASE ~ Fits(n)
          <5>1. /\ info' = [info EXCEPT ![Other(index)] = [size |-> 0, offset |-> 0]]
                /\ hurt \subseteq hurt'
            BY <1>1, <4>2 DEF WriteEntry
          <5>2. f # Other(index)
            BY <2>1, <2>2, <4>2 DEF Other
          <5>. QED  BY <5>1, <5>2 DEF Types, Infos
        <4>. QED  BY <4>1, <4>2
      <3>2. FileInv(f)
        BY <2>1, <3>1 DEF SoundInv
      <3>3. Start(f)' = Start(f) /\ Start(f) <= info[f].size
        BY <2>1, <3>1, <3>2 DEF Start, Taken, FileInv, Sound
      <3>. QED  BY <2>1, <3>1, <3>2, <3>3, FileStays
    <2>3. CASE ~ Fits(n) /\ f # index
      <3>1. f = Other(index)
        BY <2>1, <2>3 DEF Other
      <3>2. /\ info' = [info EXCEPT ![Other(index)] = [size |-> 0, offset |-> 0]]
            /\ index' = Other(index) /\ wr'.at = "erase"
        BY <1>1, <2>3 DEF WriteEntry
      <3>3. ~ Taken(f)
        BY <1>1, <2>3, <3>1 DEF WriteEntry, Busy, Taken
      <3>4. info'[f].size = 0 /\ info'[f].offset = 0
        BY <3>1, <3>2 DEF Types, Infos
      <3>. QED  BY <2>1, <3>1, <3>2, <3>3, <3>4, FileIsEmpty DEF Taken
    <2>. QED  BY <2>2, <2>3
  <1>2. CASE WriteErase
    <2>1. /\ cells' = EraseFile /\ info' = info /\ rd' = rd /\ entry' = entry /\ index' = index
          /\ wr.at = "erase" /\ logReady /\ info[index].size = 0 /\ index \in File
      BY <1>2 DEF WriteErase, Shape, Types
    <2>2. CASE f = index
      <3>1. info[f].offset = 0 /\ ~ Taken(f)
        <4>1. CASE f \in hurt
          BY <1>2, <2>2, <4>1, <1>0 DEF WriteErase, Busy, Taken
        <4>2. CASE f \notin hurt
          <5>1. Start(f) <= 0
            BY <2>1, <2>2, <4>2 DEF SoundInv, FileInv, Sound
          <5>2. Taken(f) => rd.n \in Nat \ {0}
            BY DEF Taken, Shape, Types, ReadingType
          <5>. QED  BY <1>0, <5>1, <5>2 DEF Start
        <4>. QED  BY <4>1, <4>2
      <3>2. Blank(Contents(f)', 0)
        BY <2>1, <2>2, ErasedContents DEF Blank
      <3>. QED  BY <2>1, <2>2, <3>1, <3>2, FileIsEmpty DEF Taken
    <2>3. CASE f # index
      <3>1. f \notin hurt
        BY <1>2, <2>3 DEF WriteErase
      <3>2. FileInv(f)
        BY <2>1, <3>1 DEF SoundInv
      <3>3. \A j \in 0 .. FileSize - 1 : Contents(f)'[j] = Contents(f)[j]
        BY <2>1, <2>3, ErasedContents
      <3>4. Sound(Contents(f), Start(f), info[f].size, entry) /\ Blank(Contents(f), info[f].size)
        BY <2>3, <3>2 DEF FileInv
      <3>5. Sound(Contents(f)', Start(f), info[f].size, entry)
        <4>1. \A j \in 0 .. info[f].size - 1 : Contents(f)'[j] = Contents(f)[j]
          BY <1>0, <3>3, <3>4 DEF Sound
        <4>. QED  BY <3>4, <4>1 DEF Sound
      <3>6. Blank(Contents(f)', info[f].size)
        BY <1>0, <3>3, <3>4, BlankStays
      <3>. QED  BY <2>1, <3>5, <3>6 DEF FileInv, Start, Taken
    <2>. QED  BY <2>2, <2>3
  <1>3. CASE WriteEraseFails
    <2>1. /\ cells' = cells /\ info' = info /\ rd' = rd /\ entry' = entry /\ index' = index
          /\ f \notin hurt /\ index # f /\ logReady
      BY <1>3 DEF WriteEraseFails, Shape
    <2>2. FileInv(f)
      BY <2>1 DEF SoundInv
    <2>3. Start(f)' = Start(f) /\ Start(f) <= info[f].size
      BY <2>1, <2>2 DEF Start, Taken, FileInv, Sound
    <2>4. entry' >= entry
      BY <2>1 DEF Types
    <2>. QED  BY <2>1, <2>2, <2>3, <2>4, FileStays
  <1>4. CASE WriteData
    <2>1. wr.n + (IF stamp THEN StampSize ELSE 0) \in Nat
      BY DEF WriterType, Types
    <2>2. wr'.at = "save"
      BY <1>4 DEF WriteData, Types, WriterType
    <2>. QED  BY <1>4, <2>1, <2>2, FileGrows DEF WriteData
  <1>5. CASE WriteDataFails
    <2>1. (IF stamp THEN StampSize ELSE 0) \in Nat
      OBVIOUS
    <2>2. wr'.at = "idle"
      BY <1>5 DEF WriteDataFails, IdleWriter
    <2>. QED  BY <1>5, <2>1, <2>2, FileGrows DEF WriteDataFails
  <1>6. ASSUME NEW newline \in BOOLEAN, WriteSave(newline) PROVE FileInv(f)'
    <2>1. /\ cells' = cells /\ info' = info /\ rd' = rd /\ entry' = entry /\ index' = index
          /\ f \notin hurt /\ wr.at = "save" /\ logReady
      BY <1>6 DEF WriteSave, Shape
    <2>2. FileInv(f)
      BY <2>1 DEF SoundInv
    <2>3. Start(f)' = Start(f) /\ Start(f) <= info[f].size
      BY <2>1, <2>2 DEF Start, Taken, FileInv, Sound
    <2>4. entry' >= entry
      BY <2>1 DEF Types
    <2>. QED  BY <2>1, <2>2, <2>3, <2>4, FileStays
  <1>. QED  BY <1>1, <1>2, <1>3, <1>4, <1>5, <1>6

\* A read is of what the file holds.
LEMMA AskedIsThere ==
  ASSUME Types, Shape, NEW f \in File, FileInv(f), ~ Taken(f)
  PROVE  /\ Start(f) = info[f].offset /\ Unread(f) = info[f].size - info[f].offset
         /\ Asked(f) \in Nat /\ Asked(f) <= info[f].size - info[f].offset
         /\ Asked(f) = 0 => info[f].size <= info[f].offset \/ rd.room = Len(rd.got)
  <1>1. info[f].size \in Nat /\ info[f].offset \in Nat /\ rd.room \in Nat /\ Len(rd.got) \in Nat
    BY InfoFacts DEF Types, ReadingType
  <1>2. Start(f) = info[f].offset
    BY <1>1 DEF Start
  <1>3. info[f].offset <= info[f].size
    BY <1>2 DEF FileInv, Sound
  <1>4. Unread(f) = info[f].size - info[f].offset
    BY <1>1, <1>3 DEF Unread
  <1>5. Len(rd.got) <= rd.room
    BY DEF Shape
  <1>. DEFINE room == rd.room - Len(rd.got)
              left == info[f].size - info[f].offset
  <1>6. room \in Nat /\ left \in Nat
    BY <1>1, <1>3, <1>5
  <1>7. Asked(f) = IF room < left THEN room ELSE left
    BY <1>4 DEF Asked, Smaller
  <1>8. room = 0 => rd.room = Len(rd.got)
    BY <1>1
  <1>9. left = 0 => info[f].size <= info[f].offset
    BY <1>1
  <1>. HIDE DEF room, left
  <1>10. Asked(f) \in Nat /\ Asked(f) <= left /\ (Asked(f) = 0 => room = 0 \/ left = 0)
    BY <1>6, <1>7
  <1>. QED  BY <1>2, <1>4, <1>8, <1>9, <1>10 DEF left

\* What mdebug_flash_read counts as read is what it read.
LEMMA CountKeepsStart ==
  ASSUME Types, Shape, ReadCount, NEW f \in File
  PROVE  Start(f)' = Start(f) /\ info'[f].size = info[f].size
  <1>1. /\ info' = [info EXCEPT ![rd.file].offset = @ + rd.n] /\ rd.at = "count" /\ rd' = ReadNext
    BY DEF ReadCount
  <1>2. ~ Taken(f)'
    BY <1>1, ReadNextFacts DEF Taken
  <1>3. Taken(f) <=> f = rd.file
    BY <1>1 DEF Taken
  <1>. QED  BY <1>1, <1>2, <1>3, CountChanges, InfoFacts DEF Start

LEMMA ReaderKeepsSound ==
  ASSUME Types, Types', Shape, PlanInv, SoundInv,
         \/ \E room \in Rooms : ReadEntry(room)
         \/ ReadNothing \/ ReadSize \/ ReadFile \/ ReadFileFails \/ ReadCount
  PROVE  SoundInv'
  <1>0. \A f \in File : Start(f) \in Nat /\ info[f].size \in Nat /\ info[f].offset \in Nat
    BY InfoFacts
  <1>. SUFFICES ASSUME NEW f \in File, f \notin hurt' PROVE FileInv(f)'
    BY DEF SoundInv
  <1>1. logReady /\ cells' = cells /\ wr' = wr /\ index' = index /\ entry' = entry /\ entry' >= entry
    <2>1. cells' = cells /\ wr' = wr /\ index' = index /\ entry' = entry
      BY DEF ReadEntry, ReadNothing, ReadSize, ReadFile, ReadFileFails, ReadCount
    <2>2. logReady
      BY DEF ReadEntry, ReadNothing, ReadSize, ReadFile, ReadFileFails, ReadCount, Shape
    <2>3. entry' >= entry
      BY <2>1 DEF Types
    <2>. QED  BY <2>1, <2>2, <2>3
  <1>2. f \notin hurt
    BY DEF ReadEntry, ReadNothing, ReadSize, ReadFile, ReadFileFails, ReadCount
  <1>3. FileInv(f)
    BY <1>1, <1>2 DEF SoundInv
  <1>4. info'[f].size = info[f].size /\ Start(f)' <= info[f].size => FileInv(f)'
    BY <1>1, <1>3, FileStays
  <1>5. Start(f) <= info[f].size
    BY <1>3 DEF FileInv, Sound
  <1>6. ASSUME NEW room \in Rooms, ReadEntry(room) PROVE FileInv(f)'
    <2>1. ~ Taken(f)' /\ ~ Taken(f)
      BY <1>6, EntryOfRead DEF Taken
    <2>. QED  BY <1>4, <1>5, <1>6, <2>1 DEF ReadEntry, Start
  <1>7. CASE ReadNothing
    <2>1. ~ Taken(f)' /\ ~ Taken(f)
      BY <1>7, ReadNextFacts DEF ReadNothing, Taken
    <2>. QED  BY <1>4, <1>5, <1>7, <2>1 DEF ReadNothing, Start
  <1>8. CASE ReadFile
    <2>1. ~ Taken(f) /\ info' = info /\ rd.at = "read"
      BY <1>8 DEF ReadFile, Taken
    <2>2. rd'.at = "count" /\ rd'.file = rd.file /\ rd'.n = rd.n
      BY <1>8, ReadFileFacts
    <2>3. Start(f)' <= info[f].size
      <3>1. CASE f = rd.file
        BY <1>2, <2>1, <2>2, <3>1 DEF Start, Taken, PlanInv
      <3>2. CASE f # rd.file
        BY <1>0, <1>5, <2>1, <2>2, <3>2 DEF Start, Taken
      <3>. QED  BY <3>1, <3>2
    <2>. QED  BY <1>4, <2>1, <2>3
  <1>9. CASE ReadFileFails
    <2>1. rd' = IdleReader /\ rd.at = "read" /\ f # rd.file
      BY <1>9 DEF ReadFileFails
    <2>2. ~ Taken(f)' /\ ~ Taken(f)
      BY <2>1 DEF Taken, IdleReader
    <2>3. info'[f] = info[f]
      BY <1>9, <2>1 DEF ReadFileFails, Types, Infos
    <2>. QED  BY <1>4, <1>5, <2>2, <2>3 DEF Start
  <1>10. CASE ReadSize
    <2>1. ~ Taken(f)' /\ ~ Taken(f) /\ info' = info
      BY <1>10, ReadSizeFacts DEF ReadSize, Taken
    <2>. QED  BY <1>4, <1>5, <2>1 DEF Start
  <1>11. CASE ReadCount
    BY <1>4, <1>5, <1>11, CountKeepsStart
  <1>. QED  BY <1>6, <1>7, <1>8, <1>9, <1>10, <1>11

-----------------------------------------------------------------------------
\* A rotation between the size and the read hurts the file that was to be read.
LEMMA StepKeepsPlan ==
  ASSUME Types, Types', Shape, PlanInv, SoundInv, [FlashNext]_flashVars
  PROVE  PlanInv'
  <1>. SUFFICES ASSUME rd'.at = "read", rd'.file \notin hurt'
                PROVE  info'[rd'.file].offset + rd'.n <= info'[rd'.file].size
    BY DEF PlanInv
  <1>0. rd.file \in File /\ index \in File /\ info \in Infos /\ rd \in ReadingType
    BY DEF Types, ReadingType
  <1>1. CASE ReadSize
    <2>1. /\ FirstFile(rd.i) \in File /\ rd'.file = FirstFile(rd.i) /\ rd'.n = Asked(FirstFile(rd.i))
          /\ info' = info /\ hurt' = hurt /\ ~ Taken(rd'.file) /\ logReady
      BY <1>1, ReadSizeFacts DEF ReadSize, Taken, Shape
    <2>2. FileInv(rd'.file)
      BY <2>1 DEF SoundInv
    <2>3. Asked(rd'.file) \in Nat /\ Asked(rd'.file) <= info[rd'.file].size - info[rd'.file].offset
      BY <2>1, <2>2, AskedIsThere
    <2>4. info[rd'.file].size \in Nat /\ info[rd'.file].offset \in Nat
      BY <2>1, InfoFacts
    <2>. QED  BY <2>1, <2>3, <2>4
  <1>2. CASE rd' = rd /\ info' = info /\ (rd.file \in hurt => rd.file \in hurt')
    BY <1>2 DEF PlanInv
  <1>3. ASSUME NEW n \in EntrySizes, WriteEntry(n) PROVE info'[rd'.file].offset + rd'.n <= info'[rd'.file].size
    <2>1. CASE Fits(n)
      BY <1>2, <1>3, <2>1 DEF WriteEntry
    <2>2. CASE ~ Fits(n)
      <3>1. /\ info' = [info EXCEPT ![Other(index)] = [size |-> 0, offset |-> 0]] /\ rd' = rd
            /\ hurt' = IF Busy(Other(index)) THEN hurt \union {Other(index)} ELSE hurt
        BY <1>3, <2>2 DEF WriteEntry
      <3>2. rd.file # Other(index) /\ rd.file \notin hurt
        BY <3>1 DEF Busy
      <3>3. info'[rd.file] = info[rd.file]
        BY <1>0, <3>1, <3>2 DEF Infos
      <3>. QED  BY <3>1, <3>2, <3>3 DEF PlanInv
    <2>. QED  BY <2>1, <2>2
  <1>4. CASE WriteErase
    BY <1>2, <1>4 DEF WriteErase, Busy
  <1>5. ASSUME NEW n \in Nat, Programs(n), rd' = rd PROVE info'[rd'.file].offset + rd'.n <= info'[rd'.file].size
    <2>1. info' = [info EXCEPT ![index].size = @ + n] /\ rd.file \notin hurt
      BY <1>0, <1>5 DEF Programs
    <2>2. info[rd.file].offset + rd.n <= info[rd.file].size
      BY <1>5, <2>1 DEF PlanInv
    <2>3. info[rd.file].offset \in Nat /\ info[rd.file].size \in Nat /\ rd.n \in Nat
      BY <1>0, InfoFacts DEF ReadingType
    <2>4. info'[rd.file].offset = info[rd.file].offset /\ info'[rd.file].size >= info[rd.file].size
      BY <1>0, <1>5, <2>1, <2>3 DEF Infos
    <2>5. info'[rd.file].size \in Nat
      BY <1>0, InfoFactsNext
    <2>. QED  BY <1>5, <2>2, <2>3, <2>4, <2>5
  <1>6. CASE WriteData
    <2>1. wr.n + (IF stamp THEN StampSize ELSE 0) \in Nat
      BY DEF WriterType, Types
    <2>. QED  BY <1>5, <1>6, <2>1 DEF WriteData
  <1>7. CASE WriteDataFails
    <2>1. (IF stamp THEN StampSize ELSE 0) \in Nat
      OBVIOUS
    <2>. QED  BY <1>5, <1>7, <2>1 DEF WriteDataFails
  <1>8. CASE WriteEraseFails
    BY <1>2, <1>8 DEF WriteEraseFails
  <1>9. ASSUME NEW newline \in BOOLEAN, WriteSave(newline) PROVE info'[rd'.file].offset + rd'.n <= info'[rd'.file].size
    BY <1>2, <1>9 DEF WriteSave
  <1>10. CASE UNCHANGED flashVars
    BY <1>2, <1>10 DEF flashVars
  <1>11. ~ (LogInit \/ LogDeinit \/ LogReset \/ LogErase)
    BY DEF LogInit, LogDeinit, LogReset, LogErase, Shape, IdleReader
  <1>12. ~ (ReadNothing \/ ReadFile \/ ReadFileFails \/ ReadCount)
    <2>1. ReadNext.at # "read" /\ IdleReader.at # "read"
      BY ReadNextFacts DEF IdleReader
    <2>. QED  BY <2>1, ReadFileFacts DEF ReadNothing, ReadFileFails, ReadCount
  <1>13. \A room \in Rooms : ~ ReadEntry(room)
    BY EntryOfRead
  <1>. QED
    BY <1>1, <1>3, <1>4, <1>6, <1>7, <1>8, <1>9, <1>10, <1>11, <1>12, <1>13 DEF FlashNext

-----------------------------------------------------------------------------
\* GotInv, and the order of what was read
LEMMA EntryGrows == ASSUME Types, [FlashNext]_flashVars PROVE entry' = entry \/ entry' = entry + 1
  BY DEF FlashNext, flashVars, LogInit, LogDeinit, LogReset, LogErase, WriteEntry, WriteErase,
         WriteEraseFails, WriteData, WriteDataFails, WriteSave, ReadEntry, ReadNothing, ReadSize, ReadFile,
         ReadFileFails, ReadCount, Programs

LEMMA GotStays ==
  ASSUME Types, GotInv, rd'.got = rd.got \/ rd'.got = <<>>, rd'.at = "count" => rd' = rd,
         entry' = entry \/ entry' = entry + 1
  PROVE  GotInv'
  <1>1. 1 .. entry \subseteq 1 .. entry'
    BY DEF Types
  <1>2. \A k \in 1 .. Len(rd'.got) : rd'.got[k] = Hurt \/ rd'.got[k] \in 1 .. entry'
    <2>1. CASE rd'.got = rd.got
      BY <1>1, <2>1 DEF GotInv
    <2>2. CASE rd'.got = <<>>
      BY <2>2
    <2>. QED  BY <2>1, <2>2
  <1>3. rd'.at = "count" => rd.at = "count" /\ rd'.n = rd.n /\ Caught' = Caught
    BY DEF Caught
  <1>. QED  BY <1>1, <1>2, <1>3 DEF GotInv

LEMMA OneOfThese ==
  ASSUME NEW o \in Nat, NEW s \in Nat, NEW n \in Nat, n <= s - o, NEW k \in 1 .. n
  PROVE  o + k - 1 \in 0 .. s - 1
  OBVIOUS

\* The cells of a file that a read takes: none of them is erased or programmed twice.
LEMMA ReadCells ==
  ASSUME Types, Shape, PlanInv, SoundInv, ReadFile
  PROVE  LET f == rd.file IN
         \/ f \in hurt /\ \A k \in 1 .. rd.n : Caught'[k] = Hurt
         \/ /\ f \notin hurt /\ FileInv(f)
            /\ \A k \in 1 .. rd.n : /\ Start(f) + k - 1 \in 0 .. info[f].size - 1
                                        /\ Caught'[k] = Contents(f)[Start(f) + k - 1]
                                        /\ Caught'[k] \in 1 .. entry
  <1>. DEFINE f == rd.file
              from == ReadFrom - 1
              read == [k \in 1 .. rd.n |-> IF f \in hurt THEN Hurt ELSE cells[from + k]]
  <1>1. f \in File /\ rd.n \in Nat \ {0} /\ Caught' = read
    BY ReadFileFacts
  <1>2. rd.at = "read" /\ logReady /\ ~ Taken(f)
    BY DEF ReadFile, Shape, Taken
  <1>3. ASSUME f \notin hurt, NEW k \in 1 .. rd.n
        PROVE  /\ Start(f) + k - 1 \in 0 .. info[f].size - 1
               /\ Caught'[k] = Contents(f)[Start(f) + k - 1] /\ Caught'[k] \in 1 .. entry
    <2>. HIDE DEF f
    <2>1. FileInv(f)
      BY <1>1, <1>2, <1>3 DEF SoundInv
    <2>2. Start(f) = info[f].offset /\ rd.n <= info[f].size - info[f].offset
      <3>1. info[f].offset \in Nat /\ info[f].size \in Nat
        BY <1>1, InfoFacts
      <3>2. info[f].offset + rd.n <= info[f].size
        BY <1>2, <1>3 DEF PlanInv, f
      <3>3. Start(f) = info[f].offset
        BY <1>2, <3>1 DEF Start
      <3>. QED  BY <1>1, <3>1, <3>2, <3>3
    <2>3. info[f].size \in Nat /\ info[f].offset \in Nat /\ AddrOf(f) \in Int
      <3>1. AddrOf(f) \in Int
        BY <1>1, OneOfTheFiles
      <3>. QED  BY <1>1, <3>1, InfoFacts
    <2>4. Sound(Contents(f), Start(f), info[f].size, entry)
      BY <2>1 DEF FileInv
    <2>5. Start(f) + k - 1 \in 0 .. info[f].size - 1 /\ Start(f) + k - 1 \in 0 .. FileSize - 1
      <3>1. info[f].size <= FileSize
        BY <2>4 DEF Sound
      <3>2. Start(f) + k - 1 \in 0 .. info[f].size - 1
        BY <1>1, <2>2, <2>3, OneOfThese
      <3>. QED  BY <2>3, <3>1, <3>2
    <2>6. Contents(f)[Start(f) + k - 1] = cells[from + k]
      <3>1. Contents(f)[Start(f) + k - 1] = cells[AddrOf(f) + (Start(f) + k - 1)]
        BY <1>1, <2>5, ContentsAt
      <3>2. AddrOf(f) + (Start(f) + k - 1) = from + k
        BY <1>1, <2>2, <2>3 DEF ReadFrom, f
      <3>. QED  BY <3>1, <3>2
    <2>7. read[k] = cells[from + k]
      BY <1>3
    <2>. QED  BY <1>1, <2>4, <2>5, <2>6, <2>7 DEF Sound
  <1>4. f \in hurt => \A k \in 1 .. rd.n : Caught'[k] = Hurt
    BY <1>1
  <1>5. f \notin hurt => FileInv(f)
    BY <1>1, <1>2 DEF SoundInv
  <1>. HIDE DEF read, from
  <1>. QED  BY <1>3, <1>4, <1>5

LEMMA ReadKeepsGot ==
  ASSUME Types, Shape, PlanInv, SoundInv, GotInv, ReadFile
  PROVE  GotInv'
  <1>. DEFINE f == rd.file
  <1>1. PICK s \in Seq(Int) : Caught' = s /\ Len(s) = rd.n /\ rd'.got = rd.got \o s
    BY ReadFileFacts
  <1>2. rd.got \in Seq(Int) /\ entry' = entry /\ rd'.n = rd.n
    BY ReadFileFacts DEF Types, ReadingType, ReadFile
  <1>3. \/ \A k \in 1 .. rd.n : s[k] = Hurt
        \/ \A k \in 1 .. rd.n : s[k] \in 1 .. entry
    BY <1>1, ReadCells
  <1>. HIDE DEF f
  <1>4. ASSUME NEW k \in 1 .. Len(rd'.got) PROVE rd'.got[k] = Hurt \/ rd'.got[k] \in 1 .. entry
    <2>1. /\ Len(rd'.got) = Len(rd.got) + Len(s) /\ Len(rd.got) \in Nat /\ Len(s) \in Nat
          /\ rd'.got[k] = IF k <= Len(rd.got) THEN rd.got[k] ELSE s[k - Len(rd.got)]
      BY <1>1, <1>2
    <2>2. CASE k <= Len(rd.got)
      BY <2>1, <2>2 DEF GotInv
    <2>3. CASE k > Len(rd.got)
      <3>1. k - Len(rd.got) \in 1 .. rd.n
        BY <1>1, <2>1, <2>3
      <3>. QED  BY <1>3, <2>1, <2>3, <3>1
    <2>. QED  BY <2>1, <2>2, <2>3
  <1>. QED  BY <1>1, <1>2, <1>3, <1>4 DEF GotInv

LEMMA StepKeepsGot ==
  ASSUME Types, Shape, PlanInv, SoundInv, GotInv, [FlashNext]_flashVars
  PROVE  GotInv'
  <1>1. CASE ReadFile
    BY <1>1, ReadKeepsGot
  <1>2. CASE rd' = IdleReader
    BY <1>2, EntryGrows, GotStays DEF IdleReader
  <1>3. CASE rd' = rd
    BY <1>3, EntryGrows, GotStays
  <1>4. ASSUME NEW room \in Rooms, ReadEntry(room) PROVE GotInv'
    BY <1>4, EntryOfRead, EntryGrows, GotStays
  <1>5. CASE rd' = ReadNext
    BY <1>2, <1>5, ReadNextFacts, EntryGrows, GotStays
  <1>6. CASE ReadSize
    BY <1>6, ReadSizeFacts, EntryGrows, GotStays
  <1>7. \/ ReadFile \/ ReadSize \/ rd' = IdleReader \/ rd' = rd \/ rd' = ReadNext
        \/ \E room \in Rooms : ReadEntry(room)
    BY DEF FlashNext, flashVars, LogInit, LogDeinit, LogReset, LogErase, WriteEntry, WriteErase,
           WriteEraseFails, WriteData, WriteDataFails, WriteSave, ReadNothing, ReadFileFails, ReadCount
  <1>. QED  BY <1>1, <1>2, <1>3, <1>4, <1>5, <1>6, <1>7

\* A read is of one kind.
LEMMA CaughtEntries ==
  ASSUME Types, Shape, GotInv, rd.at = "count"
  PROVE  /\ rd.n \in Nat \ {0}
         /\ ~ HasNew => \A k \in 1 .. rd.n : Caught[k] = Hurt
         /\ HasNew => \A k \in 1 .. rd.n : Caught[k] \in 1 .. entry
  <1>1. rd.n \in Nat \ {0}
    BY DEF Types, ReadingType, Shape
  <1>2. 1 \in 1 .. rd.n /\ Hurt \notin 1 .. entry
    BY <1>1 DEF Hurt, Types
  <1>. QED  BY <1>1, <1>2 DEF GotInv, HasNew

LEMMA NewestIsEntry ==
  ASSUME Types, Shape, GotInv, CountOrder
  PROVE  Newest \in 0 .. entry /\ last.newest \in 0 .. entry /\ last.newest <= Newest
  <1>1. last.newest \in 0 .. entry /\ entry \in Nat
    BY DEF CountOrder, Types
  <1>2. CASE HasNew
    <2>1. rd.at = "count"
      BY <1>2 DEF HasNew
    <2>2. rd.n \in Nat \ {0} /\ \A k \in 1 .. rd.n : Caught[k] \in 1 .. entry
      BY <1>2, <2>1, CaughtEntries
    <2>3. last.newest <= Caught[1] /\ Caught[1] <= Caught[rd.n]
      BY <1>2, <2>2 DEF CountOrder
    <2>. QED  BY <1>1, <1>2, <2>2, <2>3 DEF Newest
  <1>3. CASE ~ HasNew
    BY <1>1, <1>3 DEF Newest
  <1>. QED  BY <1>2, <1>3

-----------------------------------------------------------------------------
\* OrderInv, action by action
LEMMA SmallFiles ==
  ASSUME Types', NEW f \in File, info'[f].size = 0
  PROVE  /\ LeftInv(f)'
         /\ \A a, b, s : AllBefore(a, 0, b, s) /\ AllBefore(b, s, a, 0)
  <1>1. Start(f)' \in Nat
    BY InfoFactsNext
  <1>. QED  BY <1>1 DEF LeftInv, NotBefore, Ordered, AllBefore

LEMMA LeftStays ==
  ASSUME Types, Types', NEW f \in File, LeftInv(f), info'[f].size = info[f].size, Start(f)' >= Start(f),
         \A j \in 0 .. info[f].size - 1 : Contents(f)'[j] = Contents(f)[j],
         Newest' = Newest
  PROVE  LeftInv(f)'
  <1>1. Start(f) \in Nat /\ Start(f)' \in Nat /\ info[f].size \in Nat
    BY InfoFacts, InfoFactsNext
  <1>2. \A j \in Start(f)' .. info[f].size - 1 :
          j \in 0 .. info[f].size - 1 /\ j \in Start(f) .. info[f].size - 1
    BY <1>1
  <1>3. NotBefore(Contents(f)', Start(f)', info[f].size, Newest)
    BY <1>2 DEF LeftInv, NotBefore
  <1>4. Ordered(Contents(f)', info[f].size)
    BY DEF LeftInv, Ordered
  <1>. QED  BY <1>3, <1>4 DEF LeftInv

LEMMA BeforeStays ==
  ASSUME NEW a, NEW b, NEW s, NEW c, NEW d, NEW t, AllBefore(a, s, c, t),
         \A j \in 0 .. s - 1 : b[j] = a[j], \A j \in 0 .. t - 1 : d[j] = c[j]
  PROVE  AllBefore(b, s, d, t)
  BY DEF AllBefore

\* Of the same tasks, the same is known.
LEMMA ReadStays ==
  ASSUME Types, CountOrder, rd' = rd, last' = last, entry' = entry \/ entry' = entry + 1
  PROVE  CountOrder' /\ Newest' = Newest /\ \A f \in File : info'[f].offset = info[f].offset => Start(f)' = Start(f)
  <1>1. Caught' = Caught /\ (HasNew' <=> HasNew)
    BY DEF Caught, HasNew
  <1>2. last.newest \in 0 .. entry'
    BY DEF CountOrder, Types
  <1>. QED  BY <1>1, <1>2 DEF CountOrder, Newest, Start, Taken

LEMMA LogKeepsOrder ==
  ASSUME Types, Types', Shape, OrderInv, LogInit \/ LogDeinit \/ LogReset \/ LogErase
  PROVE  OrderInv'
  <1>. SUFFICES ASSUME ~ disturbed' PROVE OrderInv'
    BY DEF OrderInv
  <1>1. CASE LogInit
    <2>1. /\ stored = <<>> /\ info = NoInfo /\ CountOrder /\ rd.at = "idle"
          /\ rd' = rd /\ last' = last /\ entry' = entry /\ info' = NoInfo /\ logReady'
      BY <1>1 DEF LogInit, Shape, OrderInv
    <2>2. \A f \in File : info'[f].size = 0 /\ f \in File
      BY <2>1 DEF NoInfo
    <2>3. CountOrder'
      BY <2>1, ReadStays
    <2>4. LeftOrder'
      BY <2>2, SmallFiles DEF LeftOrder
    <2>5. FileOrder'
      <3>1. index' \in File /\ Other(index') \in File
        BY OtherIsFile DEF Types
      <3>. QED  BY <2>2, <3>1, SmallFiles DEF FileOrder
    <2>6. ReaderOrder'
      BY <2>1 DEF ReaderOrder
    <2>. QED  BY <2>1, <2>3, <2>4, <2>5, <2>6 DEF OrderInv
  <1>2. CASE LogDeinit
    BY <1>2 DEF LogDeinit
  <1>3. CASE LogReset
    BY <1>3 DEF LogReset
  <1>4. CASE LogErase
    <2>1. /\ logReady' /\ rd' = rd /\ rd.at = "idle" /\ last' = last /\ entry' = entry
          /\ hurt' = {0, 1} /\ ~ disturbed
      BY <1>4 DEF LogErase
    <2>2. CountOrder'
      BY <2>1, ReadStays DEF OrderInv
    <2>3. LeftOrder' /\ FileOrder'
      BY <2>1 DEF LeftOrder, FileOrder
    <2>4. ReaderOrder'
      BY <2>1 DEF ReaderOrder
    <2>. QED  BY <2>1, <2>2, <2>3, <2>4 DEF OrderInv
  <1>. QED  BY <1>1, <1>2, <1>3, <1>4

\* Whoever reads is not disturbed by a writer that does not rotate the files.
LEMMA ReaderStays ==
  ASSUME Types, ReaderOrder, rd' = rd, index' = index,
         Other(index) \in hurt => Other(index) \in hurt', info'[Other(index)] = info[Other(index)]
  PROVE  ReaderOrder'
  <1>1. Other(index) \in File
    BY OtherIsFile DEF Types
  <1>2. Start(Other(index))' = Start(Other(index))
    BY DEF Start, Taken
  <1>3. FirstFile(rd.i)' = FirstFile(rd.i)
    BY DEF FirstFile
  <1>. QED  BY <1>2, <1>3 DEF ReaderOrder

\* An entry is as new as any that was read or written before.
LEMMA EntryIsNewest ==
  ASSUME Types, Types', Shape, SoundInv, GotInv, CountOrder, LeftOrder, FileOrder, ReaderOrder,
         wr.at = "data", NEW n \in Nat, Programs(n),
         wr'.at \in {"save", "idle"}, UNCHANGED <<rd, entry, index, last>>
  PROVE  CountOrder' /\ LeftOrder' /\ FileOrder' /\ ReaderOrder'
  <1>1. /\ index \in File /\ Other(index) \in File /\ Other(index) # index /\ index' = index
        /\ entry \in Nat /\ entry' = entry
    BY OtherIsFile DEF Types, Other
  <1>2. CountOrder' /\ Newest' = Newest /\ Newest \in 0 .. entry
    BY <1>1, ReadStays, NewestIsEntry
  <1>3. ASSUME NEW f \in File, f \notin hurt' PROVE LeftInv(f)'
    <2>1. LeftInv(f) /\ f \notin hurt /\ FileInv(f) /\ Start(f)' = Start(f)
      BY <1>3, FileGrows DEF LeftOrder
    <2>2. info[f].size \in Nat /\ Start(f) \in Nat
      BY InfoFacts
    <2>3. Sound(Contents(f), Start(f), info[f].size, entry)
      BY <2>1 DEF FileInv
    <2>4. CASE f # index
      <3>1. /\ info'[f] = info[f]
            /\ \A j \in 0 .. FileSize - 1 : Contents(f)'[j] = Contents(f)[j]
        BY <1>3, <2>4, FileGrows
      <3>2. \A j \in 0 .. info[f].size - 1 : Contents(f)'[j] = Contents(f)[j]
        BY <2>2, <2>3, <3>1 DEF Sound
      <3>. QED  BY <1>2, <2>1, <2>2, <3>1, <3>2, LeftStays
    <2>5. CASE f = index
      <3>. DEFINE a == Contents(f)
                  s == info[f].size
      <3>0. PICK b : b = Contents(f)'
        OBVIOUS
      <3>1. /\ info'[f].size = s + n
            /\ \A j \in 0 .. s - 1 : b[j] = a[j]
            /\ \A j \in s .. s + n - 1 : b[j] = entry
        BY <1>3, <2>5, <3>0, FileGrows
      <3>2. /\ \A j \in 0 .. s - 1 : a[j] \in 1 .. entry
            /\ \A j \in Start(f) .. s - 1 : Newest <= a[j]
            /\ \A j, k \in 0 .. s - 1 : j <= k => a[j] <= a[k]
        BY <2>1, <2>3 DEF Sound, LeftInv, NotBefore, Ordered
      <3>. HIDE DEF a, s
      <3>3. s \in Nat
        BY <2>2 DEF s
      <3>4. \A j \in Start(f) .. s + n - 1 : Newest <= b[j]
        <4>. SUFFICES ASSUME NEW j \in Start(f) .. s + n - 1 PROVE Newest <= b[j]
          OBVIOUS
        <4>1. CASE j < s
          BY <2>2, <3>1, <3>2, <3>3, <4>1
        <4>2. CASE j >= s
          BY <1>1, <1>2, <2>2, <3>1, <3>3, <4>2
        <4>. QED  BY <2>2, <3>3, <4>1, <4>2
      <3>5. \A j, k \in 0 .. s + n - 1 : j <= k => b[j] <= b[k]
        <4>. SUFFICES ASSUME NEW j \in 0 .. s + n - 1, NEW k \in 0 .. s + n - 1, j <= k PROVE b[j] <= b[k]
          OBVIOUS
        <4>1. CASE k < s
          BY <3>1, <3>2, <3>3, <4>1
        <4>2. CASE j < s /\ k >= s
          BY <1>1, <3>1, <3>2, <3>3, <4>2
        <4>3. CASE j >= s
          BY <1>1, <3>1, <3>3, <4>3
        <4>. QED  BY <3>3, <4>1, <4>2, <4>3
      <3>6. NotBefore(b, Start(f), s + n, Newest) /\ Ordered(b, s + n)
        BY <2>2, <3>3, <3>4, <3>5 DEF NotBefore, Ordered
      <3>. QED  BY <1>2, <2>1, <3>0, <3>1, <3>6 DEF LeftInv
    <2>. QED  BY <2>4, <2>5
  <1>4. FileOrder'
    <2>. SUFFICES ASSUME hurt' = {}
                  PROVE  AllBefore(Contents(Other(index))', info'[Other(index)].size,
                                   Contents(index)', info'[index].size)
      BY <1>1 DEF FileOrder
    <2>. DEFINE f == Other(index)
    <2>1. /\ FileInv(f) /\ f \notin hurt /\ index \notin hurt /\ info'[f] = info[f]
          /\ \A j \in 0 .. FileSize - 1 : Contents(f)'[j] = Contents(f)[j]
      BY <1>1, FileGrows
    <2>2. /\ info'[index].size = info[index].size + n
          /\ \A j \in 0 .. info[index].size - 1 : Contents(index)'[j] = Contents(index)[j]
          /\ \A j \in info[index].size .. info[index].size + n - 1 : Contents(index)'[j] = entry
      BY <1>1, FileGrows
    <2>3. AllBefore(Contents(f), info[f].size, Contents(index), info[index].size)
      <3>1. hurt = {}
        BY <1>1, <2>1 DEF Types
      <3>. QED  BY <3>1 DEF FileOrder
    <2>4. Sound(Contents(f), Start(f), info[f].size, entry)
      BY <2>1 DEF FileInv
    <2>5. info[f].size \in Nat /\ info[index].size \in Nat
      BY <1>1, InfoFacts
    <2>. HIDE DEF f
    <2>8. PICK b, d : b = Contents(f)' /\ d = Contents(index)'
      OBVIOUS
    <2>6. ASSUME NEW j \in 0 .. info[f].size - 1, NEW k \in 0 .. info[index].size + n - 1
          PROVE  b[j] <= d[k]
      <3>1. b[j] = Contents(f)[j] /\ Contents(f)[j] \in 1 .. entry
        BY <2>8, <2>1, <2>4, <2>5 DEF Sound
      <3>2. CASE k < info[index].size
        BY <2>8, <2>2, <2>3, <2>5, <3>1, <3>2 DEF AllBefore
      <3>3. CASE k >= info[index].size
        BY <1>1, <2>8, <2>2, <2>5, <3>1, <3>3
      <3>. QED  BY <2>5, <3>2, <3>3
    <2>7. AllBefore(b, info[f].size, d, info[index].size + n)
      BY <2>5, <2>6 DEF AllBefore
    <2>. QED  BY <2>8, <2>1, <2>2, <2>7 DEF f
  <1>5. ReaderOrder'
    <2>1. info'[Other(index)] = info[Other(index)]
      BY <1>1 DEF Programs, Types, Infos
    <2>2. Other(index) \in hurt => Other(index) \in hurt'
      BY <1>1 DEF Programs
    <2>. QED  BY <1>1, <2>1, <2>2, ReaderStays
  <1>. QED  BY <1>2, <1>3, <1>4, <1>5 DEF LeftOrder

LEMMA WriterKeepsOrder ==
  ASSUME ReadInv, Types',
         \/ \E n \in EntrySizes : WriteEntry(n)
         \/ WriteErase \/ WriteEraseFails \/ WriteData \/ WriteDataFails
         \/ \E newline \in BOOLEAN : WriteSave(newline)
  PROVE  OrderInv'
  <1>. SUFFICES ASSUME ~ disturbed' PROVE OrderInv'
    BY DEF OrderInv
  <1>0. Types /\ Shape /\ SoundInv /\ GotInv /\ OrderInv
    BY DEF ReadInv
  <1>1. /\ ~ disturbed /\ logReady /\ logReady' /\ rd' = rd /\ last' = last
        /\ (entry' = entry \/ entry' = entry + 1)
    <2>1. ~ disturbed /\ rd' = rd /\ last' = last /\ (entry' = entry \/ entry' = entry + 1)
      <3>1. rd' = rd /\ last' = last /\ (entry' = entry \/ entry' = entry + 1)
        BY DEF WriteEntry, WriteErase, WriteEraseFails, WriteData, WriteDataFails, WriteSave
      <3>2. disturbed => disturbed'
        <4>1. ASSUME NEW n \in EntrySizes, WriteEntry(n) PROVE disturbed => disturbed'
          BY <4>1, Zenon DEF WriteEntry
        <4>. QED  BY <4>1 DEF WriteErase, WriteEraseFails, WriteData, WriteDataFails, WriteSave
      <3>. QED  BY <3>1, <3>2
    <2>2. logReady /\ logReady'
      BY <1>0 DEF WriteEntry, WriteErase, WriteEraseFails, WriteData, WriteDataFails, WriteSave, Shape
    <2>. QED  BY <2>1, <2>2
  <1>2. CountOrder /\ LeftOrder /\ FileOrder /\ ReaderOrder
    BY <1>0, <1>1 DEF OrderInv
  <1>3. CountOrder' /\ Newest' = Newest
    BY <1>0, <1>1, <1>2, ReadStays
  <1>4. LeftOrder' /\ FileOrder' /\ ReaderOrder' => OrderInv'
    BY <1>1, <1>3 DEF OrderInv
  <1>5. index \in File /\ Other(index) \in File /\ Other(index) # index /\ Other(Other(index)) = index
    BY <1>0, OtherIsFile DEF Types, Other
  <1>6. \A f \in File : Start(f) \in Nat /\ info[f].size \in Nat /\ info[f].offset \in Nat
    BY <1>0, InfoFacts
  <1>7. ASSUME cells' = cells, info' = info, index' = index, hurt \subseteq hurt'
        PROVE  OrderInv'
    <2>1. \A f \in File : Start(f)' = Start(f) /\ Contents(f)' = Contents(f)
      BY <1>1, <1>7, SameContents DEF Start, Taken
    <2>2. LeftOrder'
      <3>. SUFFICES ASSUME NEW f \in File, f \notin hurt' PROVE LeftInv(f)'
        BY DEF LeftOrder
      <3>1. LeftInv(f)
        BY <1>2, <1>7 DEF LeftOrder
      <3>. QED  BY <1>3, <1>7, <2>1, <3>1 DEF LeftInv
    <2>3. FileOrder'
      <3>. SUFFICES ASSUME hurt' = {} PROVE AllBefore(Contents(Other(index))', info[Other(index)].size,
                                                     Contents(index)', info[index].size)
        BY <1>7 DEF FileOrder, Other
      <3>. QED  BY <1>2, <1>5, <1>7, <2>1 DEF FileOrder
    <2>4. ReaderOrder'
      BY <1>0, <1>1, <1>2, <1>7, ReaderStays
    <2>. QED  BY <1>4, <2>2, <2>3, <2>4
  <1>8. ASSUME NEW n \in EntrySizes, WriteEntry(n) PROVE OrderInv'
    <2>1. CASE Fits(n)
      BY <1>7, <1>8, <2>1 DEF WriteEntry
    <2>2. CASE ~ Fits(n)
      <3>1. /\ info' = [info EXCEPT ![Other(index)] = [size |-> 0, offset |-> 0]]
            /\ index' = Other(index) /\ cells' = cells /\ hurt \subseteq hurt' /\ rd.at = "idle"
        BY <1>8, <2>2 DEF WriteEntry
      <3>2. info'[Other(index)].size = 0 /\ info'[index] = info[index]
        BY <1>0, <1>5, <3>1 DEF Types, Infos
      <3>3. LeftOrder'
        <4>. SUFFICES ASSUME NEW f \in File, f \notin hurt' PROVE LeftInv(f)'
          BY DEF LeftOrder
        <4>1. CASE f = Other(index)
          BY <3>2, <4>1, SmallFiles
        <4>2. CASE f # Other(index)
          <5>1. f = index
            BY <4>2, <1>5 DEF Other
          <5>2. LeftInv(f) /\ Start(f)' = Start(f) /\ Contents(f)' = Contents(f) /\ info'[f].size = info[f].size
            BY <1>1, <1>2, <3>1, <3>2, <5>1, SameContents DEF LeftOrder, Start, Taken
          <5>. QED  BY <1>3, <5>2 DEF LeftInv
        <4>. QED  BY <4>1, <4>2
      <3>4. FileOrder'
        BY <1>5, <3>1, <3>2, SmallFiles DEF FileOrder
      <3>5. ReaderOrder'
        BY <1>1, <3>1 DEF ReaderOrder
      <3>. QED  BY <1>4, <3>3, <3>4, <3>5
    <2>. QED  BY <2>1, <2>2
  <1>9. CASE WriteErase
    <2>1. /\ cells' = EraseFile /\ info' = info /\ index' = index /\ info[index].size = 0
          /\ hurt \ {index} \subseteq hurt'
      BY <1>0, <1>9 DEF WriteErase, Shape
    <2>2. LeftOrder'
      <3>. SUFFICES ASSUME NEW f \in File, f \notin hurt' PROVE LeftInv(f)'
        BY DEF LeftOrder
      <3>1. CASE f = index
        BY <2>1, <3>1, SmallFiles
      <3>2. CASE f # index
        <4>1. LeftInv(f) /\ FileInv(f)
          BY <1>0, <1>1, <1>2, <2>1, <3>2 DEF LeftOrder, SoundInv
        <4>2. \A j \in 0 .. FileSize - 1 : Contents(f)'[j] = Contents(f)[j]
          BY <1>0, <2>1, <3>2, ErasedContents
        <4>3. info[f].size <= FileSize
          BY <4>1 DEF FileInv, Sound
        <4>4. \A j \in 0 .. info[f].size - 1 : Contents(f)'[j] = Contents(f)[j]
          BY <1>6, <4>2, <4>3
        <4>5. Start(f)' = Start(f) /\ Start(f)' >= Start(f)
          BY <1>1, <1>6, <2>1 DEF Start, Taken
        <4>. QED  BY <1>0, <1>3, <2>1, <4>1, <4>4, <4>5, LeftStays
      <3>. QED  BY <3>1, <3>2
    <2>3. FileOrder'
      BY <1>5, <2>1, SmallFiles DEF FileOrder
    <2>4. ReaderOrder'
      <3>1. Other(index) \in hurt => Other(index) \in hurt'
        BY <1>5, <2>1
      <3>. QED  BY <1>0, <1>1, <1>2, <2>1, <3>1, ReaderStays
    <2>. QED  BY <1>4, <2>2, <2>3, <2>4
  <1>10. CASE WriteEraseFails
    BY <1>7, <1>10 DEF WriteEraseFails
  <1>11. CASE WriteData
    <2>1. wr.n + (IF stamp THEN StampSize ELSE 0) \in Nat /\ wr'.at = "save"
      BY <1>0, <1>11 DEF WriterType, Types, WriteData
    <2>2. Programs(wr.n + (IF stamp THEN StampSize ELSE 0)) /\ wr.at = "data" /\ entry' = entry /\ index' = index
      BY <1>11 DEF WriteData
    <2>. QED  BY <1>0, <1>1, <1>2, <1>4, <2>1, <2>2, EntryIsNewest
  <1>12. CASE WriteDataFails
    <2>1. (IF stamp THEN StampSize ELSE 0) \in Nat /\ wr'.at = "idle"
      BY <1>12 DEF WriteDataFails, IdleWriter
    <2>2. Programs(IF stamp THEN StampSize ELSE 0) /\ wr.at = "data" /\ entry' = entry /\ index' = index
      BY <1>12 DEF WriteDataFails
    <2>. QED  BY <1>0, <1>1, <1>2, <1>4, <2>1, <2>2, EntryIsNewest
  <1>13. ASSUME NEW newline \in BOOLEAN, WriteSave(newline) PROVE OrderInv'
    BY <1>7, <1>13 DEF WriteSave
  <1>. QED  BY <1>8, <1>9, <1>10, <1>11, <1>12, <1>13

LEMMA FirstFiles ==
  ASSUME Types
  PROVE  /\ rd.i \in {0, 1}
         /\ rd.i = 0 => FirstFile(rd.i) = Other(index)
         /\ rd.i = 1 => FirstFile(rd.i) = index
         /\ index \in File /\ Other(index) \in File /\ Other(index) # index
         /\ \A f \in File : f = index \/ f = Other(index)
  BY DEF Types, ReadingType, FirstFile, Other

LEMMA SameOther == ASSUME index' = index PROVE Other(index)' = Other(index)
  BY DEF Other

\* A step of mdebug_flash_read that leaves the files it does not give up as they are
LEMMA LeftOrderStays ==
  ASSUME Types, Types', LeftOrder, FileOrder, UNCHANGED <<cells, index>>, Newest' = Newest, hurt \subseteq hurt',
         \A f \in File : f \notin hurt' => info'[f].size = info[f].size /\ Start(f)' = Start(f)
  PROVE  LeftOrder' /\ FileOrder'
  <1>1. LeftOrder'
    <2>. SUFFICES ASSUME NEW f \in File, f \notin hurt' PROVE LeftInv(f)'
      BY DEF LeftOrder
    <2>1. LeftInv(f) /\ Contents(f)' = Contents(f)
      BY SameContents DEF LeftOrder
    <2>. QED  BY <2>1 DEF LeftInv
  <1>2. FileOrder'
    <2>. SUFFICES ASSUME hurt' = {} PROVE AllBefore(Contents(Other(index))', info'[Other(index)].size,
                                                   Contents(index)', info'[index].size)
      BY DEF FileOrder, Other
    <2>1. index \in File /\ Other(index) \in File
      BY FirstFiles
    <2>2. /\ Contents(Other(index))' = Contents(Other(index)) /\ Contents(index)' = Contents(index)
          /\ info'[Other(index)].size = info[Other(index)].size /\ info'[index].size = info[index].size
      BY <2>1, SameContents
    <2>3. hurt = {}
      OBVIOUS
    <2>. QED  BY <2>2, <2>3 DEF FileOrder
  <1>. QED  BY <1>1, <1>2

\* Where the reader is when it is not counting.
LEMMA NotCounting ==
  ASSUME Types, CountOrder, rd.at # "count", rd'.at # "count", UNCHANGED <<last, entry>>
  PROVE  CountOrder' /\ Newest' = Newest
         /\ \A f \in File : info'[f] = info[f] => info'[f].size = info[f].size /\ Start(f)' = Start(f)
  <1>1. ~ HasNew /\ ~ HasNew'
    BY DEF HasNew
  <1>2. CountOrder' /\ Newest' = Newest
    BY <1>1 DEF CountOrder, Newest
  <1>. QED  BY <1>2 DEF Start, Taken

LEMMA ReadKeepsOrder ==
  ASSUME Types, Types', Shape, PlanInv, SoundInv, GotInv, CountOrder, LeftOrder, FileOrder, ReaderOrder, ReadFile
  PROVE  CountOrder' /\ LeftOrder' /\ FileOrder' /\ ReaderOrder'
  <1>. DEFINE f == rd.file
              n == rd.n
  <1>1. /\ rd.at = "read" /\ UNCHANGED <<cells, info, index, hurt, last, entry>> /\ logReady
        /\ f \in File /\ n \in Nat \ {0} /\ n <= rd.room - Len(rd.got) /\ rd.room \in Nat /\ Len(rd.got) \in Nat
        /\ rd'.at = "count" /\ rd'.file = f /\ rd'.n = n /\ rd'.i = rd.i /\ rd'.room = rd.room
        /\ Len(rd'.got) = Len(rd.got) + n
    <2>1. /\ rd.at = "read" /\ UNCHANGED <<cells, info, index, hurt, last, entry>> /\ logReady
      BY DEF ReadFile, Shape
    <2>2. rd.room \in Nat /\ Len(rd.got) \in Nat
      BY DEF Types, ReadingType
    <2>. QED  BY <2>1, <2>2, ReadFileFacts
  <1>2. ~ HasNew /\ Newest = last.newest
    BY <1>1 DEF HasNew, Newest
  <1>3. \A g \in File : /\ Contents(g)' = Contents(g) /\ info[g].size \in Nat /\ Start(g) \in Nat
                        /\ Start(g)' = Start(g) + (IF g = f THEN n ELSE 0)
                        /\ g \notin hurt => LeftInv(g) /\ FileInv(g)
    <2>. TAKE g \in File
    <2>1. info[g].size \in Nat /\ info[g].offset \in Nat /\ Contents(g)' = Contents(g)
      BY <1>1, InfoFacts, SameContents
    <2>2. Start(g) = info[g].offset /\ Start(g)' = info[g].offset + (IF g = f THEN n ELSE 0)
      <3>. HIDE DEF f, n
      <3>. QED  BY <1>1, <2>1 DEF Start, Taken
    <2>3. g \notin hurt => LeftInv(g) /\ FileInv(g)
      BY <1>1 DEF LeftOrder, SoundInv
    <2>. QED  BY <2>1, <2>2, <2>3
  <1>4. /\ f \in hurt => ~ HasNew' /\ Newest' = last.newest
        /\ f \notin hurt =>
             /\ HasNew' /\ Newest' = Caught'[n]
             /\ \A k \in 1 .. n : /\ Start(f) + k - 1 \in 0 .. info[f].size - 1
                                  /\ Caught'[k] = Contents(f)[Start(f) + k - 1]
    <2>1. 1 \in 1 .. n /\ Hurt \notin 1 .. entry
      BY <1>1 DEF Hurt, Types
    <2>2. \/ f \in hurt /\ \A k \in 1 .. n : Caught'[k] = Hurt
          \/ /\ f \notin hurt
             /\ \A k \in 1 .. n : /\ Start(f) + k - 1 \in 0 .. info[f].size - 1
                                  /\ Caught'[k] = Contents(f)[Start(f) + k - 1]
                                  /\ Caught'[k] \in 1 .. entry
      BY ReadCells
    <2>. HIDE DEF f, n
    <2>3. f \in hurt => Caught'[1] = Hurt
      BY <2>1, <2>2
    <2>4. f \notin hurt => Caught'[1] # Hurt
      BY <2>1, <2>2
    <2>5. HasNew' <=> Caught'[1] # Hurt
      BY <1>1 DEF HasNew
    <2>6. Newest' = IF HasNew' THEN Caught'[n] ELSE last.newest
      BY <1>1 DEF Newest
    <2>7. f \notin hurt => \A k \in 1 .. n : /\ Start(f) + k - 1 \in 0 .. info[f].size - 1
                                            /\ Caught'[k] = Contents(f)[Start(f) + k - 1]
      BY <2>2
    <2>8. f \in hurt => ~ HasNew' /\ Newest' = last.newest
      BY <2>3, <2>5, <2>6
    <2>9. f \notin hurt => HasNew' /\ Newest' = Caught'[n]
      BY <2>4, <2>5, <2>6
    <2>. QED  BY <2>7, <2>8, <2>9, Zenon
  <1>5. (rd.i = 0 => f = Other(index)) /\ (rd.i = 1 => f = index) /\ rd.i \in {0, 1}
    BY <1>1, FirstFiles DEF ReaderOrder
  <1>6. index \in File /\ Other(index) \in File /\ Other(index) # index
        /\ \A g \in File : g = index \/ g = Other(index)
    BY FirstFiles
  <1>7. rd.i = 0 => rd.got = <<>> /\ Len(rd.got) = 0
    BY <1>1 DEF ReaderOrder
  <1>8. rd.i = 1 /\ Other(index) \notin hurt => info[Other(index)].size <= Start(Other(index))
    BY <1>1 DEF ReaderOrder
  <1>9. rd.i = 0 /\ Other(index) \notin hurt =>
          info[Other(index)].size <= Start(Other(index)) + n \/ rd.room = Len(rd.got) + n
    <2>1. Start(Other(index)) = info[Other(index)].offset
      BY <1>1, <1>6, InfoFacts DEF Start, Taken
    <2>. QED  BY <1>1, <2>1 DEF ReaderOrder
  <1>. HIDE DEF f, n
  <1>10. f \notin hurt => /\ last.newest <= Caught'[1]
                          /\ \A k, l \in 1 .. n : k <= l => Caught'[k] <= Caught'[l]
    <2>. SUFFICES ASSUME f \notin hurt
                  PROVE  /\ last.newest <= Caught'[1]
                         /\ \A k, l \in 1 .. n : k <= l => Caught'[k] <= Caught'[l]
      OBVIOUS
    <2>1. /\ Start(f) \in Start(f) .. info[f].size - 1 /\ Caught'[1] = Contents(f)[Start(f)]
      <3>1. 1 \in 1 .. n /\ Start(f) + 1 - 1 = Start(f) /\ Start(f) \in Nat /\ info[f].size \in Nat
        BY <1>1, <1>3
      <3>2. Start(f) + 1 - 1 \in 0 .. info[f].size - 1 /\ Caught'[1] = Contents(f)[Start(f) + 1 - 1]
        BY <1>4, <3>1
      <3>. QED  BY <3>1, <3>2
    <2>2. last.newest <= Caught'[1]
      <3>1. NotBefore(Contents(f), Start(f), info[f].size, Newest)
        BY <1>1, <1>3 DEF LeftInv
      <3>2. Newest <= Contents(f)[Start(f)]
        BY <2>1, <3>1 DEF NotBefore
      <3>. QED  BY <1>2, <2>1, <3>2
    <2>3. ASSUME NEW k \in 1 .. n, NEW l \in 1 .. n, k <= l PROVE Caught'[k] <= Caught'[l]
      <3>1. Ordered(Contents(f), info[f].size)
        BY <1>1, <1>3 DEF LeftInv
      <3>2. /\ Start(f) + k - 1 \in 0 .. info[f].size - 1 /\ Caught'[k] = Contents(f)[Start(f) + k - 1]
            /\ Start(f) + l - 1 \in 0 .. info[f].size - 1 /\ Caught'[l] = Contents(f)[Start(f) + l - 1]
        BY <1>4
      <3>3. Start(f) + k - 1 <= Start(f) + l - 1
        BY <1>1, <1>3, <2>3
      <3>4. Contents(f)[Start(f) + k - 1] <= Contents(f)[Start(f) + l - 1]
        BY <3>1, <3>2, <3>3 DEF Ordered
      <3>. QED  BY <3>2, <3>4
    <2>. QED  BY <2>2, <2>3
  <1>11. CountOrder'
    BY <1>1, <1>4, <1>10 DEF CountOrder
  <1>12. LeftOrder'
    <2>. SUFFICES ASSUME NEW g \in File, g \notin hurt PROVE LeftInv(g)'
      BY <1>1 DEF LeftOrder
    <2>1. /\ Start(g) \in Nat /\ info[g].size \in Nat /\ Contents(g)' = Contents(g)
          /\ Start(g)' = Start(g) + (IF g = f THEN n ELSE 0)
          /\ NotBefore(Contents(g), Start(g), info[g].size, Newest) /\ Ordered(Contents(g), info[g].size)
      BY <1>3 DEF LeftInv
    <2>2. CASE f \in hurt
      BY <1>1, <1>2, <1>4, <2>1, <2>2 DEF LeftInv
    <2>3. CASE f \notin hurt
      <3>1. /\ n \in 1 .. n /\ Newest' = Caught'[n]
            /\ Start(f) + n - 1 \in 0 .. info[f].size - 1 /\ Caught'[n] = Contents(f)[Start(f) + n - 1]
        BY <1>1, <1>4, <2>3
      <3>2. ASSUME NEW j \in Start(g)' .. info[g].size - 1 PROVE Contents(f)[Start(f) + n - 1] <= Contents(g)[j]
        <4>1. CASE g = f
          <5>1. Start(f) + n - 1 <= j /\ j \in 0 .. info[f].size - 1
            BY <1>1, <2>1, <3>2, <4>1
          <5>. QED  BY <2>1, <3>1, <4>1, <5>1 DEF Ordered
        <4>2. CASE g # f
          <5>1. j \in Start(g) .. info[g].size - 1 /\ j \in 0 .. info[g].size - 1
            BY <2>1, <3>2, <4>2
          <5>2. CASE rd.i = 0
            <6>1. f = Other(index) /\ g = index
              BY <1>5, <1>6, <4>2, <5>2
            <6>2. hurt = {}
              BY <1>6, <2>3, <6>1 DEF Types
            <6>. QED  BY <3>1, <5>1, <6>1, <6>2 DEF FileOrder, AllBefore
          <5>3. CASE rd.i = 1
            <6>1. f = index /\ g = Other(index)
              BY <1>5, <1>6, <4>2, <5>3
            <6>. QED  BY <1>8, <2>1, <5>1, <5>3, <6>1
          <5>. QED  BY <1>5, <5>2, <5>3
        <4>. QED  BY <4>1, <4>2
      <3>3. NotBefore(Contents(g), Start(g)', info[g].size, Caught'[n])
        BY <2>1, <3>1, <3>2 DEF NotBefore
      <3>. QED  BY <1>1, <2>1, <3>1, <3>3 DEF LeftInv
    <2>. QED  BY <2>2, <2>3
  <1>13. FileOrder'
    BY <1>1, <1>3, <1>6 DEF FileOrder, Other
  <1>14. ReaderOrder'
    <2>1. FirstFile(rd.i)' = f /\ Other(index)' = Other(index)
      <3>1. FirstFile(rd.i)' = FirstFile(rd.i)
        BY <1>1 DEF FirstFile
      <3>2. f = FirstFile(rd.i)
        BY <1>1 DEF ReaderOrder, f
      <3>. QED  BY <1>1, <3>1, <3>2, SameOther
    <2>2. rd'.i = 0 => rd'.n = Len(rd'.got)
      BY <1>1, <1>7
    <2>3. Other(index) \notin hurt =>
            info[Other(index)].size <= Start(Other(index))' \/ rd'.room = Len(rd'.got)
      <3>1. CASE rd.i = 0
        BY <1>1, <1>3, <1>5, <1>6, <1>9, <3>1
      <3>2. CASE rd.i = 1
        BY <1>1, <1>3, <1>5, <1>6, <1>8, <3>2
      <3>. QED  BY <1>5, <3>1, <3>2
    <2>. QED  BY <1>1, <2>1, <2>2, <2>3 DEF ReaderOrder
  <1>. QED  BY <1>11, <1>12, <1>13, <1>14

LEMMA CountKeepsOrder ==
  ASSUME Types, Types', Shape, GotInv, CountOrder, LeftOrder, FileOrder, ReaderOrder, ReadCount
  PROVE  CountOrder' /\ LeftOrder' /\ FileOrder' /\ ReaderOrder'
  <1>1. /\ rd.at = "count" /\ rd' = ReadNext /\ UNCHANGED <<cells, index, hurt, entry>>
        /\ rd'.at # "count" /\ rd.n \in Nat \ {0}
    BY ReadNextFacts, CaughtEntries DEF ReadCount
  <1>2. \A f \in File : info'[f].size = info[f].size /\ Start(f)' = Start(f)
    BY CountKeepsStart
  <1>3. last' = IF Caught[1] = Hurt THEN last
                ELSE [newest |-> Caught[rd.n],
                      ordered |-> last.ordered /\ \A k \in 1 .. rd.n :
                                    (IF k = 1 THEN last.newest ELSE Caught[k - 1]) <= Caught[k]]
    BY DEF ReadCount, Caught
  <1>4. HasNew => \A k \in 1 .. rd.n : (IF k = 1 THEN last.newest ELSE Caught[k - 1]) <= Caught[k]
    <2>. SUFFICES ASSUME HasNew, NEW k \in 1 .. rd.n
                  PROVE  (IF k = 1 THEN last.newest ELSE Caught[k - 1]) <= Caught[k]
      OBVIOUS
    <2>1. CASE k = 1
      BY <2>1 DEF CountOrder
    <2>2. CASE k # 1
      <3>1. k - 1 \in 1 .. rd.n /\ k - 1 <= k
        BY <1>1, <2>2
      <3>. QED  BY <2>2, <3>1 DEF CountOrder
    <2>. QED  BY <2>1, <2>2
  <1>5. last.ordered /\ Newest \in 0 .. entry /\ (HasNew <=> Caught[1] # Hurt)
    BY <1>1, NewestIsEntry DEF CountOrder, HasNew
  <1>6. last'.ordered /\ last'.newest = Newest
    <2>1. CASE HasNew
      <3>1. last' = [newest |-> Caught[rd.n],
                     ordered |-> last.ordered /\ \A k \in 1 .. rd.n :
                                    (IF k = 1 THEN last.newest ELSE Caught[k - 1]) <= Caught[k]]
        BY <1>3, <1>5, <2>1
      <3>2. last'.newest = Caught[rd.n]
        BY <3>1
      <3>3. last'.ordered = (last.ordered /\ \A k \in 1 .. rd.n :
                               (IF k = 1 THEN last.newest ELSE Caught[k - 1]) <= Caught[k])
        BY <3>1
      <3>. QED  BY <1>4, <1>5, <2>1, <3>2, <3>3 DEF Newest
    <2>2. CASE ~ HasNew
      BY <1>3, <1>5, <2>2 DEF Newest
    <2>. QED  BY <2>1, <2>2
  <1>7. CountOrder' /\ Newest' = Newest
    BY <1>1, <1>5, <1>6 DEF CountOrder, HasNew, Newest
  <1>8. LeftOrder' /\ FileOrder'
    BY <1>1, <1>2, <1>7, LeftOrderStays
  <1>9. ReaderOrder'
    <2>1. rd.i \in {0, 1} /\ Other(index) \in File /\ Other(index)' = Other(index)
      BY <1>1, FirstFiles, SameOther
    <2>2. CASE rd.i = 1
      BY <1>1, <2>2, ReadNextFacts DEF ReaderOrder, IdleReader
    <2>3. CASE rd.i = 0
      <3>1. rd'.at = "look" /\ rd'.i = 1 /\ rd'.got = rd.got /\ rd'.room = rd.room
        BY <1>1, <2>3, ReadNextFacts
      <3>2. Other(index) \notin hurt =>
              info[Other(index)].size <= Start(Other(index)) \/ rd.room = Len(rd.got)
        BY <1>1 DEF ReaderOrder
      <3>. QED  BY <1>1, <1>2, <2>1, <3>1, <3>2 DEF ReaderOrder
    <2>. QED  BY <2>1, <2>2, <2>3
  <1>. QED  BY <1>7, <1>8, <1>9

LEMMA ReaderKeepsOrder ==
  ASSUME ReadInv, Types',
         \/ \E room \in Rooms : ReadEntry(room)
         \/ ReadNothing \/ ReadSize \/ ReadFile \/ ReadFileFails \/ ReadCount
  PROVE  OrderInv'
  <1>. SUFFICES ASSUME ~ disturbed' PROVE OrderInv'
    BY DEF OrderInv
  <1>0. Types /\ Shape /\ PlanInv /\ SoundInv /\ GotInv /\ OrderInv
    BY DEF ReadInv
  <1>1. ~ disturbed /\ logReady /\ logReady' /\ UNCHANGED <<cells, index>>
    <2>1. UNCHANGED <<disturbed, logReady, cells, index>>
      BY DEF ReadEntry, ReadNothing, ReadSize, ReadFile, ReadFileFails, ReadCount
    <2>2. logReady
      BY <1>0 DEF ReadEntry, ReadNothing, ReadSize, ReadFile, ReadFileFails, ReadCount, Shape
    <2>. QED  BY <2>1, <2>2
  <1>2. CountOrder /\ LeftOrder /\ FileOrder /\ ReaderOrder
    BY <1>0, <1>1 DEF OrderInv
  <1>3. CountOrder' /\ LeftOrder' /\ FileOrder' /\ ReaderOrder' => OrderInv'
    BY <1>1 DEF OrderInv
  <1>4. ASSUME NEW room \in Rooms, ReadEntry(room) PROVE OrderInv'
    <2>1. rd.at # "count" /\ UNCHANGED <<last, entry, info, hurt>>
      BY <1>4 DEF ReadEntry
    <2>2. rd'.at = "look" /\ rd'.i = 0 /\ rd'.got = <<>>
      BY <1>4, EntryOfRead
    <2>3. /\ CountOrder' /\ Newest' = Newest
          /\ \A f \in File : info'[f].size = info[f].size /\ Start(f)' = Start(f)
      BY <1>0, <1>2, <2>1, <2>2, NotCounting
    <2>4. LeftOrder' /\ FileOrder'
      BY <1>0, <1>1, <1>2, <2>1, <2>3, LeftOrderStays
    <2>5. ReaderOrder'
      BY <2>2 DEF ReaderOrder
    <2>. QED  BY <1>3, <2>3, <2>4, <2>5
  <1>5. CASE ReadNothing
    <2>1. /\ rd.at = "look" /\ rd' = ReadNext /\ UNCHANGED <<last, entry, info, hurt>>
          /\ Asked(FirstFile(rd.i)) = 0
      BY <1>5 DEF ReadNothing
    <2>2. rd'.at # "count"
      BY <1>0, <2>1, ReadNextFacts
    <2>3. /\ CountOrder' /\ Newest' = Newest
          /\ \A f \in File : info'[f].size = info[f].size /\ Start(f)' = Start(f)
      BY <1>0, <1>2, <2>1, <2>2, NotCounting
    <2>4. LeftOrder' /\ FileOrder'
      BY <1>0, <1>1, <1>2, <2>1, <2>3, LeftOrderStays
    <2>5. ReaderOrder'
      <3>1. /\ rd.i \in {0, 1} /\ (rd.i = 0 => FirstFile(rd.i) = Other(index))
            /\ Other(index) \in File /\ Other(index)' = Other(index)
        BY <1>0, <1>1, FirstFiles, SameOther
      <3>2. CASE rd.i = 1
        BY <1>0, <2>1, <3>2, ReadNextFacts DEF ReaderOrder, IdleReader
      <3>3. CASE rd.i = 0
        <4>1. rd'.at = "look" /\ rd'.i = 1 /\ rd'.got = rd.got /\ rd'.room = rd.room
          BY <1>0, <2>1, <3>3, ReadNextFacts
        <4>2. Other(index) \notin hurt =>
                info[Other(index)].size <= Start(Other(index)) \/ rd.room = Len(rd.got)
          <5>. SUFFICES ASSUME Other(index) \notin hurt
                        PROVE  info[Other(index)].size <= Start(Other(index)) \/ rd.room = Len(rd.got)
            OBVIOUS
          <5>1. FileInv(Other(index)) /\ ~ Taken(Other(index))
            BY <1>0, <1>1, <2>1, <3>1 DEF SoundInv, Taken
          <5>2. Asked(Other(index)) = 0
            BY <2>1, <3>1, <3>3
          <5>. QED  BY <1>0, <3>1, <5>1, <5>2, AskedIsThere
        <4>. QED  BY <2>1, <2>3, <3>1, <4>1, <4>2 DEF ReaderOrder
      <3>. QED  BY <3>1, <3>2, <3>3
    <2>. QED  BY <1>3, <2>3, <2>4, <2>5
  <1>6. CASE ReadFile
    BY <1>0, <1>2, <1>3, <1>6, ReadKeepsOrder
  <1>7. CASE ReadFileFails
    <2>. DEFINE f == rd.file
    <2>1. /\ rd.at = "read" /\ rd' = IdleReader /\ UNCHANGED <<last, entry>>
          /\ info' = [info EXCEPT ![f] = [size |-> 0, offset |-> 0]] /\ hurt' = hurt \union {f}
      BY <1>7 DEF ReadFileFails
    <2>2. rd'.at = "idle"
      BY <2>1 DEF IdleReader
    <2>. HIDE DEF f
    <2>3. \A g \in File : g \notin hurt' => info'[g] = info[g]
      BY <1>0, <2>1 DEF Types, Infos
    <2>4. /\ CountOrder' /\ Newest' = Newest
          /\ \A g \in File : info'[g] = info[g] => info'[g].size = info[g].size /\ Start(g)' = Start(g)
      BY <1>0, <1>2, <2>1, <2>2, NotCounting
    <2>5. hurt \subseteq hurt'
      BY <2>1
    <2>6. LeftOrder' /\ FileOrder'
      BY <1>0, <1>1, <1>2, <2>3, <2>4, <2>5, LeftOrderStays
    <2>7. ReaderOrder'
      BY <2>2 DEF ReaderOrder
    <2>. QED  BY <1>3, <2>4, <2>6, <2>7
  <1>8. CASE ReadCount
    BY <1>0, <1>2, <1>3, <1>8, CountKeepsOrder
  <1>9. CASE ReadSize
    <2>. DEFINE f == FirstFile(rd.i)
    <2>1. /\ rd.at = "look" /\ UNCHANGED <<last, entry, info, hurt>>
      BY <1>9 DEF ReadSize
    <2>2. /\ f \in File /\ Asked(f) \in Nat \ {0} /\ rd'.at = "read" /\ rd'.file = f /\ rd'.n = Asked(f)
          /\ rd'.room = rd.room /\ rd'.i = rd.i /\ rd'.got = rd.got
      BY <1>0, <1>9, ReadSizeFacts
    <2>3. /\ CountOrder' /\ Newest' = Newest
          /\ \A g \in File : info'[g].size = info[g].size /\ Start(g)' = Start(g)
      BY <1>0, <1>2, <2>1, <2>2, NotCounting
    <2>4. LeftOrder' /\ FileOrder'
      BY <1>0, <1>1, <1>2, <2>1, <2>3, LeftOrderStays
    <2>5. FirstFile(rd.i)' = f /\ Other(index)' = Other(index) /\ Other(index) \in File
      BY <1>0, <1>1, <2>2, SameOther, FirstFiles DEF FirstFile
    <2>6. rd'.i = 0 /\ Other(index) \notin hurt =>
            info[Other(index)].size <= info[Other(index)].offset + rd'.n \/ rd'.room = Len(rd'.got) + rd'.n
      <3>. SUFFICES ASSUME rd.i = 0, Other(index) \notin hurt
                    PROVE  info[f].size <= info[f].offset + Asked(f) \/ rd.room = Len(rd.got) + Asked(f)
        BY <1>0, <2>2, FirstFiles
      <3>1. FileInv(f) /\ ~ Taken(f)
        BY <1>0, <1>1, <2>1, <2>2, FirstFiles DEF SoundInv, Taken
      <3>2. Unread(f) = info[f].size - info[f].offset
        BY <1>0, <2>2, <3>1, AskedIsThere
      <3>3. Asked(f) = Unread(f) \/ Asked(f) = rd.room - Len(rd.got)
        BY DEF Asked, Smaller
      <3>4. /\ info[f].size \in Nat /\ info[f].offset \in Nat /\ rd.room \in Nat /\ Len(rd.got) \in Nat
        BY <1>0, <2>2, InfoFacts DEF Types, ReadingType
      <3>. HIDE DEF f
      <3>. QED  BY <2>2, <3>2, <3>3, <3>4
    <2>7. Other(index) \notin hurt /\ rd.i = 1 =>
            info[Other(index)].size <= Start(Other(index))' \/ rd'.room = Len(rd'.got)
      BY <1>2, <2>1, <2>2, <2>3, <2>5 DEF ReaderOrder
    <2>8. rd.i = 0 => rd.got = <<>>
      BY <1>2, <2>1 DEF ReaderOrder
    <2>. HIDE DEF f
    <2>9. ReaderOrder'
      BY <2>1, <2>2, <2>5, <2>6, <2>7, <2>8 DEF ReaderOrder
    <2>. QED  BY <1>3, <2>3, <2>4, <2>9
  <1>. QED  BY <1>4, <1>5, <1>6, <1>7, <1>8, <1>9

LEMMA ReadStepInv == ReadInv /\ [FlashNext]_flashVars => ReadInv'
  <1>. SUFFICES ASSUME ReadInv, [FlashNext]_flashVars PROVE ReadInv'
    OBVIOUS
  <1>0. Types /\ Shape /\ PlanInv /\ SoundInv /\ GotInv /\ OrderInv
    BY DEF ReadInv
  <1>1. GotInv'
    BY <1>0, StepKeepsGot
  <1>2. CASE UNCHANGED flashVars
    <2>1. Types' /\ Shape' /\ SoundInv'
      BY <1>0, <1>2 DEF flashVars, Types, Shape, SoundInv, FileInv, Contents, Start, Taken
    <2>2. OrderInv'
      <3>. SUFFICES ASSUME ~ disturbed PROVE OrderInv'
        BY <1>2 DEF flashVars, OrderInv
      <3>1. CountOrder /\ LeftOrder /\ FileOrder /\ ReaderOrder
        BY <1>0 DEF OrderInv
      <3>2. UNCHANGED <<cells, index, info, hurt, rd, last, entry, stored, logReady>>
        BY <1>2 DEF flashVars
      <3>3. CountOrder' /\ Newest' = Newest /\ \A f \in File : Start(f)' = Start(f)
        BY <1>0, <3>1, <3>2, ReadStays
      <3>4. LeftOrder' /\ FileOrder'
        BY <1>0, <2>1, <3>1, <3>2, <3>3, LeftOrderStays
      <3>5. ReaderOrder'
        BY <1>0, <3>1, <3>2, ReaderStays
      <3>. QED  BY <1>0, <3>2, <3>3, <3>4, <3>5 DEF OrderInv
    <2>3. PlanInv'
      BY <1>0, <2>1, StepKeepsPlan
    <2>. QED  BY <1>1, <2>1, <2>2, <2>3 DEF ReadInv
  <1>3. CASE LogInit \/ LogDeinit \/ LogReset \/ LogErase
    <2>1. Types' /\ Shape'
      BY <1>0, <1>3, LogKeepsTypes
    <2>. QED  BY <1>0, <1>1, <1>3, <2>1, StepKeepsPlan, LogKeepsSound, LogKeepsOrder DEF ReadInv
  <1>4. CASE \/ \E n \in EntrySizes : WriteEntry(n)
             \/ WriteErase \/ WriteEraseFails \/ WriteData \/ WriteDataFails
             \/ \E newline \in BOOLEAN : WriteSave(newline)
    <2>1. Types' /\ Shape'
      BY <1>0, <1>4, WriterKeepsTypes
    <2>. QED  BY <1>0, <1>1, <1>4, <2>1, StepKeepsPlan, WriterKeepsSound, WriterKeepsOrder DEF ReadInv
  <1>5. CASE \/ \E room \in Rooms : ReadEntry(room)
             \/ ReadNothing \/ ReadSize \/ ReadFile \/ ReadFileFails \/ ReadCount
    <2>1. Types' /\ Shape'
      BY <1>0, <1>5, ReaderKeepsTypes
    <2>. QED  BY <1>0, <1>1, <1>5, <2>1, StepKeepsPlan, ReaderKeepsSound, ReaderKeepsOrder DEF ReadInv
  <1>. QED  BY <1>2, <1>3, <1>4, <1>5 DEF FlashNext

\* What mdebug_flash_read hands out of a file that is not hurt is what was logged, never
\* an erased cell and never one that was programmed twice, whatever the writer does
\* meanwhile; and until a restart, and unless the files are rotated in the middle of a
\* read, entries are handed out in the order they were written.
THEOREM ReadsOnlyTheLog == FlashSpec => []ReadsAreTheLog
  <1>1. ReadInv => ReadsAreTheLog
    BY DEF ReadInv, Types, GotInv, OrderInv, CountOrder, ReadsAreTheLog, Erased, Garbled, Hurt
  <1>. QED  BY ReadInvInit, ReadStepInv, <1>1, PTL DEF FlashSpec

-----------------------------------------------------------------------------
\* What is programmed, and the bounds.
Programmed == {Erased, Garbled} \union 1 .. Entries
FlashBounds ==
  /\ cells \in [Cell -> Programmed] /\ entry \in 0 .. Entries /\ mishaps \in 0 .. Mishaps
FlashTypeInv == ReadInv /\ FlashBounds

LEMMA FlashTypesInit == FlashInit => FlashTypeInv
  <1>. SUFFICES ASSUME FlashInit PROVE FlashTypeInv
    OBVIOUS
  <1>1. cells \in [Cell -> Programmed]
    BY DEF FlashInit, Programmed
  <1>2. entry \in 0 .. Entries /\ mishaps \in 0 .. Mishaps
    BY FlashAssumption DEF FlashInit, FlashAssumption
  <1>. QED  BY <1>1, <1>2, ReadInvInit DEF FlashTypeInv, FlashBounds

LEMMA ProgramIs ==
  ASSUME NEW from, NEW n, Program(from, n), cells \in [Cell -> Programmed], entry \in 1 .. Entries
  PROVE  cells' \in [Cell -> Programmed]
  BY DEF Program, Programmed

LEMMA FlashTypesStep == FlashTypeInv /\ [FlashNext]_flashVars => FlashTypeInv'
  <1>. SUFFICES ASSUME FlashTypeInv, [FlashNext]_flashVars PROVE FlashTypeInv'
    OBVIOUS
  <1>0. /\ Types /\ Shape /\ cells \in [Cell -> Programmed] /\ entry \in 0 .. Entries
        /\ mishaps \in 0 .. Mishaps /\ Mishaps \in Nat /\ Entries \in Nat /\ ReadInv'
    BY ReadStepInv, FlashAssumption DEF FlashTypeInv, FlashBounds, ReadInv, FlashAssumption
  <1>1. mishaps' = mishaps \/ Mishap
    BY DEF FlashNext, flashVars, LogInit, LogDeinit, LogReset, LogErase, WriteEntry, WriteErase,
           WriteEraseFails, WriteData, WriteDataFails, WriteSave, ReadEntry, ReadNothing, ReadSize, ReadFile,
           ReadFileFails, ReadCount
  <1>2. mishaps' \in 0 .. Mishaps
    BY <1>0, <1>1 DEF Mishap
  <1>3. entry' = entry \/ (entry < Entries /\ entry' = entry + 1)
    BY DEF FlashNext, flashVars, LogInit, LogDeinit, LogReset, LogErase, WriteEntry, WriteErase,
           WriteEraseFails, WriteData, WriteDataFails, WriteSave, ReadEntry, ReadNothing, ReadSize, ReadFile,
           ReadFileFails, ReadCount
  <1>4. entry' \in 0 .. Entries
    BY <1>0, <1>3
  <1>5. cells' \in [Cell -> Programmed]
    <2>1. CASE cells' = cells
      BY <1>0, <2>1
    <2>2. CASE LogInit \/ LogErase
      BY <1>0, <2>2 DEF LogInit, LogErase, Programmed
    <2>3. CASE WriteErase
      BY <1>0, <2>3 DEF WriteErase, EraseFile, Programmed
    <2>4. CASE WriteData \/ WriteDataFails
      <3>1. entry \in 1 .. Entries
        BY <1>0, <2>4 DEF Shape, WriteData, WriteDataFails
      <3>2. \E from, n : Program(from, n)
        BY <2>4 DEF WriteData, WriteDataFails, Programs
      <3>. QED  BY <1>0, <3>1, <3>2, ProgramIs
    <2>. QED
      BY <2>1, <2>2, <2>3, <2>4
      DEF FlashNext, flashVars, LogDeinit, LogReset, WriteEntry, WriteEraseFails, WriteSave,
          ReadEntry, ReadNothing, ReadSize, ReadFile, ReadFileFails, ReadCount
  <1>. QED  BY <1>0, <1>2, <1>4, <1>5 DEF FlashTypeInv, FlashBounds

LEMMA FlashTypes == FlashTypeInv => FlashTypeOK
  <1>. SUFFICES ASSUME FlashTypeInv PROVE FlashTypeOK
    OBVIOUS
  <1>1. /\ info \in Infos /\ (stored = <<>> \/ \E i \in Infos : stored = <<i>>)
        /\ index \in File /\ stamp \in BOOLEAN /\ logReady \in BOOLEAN /\ hurt \subseteq File
        /\ wr \in WriterType /\ rd \in ReadingType /\ Len(rd.got) <= rd.room
    BY DEF FlashTypeInv, ReadInv, Types, Shape
  <1>2. Infos = Info
    BY DEF Infos, Info
  <1>3. stored # <<>> => Len(stored) = 1 /\ stored[1] \in Info
    BY <1>1, <1>2
  <1>4. info \in Info /\ wr \in [at : {"idle", "erase", "data", "save"}, n : Nat]
    BY <1>1, <1>2 DEF WriterType
  <1>5. rd.at \in {"idle", "look", "read", "count"}
    BY <1>1 DEF ReadingType
  <1>. QED
    BY <1>1, <1>3, <1>4, <1>5 DEF FlashTypeInv, FlashBounds, Programmed, FlashTypeOK
=============================================================================
