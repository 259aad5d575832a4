----------------------------- MODULE MdebugFlash -----------------------------
(***************************************************************************)
(* The log kept in flash (mdebug_flash.c): two files one after the other   *)
(* in a partition, of which the one at g_log_index is written to until an  *)
(* entry does not fit; then the other is erased.  A reader takes the older *)
(* file first.  How much of each file is written and read is kept in RAM   *)
(* and stored in NVS.  The task that writes and the one that reads are not *)
(* synchronised, and a reset may come between any two effects.             *)
(*                                                                         *)
(* The flash is a row of cells, and a cell holds the number of the entry   *)
(* programmed there.  The event that says that much is unread is left out. *)
(***************************************************************************)
EXTENDS Integers, Sequences

CONSTANTS
  FileSize,   \* cells of a file
  EntrySizes, \* cells of an entry
  StampSize,  \* cells of the time stamp an entry begins with
  Entries,    \* how many entries are written
  Rooms,      \* sizes of the reader's buffer
  Mishaps,    \* bound on resets, restarts of the log, failing flash calls and
              \* calls of mdebug_flash_erase
  Overlap     \* whether a read may go on while an entry is written

ASSUME FlashAssumption ==
  /\ FileSize \in Nat \ {0} /\ EntrySizes \subseteq 1 .. FileSize /\ StampSize \in 0 .. FileSize
  /\ Entries \in Nat /\ Rooms \subseteq Nat \ {0}
  /\ Mishaps \in Nat /\ Overlap \in BOOLEAN

File == {0, 1}
Other(f) == 1 - f
AddrOf(f) == FileSize * f
\* The files, and the cells behind them that an entry may run into.
Cell == 0 .. 3 * FileSize + StampSize - 1

\* What a cell holds besides the numbers of entries; Hurt stands for whatever is read
\* from a hurt file.
Erased == 0
Garbled == -1
Hurt == -2

VARIABLES
  cells,    \* the partition
  stored,   \* g_log_info in NVS, none before it is first saved
  info,     \* g_log_info: cells of each file written and read
  index,    \* g_log_index
  stamp,    \* flag_timestamp
  logReady, \* g_mdebug_flash_init_flag
  wr,       \* the task in mdebug_flash_write
  rd,       \* the task in mdebug_flash_read
  entry,    \* entries written so far
  mishaps,  \* how much of the bound is used
  hurt,     \* files whose cells may differ from what info says of them
  last,     \* the newest entry read, and whether all were read in order
  disturbed \* by a restart, or by a rotation in the middle of a read

flashVars == <<cells, stored, info, index, stamp, logReady, wr, rd, entry, mishaps, hurt, last, disturbed>>

NoInfo == [f \in File |-> [size |-> 0, offset |-> 0]]
IdleWriter == [at |-> "idle", n |-> 0]
IdleReader == [at |-> "idle", room |-> 0, i |-> 0, file |-> 0, n |-> 0, got |-> <<>>]

Mishap == mishaps < Mishaps /\ mishaps' = mishaps + 1

\* esp_partition_write: programming clears bits, it never sets them.
Program(from, n) ==
  cells' = [c \in Cell |-> IF c \notin from .. from + n - 1 THEN cells[c]
                           ELSE IF cells[c] = Erased THEN entry ELSE Garbled]

-----------------------------------------------------------------------------
\* mdebug_flash_init: the file with the least in it is the one to go on with.  Both
\* of the same size leave the index as it is.
IndexOf(i, was) ==
  IF i[0].size < FileSize
    THEN IF i[1].size < i[0].size THEN 1 ELSE 0
    ELSE IF i[1].size < FileSize THEN 1 ELSE was

\* Files of which NVS does not say what RAM does.
Unsaved == {f \in File : info[f] # (IF stored = <<>> THEN NoInfo ELSE stored[1])[f]}

LogInit ==
  /\ ~ logReady /\ logReady' = TRUE
  /\ IF stored = <<>>
       THEN /\ cells' = [c \in Cell |-> IF c < 2 * FileSize THEN Erased ELSE cells[c]]
            /\ hurt' = Unsaved /\ UNCHANGED info
       ELSE info' = stored[1] /\ hurt' = hurt \union Unsaved /\ UNCHANGED cells
  /\ index' = IndexOf(info', index)
  /\ UNCHANGED <<stored, stamp, wr, rd, entry, mishaps, last, disturbed>>

\* mdebug_flash_deinit, which leaves everything but the flag.
LogDeinit ==
  /\ logReady /\ wr.at = "idle" /\ rd.at = "idle" /\ logReady' = FALSE
  /\ Mishap /\ disturbed' = TRUE
  /\ UNCHANGED <<cells, stored, info, index, stamp, wr, rd, entry, hurt, last>>

\* A reset.  What was programmed since the last save is not in the stored info, which
\* mdebug_flash_init will load.
LogReset ==
  /\ Mishap
  /\ index' = 0 /\ stamp' = TRUE /\ logReady' = FALSE
  /\ info' = IF stored = <<>> THEN NoInfo ELSE stored[1]
  /\ wr' = IdleWriter /\ rd' = IdleReader /\ disturbed' = TRUE
  /\ hurt' = hurt \union Unsaved \union (IF wr.at = "idle" THEN {} ELSE {index})
  /\ UNCHANGED <<cells, stored, entry, last>>

-----------------------------------------------------------------------------
\* mdebug_flash_write.  The time stamp is not counted when room is looked for.
Fits(n) == info[index].size + n <= FileSize

\* The reader asked for cells of the file, or has them and did not count them yet.
Busy(f) == rd.at \in {"read", "count"} /\ rd.file = f

WriteEntry(n) ==
  LET next == IF Fits(n) THEN index ELSE Other(index) IN
  /\ logReady /\ wr.at = "idle" /\ entry < Entries /\ entry' = entry + 1
  /\ Overlap \/ rd.at = "idle"
  /\ wr' = [at |-> IF Fits(n) THEN "data" ELSE "erase", n |-> n] /\ index' = next
  /\ disturbed' = (disturbed \/ (~ Fits(n) /\ rd.at # "idle"))
  /\ IF Fits(n) THEN UNCHANGED <<info, hurt>>
     ELSE /\ info' = [info EXCEPT ![next] = [size |-> 0, offset |-> 0]]
          /\ hurt' = IF Busy(next) THEN hurt \union {next} ELSE hurt
  /\ UNCHANGED <<cells, stored, stamp, logReady, rd, mishaps, last>>

EraseFile ==
  [c \in Cell |-> IF c \in AddrOf(index) .. AddrOf(index) + FileSize - 1 THEN Erased ELSE cells[c]]

WriteErase ==
  /\ wr.at = "erase" /\ wr' = [wr EXCEPT !.at = "data"] /\ cells' = EraseFile
  /\ hurt' = IF Busy(index) \/ info[index].offset > 0 THEN hurt ELSE hurt \ {index}
  /\ UNCHANGED <<stored, info, index, stamp, logReady, rd, entry, mishaps, last, disturbed>>

\* The file counts as empty, and is not.
WriteEraseFails ==
  /\ wr.at = "erase" /\ Mishap /\ wr' = IdleWriter /\ hurt' = hurt \union {index}
  /\ UNCHANGED <<cells, stored, info, index, stamp, logReady, rd, entry, last, disturbed>>

\* Time stamp and data, and the time stamp alone when the second call fails.
Programs(n) ==
  /\ Program(AddrOf(index) + info[index].size, n)
  /\ info' = [info EXCEPT ![index].size = @ + n]
  /\ hurt' = IF info[index].size + n > FileSize THEN File ELSE hurt

WriteData ==
  /\ wr.at = "data" /\ Programs(wr.n + (IF stamp THEN StampSize ELSE 0))
  /\ wr' = [wr EXCEPT !.at = "save"] /\ stamp' = FALSE
  /\ UNCHANGED <<stored, index, logReady, rd, entry, mishaps, last, disturbed>>

WriteDataFails ==
  /\ wr.at = "data" /\ Mishap /\ Programs(IF stamp THEN StampSize ELSE 0)
  /\ wr' = IdleWriter /\ stamp' = FALSE
  /\ UNCHANGED <<stored, index, logReady, rd, entry, last, disturbed>>

\* mdf_info_save.  An entry that ends a line has the next one stamped.
WriteSave(newline) ==
  /\ wr.at = "save" /\ wr' = IdleWriter /\ stored' = <<info>> /\ stamp' = newline
  /\ UNCHANGED <<cells, info, index, logReady, rd, entry, mishaps, hurt, last, disturbed>>

-----------------------------------------------------------------------------
\* mdebug_flash_read: the cells left, which is a difference of unsigned numbers.
Unread(f) == IF info[f].offset > info[f].size THEN 3 * FileSize ELSE info[f].size - info[f].offset
Smaller(a, b) == IF a < b THEN a ELSE b

FirstFileNewer(i) == (index + i) % 2  \* mutant
FirstFile(i) == (index + 1 + i) % 2

\* The caller's buffer has so much room.
ReadEntry(room) ==
  /\ logReady /\ rd.at = "idle" /\ (Overlap \/ wr.at = "idle")
  /\ rd' = [IdleReader EXCEPT !.at = "look", !.room = room]
  /\ UNCHANGED <<cells, stored, info, index, stamp, logReady, wr, entry, mishaps, hurt, last, disturbed>>

ReadNext == IF rd.i = 1 THEN IdleReader ELSE [rd EXCEPT !.at = "look", !.i = 1, !.file = 0, !.n = 0]

\* Looks at the i-th file, and asks for its cells if it has some.
Asked(f) == Smaller(rd.room - Len(rd.got), Unread(f))

ReadNothing ==
  /\ rd.at = "look" /\ Asked(FirstFile(rd.i)) = 0 /\ rd' = ReadNext
  /\ UNCHANGED <<cells, stored, info, index, stamp, logReady, wr, entry, mishaps, hurt, last, disturbed>>

ReadSize ==
  LET f == FirstFile(rd.i) IN
  /\ rd.at = "look" /\ Asked(f) > 0 /\ rd' = [rd EXCEPT !.at = "read", !.file = f, !.n = Asked(f)]
  /\ UNCHANGED <<cells, stored, info, index, stamp, logReady, wr, entry, mishaps, hurt, last, disturbed>>

\* esp_partition_read takes the offset as it is by then.
ReadFrom == AddrOf(rd.file) + info[rd.file].offset
InPartition == ReadFrom + rd.n - 1 \in Cell

ReadFile ==
  /\ rd.at = "read" /\ InPartition
  /\ rd' = [rd EXCEPT !.at = "count", !.got = @ \o
              [k \in 1 .. rd.n |-> IF rd.file \in hurt THEN Hurt ELSE cells[ReadFrom - 1 + k]]]
  /\ UNCHANGED <<cells, stored, info, index, stamp, logReady, wr, entry, mishaps, hurt, last, disturbed>>

\* A read that fails, past the end of the partition too, gives the file up.
ReadFileFails ==
  /\ rd.at = "read"
  /\ Mishap \/ (~ InPartition /\ UNCHANGED mishaps)
  /\ info' = [info EXCEPT ![rd.file] = [size |-> 0, offset |-> 0]] /\ rd' = IdleReader
  /\ hurt' = hurt \union {rd.file}
  /\ UNCHANGED <<cells, stored, index, stamp, logReady, wr, entry, last, disturbed>>

\* Only now is the offset advanced, and saved.
ReadCount ==
  LET got == SubSeq(rd.got, Len(rd.got) - rd.n + 1, Len(rd.got))
      inOrder == \A k \in 1 .. rd.n : (IF k = 1 THEN last.newest ELSE got[k - 1]) <= got[k]
  IN
  /\ rd.at = "count" /\ rd' = ReadNext
  /\ info' = [info EXCEPT ![rd.file].offset = @ + rd.n] /\ stored' = <<info'>>
  /\ last' = IF got[1] = Hurt THEN last
             ELSE [newest |-> got[rd.n], ordered |-> last.ordered /\ inOrder]
  /\ UNCHANGED <<cells, index, stamp, logReady, wr, entry, mishaps, hurt, disturbed>>

\* mdebug_flash_erase: RAM still says that there is something to read.
LogErase ==
  /\ logReady /\ rd.at = "idle" /\ wr.at = "idle"
  /\ Mishap
  /\ stored' = <<>> /\ hurt' = File
  /\ cells' = [c \in Cell |-> IF c < 2 * FileSize THEN Erased ELSE cells[c]]
  /\ UNCHANGED <<info, index, stamp, logReady, wr, rd, entry, last, disturbed>>

-----------------------------------------------------------------------------
FlashInit ==
  /\ cells = [c \in Cell |-> Garbled] /\ stored = <<>> /\ info = NoInfo /\ index = 0
  /\ stamp = TRUE /\ logReady = FALSE /\ wr = IdleWriter /\ rd = IdleReader /\ entry = 0
  /\ mishaps = 0 /\ hurt = {}
  /\ last = [newest |-> 0, ordered |-> TRUE] /\ disturbed = FALSE

FlashNext ==
  \/ LogInit \/ LogDeinit \/ LogReset \/ LogErase
  \/ \E n \in EntrySizes : WriteEntry(n)
  \/ WriteErase \/ WriteEraseFails \/ WriteData \/ WriteDataFails
  \/ \E newline \in BOOLEAN : WriteSave(newline)
  \/ \E room \in Rooms : ReadEntry(room)
  \/ ReadNothing \/ ReadSize \/ ReadFile \/ ReadFileFails \/ ReadCount

FlashSpec == FlashInit /\ [][FlashNext]_flashVars

-----------------------------------------------------------------------------
Info == [File -> [size : Nat, offset : Nat]]

FlashTypeOK ==
  /\ cells \in [Cell -> {Erased, Garbled} \union 1 .. Entries]
  /\ stored # <<>> => Len(stored) = 1 /\ stored[1] \in Info
  /\ info \in Info /\ index \in File /\ stamp \in BOOLEAN /\ logReady \in BOOLEAN
  /\ wr \in [at : {"idle", "erase", "data", "save"}, n : Nat]
  /\ rd.at \in {"idle", "look", "read", "count"} /\ Len(rd.got) <= rd.room
  /\ entry \in 0 .. Entries /\ hurt \subseteq File
  /\ mishaps \in 0 .. Mishaps

\* What mdebug_flash_read hands out is what was logged: of a file that was not hurt
\* (by a reset before the save, a failing call, mdebug_flash_erase, a rotation while
\* it is read, or an entry too long for the file), no cell was ever read that is
\* erased or was programmed twice, and until a restart, and unless the files are rotated
\* in the middle of a read, entries are read in the order they were written.
ReadsAreTheLog ==
  /\ \A k \in 1 .. Len(rd.got) : rd.got[k] \notin {Erased, Garbled}
  /\ ~ disturbed => last.ordered

\* The reader never gets ahead of what was written.
OffsetWithinSize == \A f \in File : info[f].offset <= info[f].size
=============================================================================
