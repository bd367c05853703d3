--------------------------- MODULE RestoreExtents ---------------------------
(***************************************************************************)
(* Restoring one uncompressed file: RestoreUncompressedFile and            *)
(* WriteFileBytes of src/hfsprescue.cpp, with the ExtentsOverflowFile      *)
(* lookup of src/eof.cpp.                                                  *)
(*                                                                         *)
(* Bytes are counted in cells.  A cell read from the device is known by    *)
(* its address, so that the copy shows where each of its cells came from:  *)
(* pread64 and fwrite are called without a look at what they return, and a *)
(* buffer that was not filled is written all the same.                     *)
(*                                                                         *)
(* What one run of the function meets is chosen once, in `input`:          *)
(*   file      the record LoadFileInfo returned, with the source's fields; *)
(*   options   the command line: ignore_blocks, ignore_eof,                *)
(*             ignore_file_create_error;                                   *)
(*   vh_start  startBlock of the overflow file in the volume header;       *)
(*   eof       the slots of the ExtentsOverflowFile, eof_available;        *)
(*   bad       device cells that cannot be read (or lie behind its end);   *)
(*   space     cells the target file system can take;                      *)
(*   content   the file as it was: offset -> device cell, and              *)
(*   first     the number of the first block of each extent, the two       *)
(*             facts the properties compare the copy with.                 *)
(***************************************************************************)
EXTENDS ExtentsOverflow

CONSTANTS
  NumExtents,   \* extents of a catalog record (8 on disk)
  BlockSize,    \* block_size, in cells
  Offset,       \* offset of the volume in the device, in cells
  ChunkSize,    \* sizeof (file_buffer), in cells
  BigFile,      \* the size (1 GB) above which too many blocks are refused
  Inputs        \* the runs of the function

CatalogExtents == 1 .. NumExtents

Old  == -1      \* left in file_buffer by the file restored before
Hole == -2      \* never written

Cell == Nat \cup {Old}

Min2(a, b) == IF a <= b THEN a ELSE b

-----------------------------------------------------------------------------
(* What an input is, and when its overflow file and its catalog record     *)
(* tell the truth about the file.                                          *)

File == [catalog_id : Nat, file_size : Nat,
         blocks : [CatalogExtents -> Nat], num_blocks : [CatalogExtents -> Nat],
         catalog_num_blocks : Nat, has_extents_overflow : BOOLEAN]

LiveExtent(f, i) == f.blocks[i] > 0 /\ f.num_blocks[i] > 0

DeviceCell(block) == block * BlockSize + Offset

InputOK(s) ==
  /\ s.file \in File
  /\ s.options \in [ignore_blocks : BOOLEAN, ignore_eof : BOOLEAN,
                    ignore_file_create_error : BOOLEAN]
  /\ s.vh_start \in Nat
  /\ s.eof \in Seq(Slot)
  /\ s.eof_available \in BOOLEAN
  /\ s.bad \subseteq Nat
  /\ s.space \in Nat
  /\ s.content \in [0 .. s.file.file_size - 1 -> Nat]
  /\ s.first \in [1 .. NumExtents + 1 -> Nat]

(* The record's extents follow one another in the file, and each one that  *)
(* reaches into the file holds the file's cells.                           *)
CatalogSound(s) ==
  LET f == s.file IN
  /\ s.first[1] = 0
  /\ \A i \in CatalogExtents :
       LiveExtent(f, i) =>
         /\ s.first[i + 1] = s.first[i] + f.num_blocks[i]
         /\ \A k \in 0 .. f.file_size - 1 :
              (s.first[i] * BlockSize <= k /\ k < s.first[i + 1] * BlockSize)
                => s.content[k] = DeviceCell(f.blocks[i]) + (k - s.first[i] * BlockSize)
  /\ f.has_extents_overflow = (f.catalog_num_blocks * BlockSize < f.file_size)
  /\ \A i \in 1 .. NumExtents + 1 :
       (/\ \A j \in 1 .. i - 1 : LiveExtent(f, j)
        /\ i <= NumExtents => ~LiveExtent(f, i))
         => f.catalog_num_blocks = s.first[i]

(* The records of the file in leaves of the overflow file tell the truth:  *)
(* each extent holds the file's cells from the number on at which the key  *)
(* and the extents before it put it.  Nothing is said of the order of the  *)
(* slots, of other files' slots, of blocks that no record has, or of       *)
(* records that have a block twice.                                        *)
OverflowSound(s) ==
  \A n \in 1 .. Len(s.eof), e \in Entries :
    LET slot == s.eof[n]
        extent == slot.data[e]
        start == StartBlock(slot)[e]
    IN  (Matches(slot, s.file.catalog_id) /\ \A j \in 1 .. e : Live(slot.data[j]))
          => \A k \in 0 .. s.file.file_size - 1 :
               (start * BlockSize <= k /\ k < (start + extent.num) * BlockSize)
                 => s.content[k] = DeviceCell(extent.block) + (k - start * BlockSize)

(* A block of the device belongs to one block of one file: an extent of    *)
(* the file's records on which a cell of the file lies counts, and has the *)
(* number of that cell.                                                    *)
AllocatedOnce(s) ==
  \A n \in 1 .. Len(s.eof), e \in Entries, k \in 0 .. s.file.file_size - 1 :
    LET slot == s.eof[n]
        extent == slot.data[e]
        start == StartBlock(slot)[e]
    IN  (/\ Matches(slot, s.file.catalog_id)
         /\ DeviceCell(extent.block) <= s.content[k]
         /\ s.content[k] < DeviceCell(extent.block + extent.num))
          => /\ \A j \in 1 .. e : Live(slot.data[j])
             /\ start * BlockSize <= k /\ k < (start + extent.num) * BlockSize

ASSUME SizesAssumption ==
  /\ NumExtents \in Nat \ {0}
  /\ BlockSize \in Nat \ {0}
  /\ Offset \in Nat
  /\ ChunkSize \in Nat \ {0}
  /\ BigFile \in Nat

ASSUME InputsAssumption ==
  \A s \in Inputs : InputOK(s) /\ CatalogSound(s) /\ OverflowSound(s)

ASSUME VolumeAssumption ==
  \A s \in Inputs : AllocatedOnce(s)

-----------------------------------------------------------------------------
VARIABLES
  input,        \* chosen in Init, never changed
  pc,           \* the loop the function is in
  i,            \* the next catalog extent
  bytes_left,   \* of the file, after the extent being copied
  bytes,        \* of that extent, not yet copied by WriteFileBytes
  file_offset,  \* where on the device they are
  file_block,   \* the next block to ask the overflow file for
  buf,          \* file_buffer, static: it keeps what it held
  out,          \* the file written: offset -> device cell, Old or Hole
  restored,     \* file_info.restored
  result        \* how the function ended

vars == <<input, pc, i, bytes_left, bytes, file_offset, file_block, buf, out,
          restored, result>>

file == input.file

Offsets == 0 .. file.file_size - 1

(* Offset in the file of the next byte handed to fwrite.                   *)
Pos == file.file_size - bytes_left - bytes

Results == {"none",             \* still running
            "no_eof_start",     \* return false: overflow file not locatable
            "blocks_skipped",   \* return false, invalid_skipped
            "create_skipped",   \* return false, file_create_error_skipped
            "exit",             \* exit (EXIT_FAILURE)
            "returned"}         \* return true

Init ==
  /\ input \in Inputs
  /\ pc = "check"
  /\ i = 1
  /\ bytes_left = file.file_size
  /\ bytes = 0
  /\ file_offset = 0
  /\ file_block = 0
  /\ buf = [c \in 0 .. ChunkSize - 1 |-> Old]
  /\ out = [k \in Offsets |-> Hole]
  /\ restored = FALSE
  /\ result = "none"

NoEofStart == file.has_extents_overflow /\ input.vh_start < 1

TooManyBlocks ==
  /\ file.catalog_num_blocks > bytes_left \div BlockSize + 1
  /\ ~input.options.ignore_blocks
  /\ bytes_left > BigFile

Return(r) == pc' = "done" /\ result' = r

(* The two early returns before the target is touched.                     *)
Refuse ==
  /\ pc = "check"
  /\ \/ NoEofStart /\ Return("no_eof_start")
     \/ ~NoEofStart /\ TooManyBlocks /\ Return("blocks_skipped")
  /\ UNCHANGED <<input, i, bytes_left, bytes, file_offset, file_block, buf, out,
                 restored>>

(* fopen (file_name, "w") succeeds; an empty file is finished by it.       *)
CreateFile ==
  /\ pc = "check"
  /\ ~NoEofStart /\ ~TooManyBlocks
  /\ IF bytes_left = 0
     THEN Return("returned")
     ELSE pc' = "extents" /\ UNCHANGED result
  /\ UNCHANGED <<input, i, bytes_left, bytes, file_offset, file_block, buf, out,
                 restored>>

CreateFails ==
  /\ pc = "check"
  /\ ~NoEofStart /\ ~TooManyBlocks
  /\ Return(IF input.options.ignore_file_create_error
            THEN "create_skipped" ELSE "exit")
  /\ UNCHANGED <<input, i, bytes_left, bytes, file_offset, file_block, buf, out,
                 restored>>

(* Slips of CopyBlocks: without the cap to what is left of the file; with  *)
(* the offset of the volume forgotten; one block short.                    *)
CopyBlocks_Uncapped(block, num) ==
  /\ file_offset' = DeviceCell(block)
  /\ bytes' = BlockSize * num
  /\ bytes_left' = bytes_left - bytes'

CopyBlocks_NoOffset(block, num) ==
  /\ file_offset' = block * BlockSize
  /\ bytes' = Min2(BlockSize * num, bytes_left)
  /\ bytes_left' = bytes_left - bytes'

CopyBlocks_Short(block, num) ==
  /\ file_offset' = DeviceCell(block)
  /\ bytes' = Min2(BlockSize * (num - 1), bytes_left)
  /\ bytes_left' = bytes_left - bytes'

(* The call of WriteFileBytes for num blocks from block.  Its caller takes *)
(* the bytes off bytes_left when it returns; nothing reads bytes_left in   *)
(* between.                                                                *)
CopyBlocks(block, num) ==
  /\ file_offset' = DeviceCell(block)
  /\ bytes' = Min2(BlockSize * num, bytes_left)
  /\ bytes_left' = bytes_left - bytes'

StartExtent ==
  /\ pc = "extents" /\ bytes = 0
  /\ i <= NumExtents
  /\ LiveExtent(file, i)
  /\ CopyBlocks(file.blocks[i], file.num_blocks[i])
  /\ i' = i + 1
  /\ UNCHANGED <<input, pc, file_block, buf, out, restored, result>>

(* The end of the catalog extents: the overflow file is asked only when no *)
(* extent of the record was dead (allow_extents_check).                    *)
EndExtents ==
  /\ pc = "extents" /\ bytes = 0
  /\ i <= NumExtents => ~LiveExtent(file, i)
  /\ pc' = IF /\ ~input.options.ignore_eof
              /\ file.has_extents_overflow
              /\ i > NumExtents
              /\ input.eof_available
           THEN "overflow" ELSE "close"
  /\ file_block' = file.catalog_num_blocks
  /\ UNCHANGED <<input, i, bytes_left, bytes, file_offset, buf, out, restored,
                 result>>

Lookup == EOF_GetRemainingBlocks(input.eof, file.catalog_id, file_block)

(* Slip of StartOverflowExtent: the next request is for the same block.    *)
StartOverflowExtent_SameBlock ==
  /\ pc = "overflow" /\ bytes = 0 /\ bytes_left > 0
  /\ Lookup.found
  /\ CopyBlocks(Lookup.block, Lookup.num)
  /\ UNCHANGED <<input, pc, i, file_block, buf, out, restored, result>>

StartOverflowExtent ==
  /\ pc = "overflow" /\ bytes = 0 /\ bytes_left > 0
  /\ Lookup.found
  /\ CopyBlocks(Lookup.block, Lookup.num)
  /\ file_block' = file_block + Lookup.num
  /\ UNCHANGED <<input, pc, i, buf, out, restored, result>>

(* Slip of EndOverflow: no break when the lookup fails (the loop's own     *)
(* flag `error` is never set).                                             *)
EndOverflow_NoBreak ==
  /\ pc = "overflow" /\ bytes = 0 /\ bytes_left = 0
  /\ pc' = "close"
  /\ UNCHANGED <<input, i, bytes_left, bytes, file_offset, file_block, buf, out,
                 restored, result>>

EndOverflow ==
  /\ pc = "overflow" /\ bytes = 0
  /\ bytes_left > 0 => ~Lookup.found
  /\ pc' = "close"
  /\ UNCHANGED <<input, i, bytes_left, bytes, file_offset, file_block, buf, out,
                 restored, result>>

(* pread64 of n cells at file_offset fills the buffer up to the first cell *)
(* that cannot be read.                                                    *)
ReadsUpTo(n, got) ==
  /\ \A c \in 0 .. got - 1 : file_offset + c \notin input.bad
  /\ got < n => file_offset + got \in input.bad

(* One turn of the loop of WriteFileBytes: a read and a write, both        *)
(* unchecked.  What the target has no room for is lost.                    *)
WriteChunk ==
  /\ bytes > 0
  /\ LET n == Min2(bytes, ChunkSize) IN
     \E got \in 0 .. n :
       /\ ReadsUpTo(n, got)
       /\ buf' = [c \in 0 .. ChunkSize - 1 |->
                    IF c < got THEN file_offset + c ELSE buf[c]]
       /\ out' = [k \in Offsets |->
                    IF Pos <= k /\ k < Pos + n /\ k < input.space
                    THEN buf'[k - Pos] ELSE out[k]]
       /\ bytes' = bytes - n
       /\ file_offset' = file_offset + n
  /\ UNCHANGED <<input, pc, i, bytes_left, file_block, restored, result>>

(* Slip of Close: no look at what is left.                                 *)
Close_Always ==
  /\ pc = "close"
  /\ restored' = TRUE
  /\ Return("returned")
  /\ UNCHANGED <<input, i, bytes_left, bytes, file_offset, file_block, buf, out>>

(* fclose, and the verdict.                                                *)
Close ==
  /\ pc = "close"
  /\ restored' = (bytes_left = 0)
  /\ Return("returned")
  /\ UNCHANGED <<input, i, bytes_left, bytes, file_offset, file_block, buf, out>>

Next ==
  \/ Refuse \/ CreateFile \/ CreateFails
  \/ StartExtent \/ EndExtents
  \/ StartOverflowExtent \/ EndOverflow
  \/ WriteChunk
  \/ Close

Spec == Init /\ [][Next]_vars

(* The function runs in the program's only thread: while it can take a     *)
(* step, it takes one.                                                     *)
FairSpec == Spec /\ WF_vars(Next)
-----------------------------------------------------------------------------
(* Properties.                                                             *)

(* Types of all variables, and the bounds the loops keep: bytes_left and   *)
(* bytes are parts of the file size, i is an extent or one behind them.    *)
TypeOK ==
  /\ InputOK(input)
  /\ pc \in {"check", "extents", "overflow", "close", "done"}
  /\ i \in 1 .. NumExtents + 1
  /\ bytes_left \in 0 .. file.file_size
  /\ bytes \in 0 .. file.file_size - bytes_left
  /\ file_offset \in Nat
  /\ file_block \in Nat
  /\ buf \in [0 .. ChunkSize - 1 -> Cell]
  /\ out \in [Offsets -> Cell \cup {Hole}]
  /\ restored \in BOOLEAN
  /\ result \in Results

(* Extents of the file that the overflow file holds in a leaf.             *)
Held ==
  { input.eof[h[1]].data[h[2]] :
      h \in { g \in (1 .. Len(input.eof)) \X Entries :
                Matches(input.eof[g[1]], file.catalog_id) } }

(* Those on which a cell of the device lies.                               *)
Around(cell) ==
  { e \in Held : DeviceCell(e.block) <= cell /\ cell < DeviceCell(e.block + e.num) }

(* The overflow file answers for every block of the file that it holds,    *)
(* with the rest of the extent the block lies in on the device, and for no *)
(* other, whatever the order of its slots and whatever other files', index *)
(* and empty slots it has: EOF_GetRemainingBlocks finds the block by its   *)
(* number in the file, this by its place on the device.                    *)
AnswerRight ==
  pc = "check" =>
    \A k \in Offsets :
      LET cell == input.content[k]
          hit == EOF_GetRemainingBlocks(input.eof, file.catalog_id, k \div BlockSize)
      IN  IF Around(cell) = {} THEN hit = NotFound
          ELSE \E e \in Around(cell) :
                 /\ hit.found
                 /\ DeviceCell(hit.block) = cell - (k % BlockSize)
                 /\ hit.block + hit.num = e.block + e.num

Written(k) == k < Pos /\ k < input.space

(* Every offset up to the one fwrite has reached, and no other, holds      *)
(* something, and it is the file's own cell unless one of the cells at     *)
(* most a buffer's length before it could not be read.  This is what the   *)
(* arithmetic on offsets, extents, chunks and overflow records in          *)
(* RestoreUncompressedFile and WriteFileBytes is for, whatever the         *)
(* fragmentation and the order of the overflow slots.                      *)
CopyFaithful ==
  \A k \in Offsets :
    /\ Written(k) <=> out[k] # Hole
    /\ Written(k) =>
         \/ out[k] = input.content[k]
         \/ \E j \in 0 .. k : k - j < ChunkSize /\ input.content[j] \in input.bad

(* A file is called restored only when its last byte has been written, so  *)
(* far as the target had room, and only by a run that returned TRUE.       *)
RestoredIsWhole ==
  restored =>
    /\ result = "returned"
    /\ \A k \in Offsets : k < input.space => out[k] # Hole

(* A file that is left incomplete by a run that returned TRUE has extents  *)
(* in the overflow file, and they were not to be had: the overflow file    *)
(* was ignored or not loaded, the catalog record broke off, or there was   *)
(* no record for the next block.  In particular every non-empty file whose *)
(* catalog extents cover its size is restored.                             *)
ShortOnlyWithoutOverflow ==
  (result = "returned" /\ ~restored /\ file.file_size > 0) =>
    /\ file.has_extents_overflow
    /\ \/ input.options.ignore_eof
       \/ ~input.eof_available
       \/ i <= NumExtents
       \/ ~Lookup.found

(* Both loops end, also when the overflow file answers every request with  *)
(* one block or has no answer: the while loop over bytes_left has no other *)
(* bound.                                                                  *)
Termination == <>(pc = "done")

(* The function implements the copy of a file from its first byte to its   *)
(* last.                                                                   *)
Copy == INSTANCE FileCopy WITH
          content <- input.content,
          healthy <- /\ input.space >= file.file_size
                     /\ \A k \in Offsets : input.content[k] \notin input.bad,
          copy <- out

CopiesInOrder == Copy!Spec
=============================================================================
