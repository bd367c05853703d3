----------------------------- MODULE ScanCache -----------------------------
(***************************************************************************)
(* Step 1 reads the volume block by block: FindFiles asks GetCacheBuffer   *)
(* for two blocks at a time, the one to scan and the one an entry may run  *)
(* into, and FillCache reads a window of the device into cache_mem         *)
(* (src/hfsprescue.cpp).                                                   *)
(*                                                                         *)
(* Bytes are counted in cells, and a cell that was read is known by its    *)
(* address, so that the buffer shows which parts of the device it holds.   *)
(* pread64 reads up to the first cell that cannot be read; when that is    *)
(* the first one it returns -1, which the unsigned cache_size takes for    *)
(* the largest number: the cache then claims to hold everything from       *)
(* there, while cache_mem still holds the window before.                   *)
(***************************************************************************)
EXTENDS Integers, Sequences

CONSTANTS
  BlockSize,   \* vh->blockSize
  Window,      \* sizeof (cache_mem), 100 MB
  Offset,      \* start of the volume in the device
  DeviceSize,  \* cells of the device
  BadSets      \* the sets of unreadable cells to choose from

ASSUME ScanAssumption ==
  /\ BlockSize \in Nat \ {0}
  /\ Window \in Nat \ {0}
  /\ Window >= 2 * BlockSize
  /\ Offset \in Nat
  /\ DeviceSize \in Nat
  /\ \A bad \in BadSets : bad \subseteq 0 .. DeviceSize - 1

(* With the very first cell of the device unreadable, -1 is not followed   *)
(* by a refill (0 + 2^64 - 1 is beyond every offset) and the program reads *)
(* behind cache_mem.  That run is left out.                                *)
ASSUME FirstCellAssumption ==
  Offset > 0 \/ \A bad \in BadSets : 0 \notin bad

Huge == -1     \* cache_size after a failed pread64: 2^64 - 1
None == -2     \* memory nothing has been read into

Cell == 0 .. DeviceSize - 1 \cup {None}

Min2(a, b) == IF a <= b THEN a ELSE b

VARIABLES
  bad,          \* unreadable cells
  pc,           \* "fill": before the loop of FindFiles;
                \* "get", "copy": in GetCacheBuffer; "scan": in ScanBuffer;
                \* "done": behind the loop
  fofs,         \* the block to scan, its offset in the device
  num_bytes,    \* of the call, still to be copied
  file_offset,  \* of the call, the next cell to be copied
  cache_file_offset, cache_size, cache_mem,
  buffer,       \* two blocks
  scanned,      \* what ScanBuffer was given, block after block
  fills         \* where the cache was filled from, kept for the properties

vars == <<bad, pc, fofs, num_bytes, file_offset, cache_file_offset, cache_size,
          cache_mem, buffer, scanned, fills>>

cache == <<cache_file_offset, cache_size, cache_mem, fills>>

-----------------------------------------------------------------------------
(* Slip of PReadResult: the window is always full.                         *)
PReadResult_Full(at) == IF at \in bad THEN Huge ELSE Window

Readable(at, n) == \A c \in at .. at + n - 1 : c < DeviceSize /\ c \notin bad

(* What pread64 of the window at an offset returns: the cells up to the    *)
(* end of the device or the first bad one, 0 at the end, -1 at a bad one.  *)
PReadResult(at) ==
  IF at \in bad
  THEN Huge
  ELSE CHOOSE n \in 0 .. Window :
         /\ Readable(at, n)
         /\ n < Window => ~Readable(at, n + 1)

(* Slip of FillCache: the cache does not note where it was filled from.    *)
FillCache_KeepOffset(at) ==
  LET n == PReadResult(at) IN
  /\ cache_size' = n
  /\ cache_mem' = [c \in 0 .. Window - 1 |-> IF c < n THEN at + c ELSE cache_mem[c]]
  /\ fills' = fills \cup {at}
  /\ UNCHANGED cache_file_offset

(* FillCache: with the result 0 it returns FALSE.                          *)
FillCache(at) ==
  LET n == PReadResult(at) IN
  /\ cache_size' = n
  /\ fills' = fills \cup {at}
  /\ cache_mem' = [c \in 0 .. Window - 1 |-> IF c < n THEN at + c ELSE cache_mem[c]]
  /\ cache_file_offset' = IF n = 0 THEN cache_file_offset ELSE at

(* cache_file_offset + cache_size, which wraps when cache_size is Huge.    *)
CacheEnd == cache_file_offset + cache_size

(* Slip of Missing: the end of the cache is taken for a part of it.        *)
Missing_OffByOne(at) == CacheEnd < at \/ cache_file_offset > at

(* The cell at this offset is not in the cache.                            *)
Missing(at) == CacheEnd <= at \/ cache_file_offset > at

(* cache_pointer + num_bytes < cache_size, for a cell that is not missing  *)
(* or has just been read.                                                  *)
Covers(at, n) ==
  \/ cache_size = Huge
  \/ (at - cache_file_offset) + n < cache_size

(* Slip of CopyOut: the copy starts one cell late.                         *)
CopyOut_Late(at, n) ==
  buffer' = [b \in 0 .. 2 * BlockSize - 1 |->
               IF b < n - 1 THEN cache_mem[at - cache_file_offset + b + 1] ELSE buffer[b]]

(* memcpy of n cells from the cache to the start of the buffer: also when  *)
(* the buffer holds the first part of the call already.                    *)
CopyOut(at, n) ==
  buffer' = [b \in 0 .. 2 * BlockSize - 1 |->
               IF b < n THEN cache_mem[at - cache_file_offset + b] ELSE buffer[b]]

Init ==
  /\ bad \in BadSets
  /\ pc = "fill"
  /\ fofs = Offset
  /\ num_bytes = 0 /\ file_offset = 0
  /\ cache_file_offset = 0 /\ cache_size = 0
  /\ cache_mem = [c \in 0 .. Window - 1 |-> None]
  /\ buffer = [b \in 0 .. 2 * BlockSize - 1 |-> None]
  /\ scanned = <<>>
  /\ fills = {}

(* FindFiles fills the cache once before its loop.                         *)
FirstFill ==
  /\ pc = "fill"
  /\ FillCache(fofs)
  /\ pc' = "get"
  /\ num_bytes' = 2 * BlockSize
  /\ file_offset' = fofs
  /\ UNCHANGED <<bad, fofs, buffer, scanned>>

(* Slip of Refill: an error ends the scan like the end of the device.      *)
Refill_ErrorEnds ==
  /\ pc = "get"
  /\ Missing(file_offset)
  /\ FillCache(file_offset)
  /\ pc' = IF PReadResult(file_offset) <= 0 THEN "done" ELSE "copy"
  /\ UNCHANGED <<bad, fofs, num_bytes, file_offset, buffer, scanned>>

(* GetCacheBuffer, at its start and in each turn of its loop: a refill,    *)
(* whose result 0 ends the scan ...                                        *)
Refill ==
  /\ pc = "get"
  /\ Missing(file_offset)
  /\ FillCache(file_offset)
  /\ pc' = IF PReadResult(file_offset) = 0 THEN "done" ELSE "copy"
  /\ UNCHANGED <<bad, fofs, num_bytes, file_offset, buffer, scanned>>

Hit ==
  /\ pc = "get"
  /\ ~Missing(file_offset)
  /\ pc' = "copy"
  /\ UNCHANGED <<bad, fofs, num_bytes, file_offset, cache, buffer, scanned>>

(* ... then the whole call from the cache ...                              *)
CopyAll ==
  /\ pc = "copy"
  /\ Covers(file_offset, num_bytes)
  /\ CopyOut(file_offset, num_bytes)
  /\ pc' = "scan"
  /\ UNCHANGED <<bad, fofs, num_bytes, file_offset, cache, scanned>>

(* ... or what the cache has of it, and another turn.  A call that ends    *)
(* with the cache is finished by it.                                       *)
CopyPart ==
  /\ pc = "copy"
  /\ ~Covers(file_offset, num_bytes)
  /\ LET bytes_left == cache_size - (file_offset - cache_file_offset)
     IN  /\ CopyOut(file_offset, bytes_left)
         /\ num_bytes' = num_bytes - bytes_left
         /\ file_offset' = file_offset + bytes_left
         /\ pc' = IF num_bytes' <= 0 THEN "scan" ELSE "get"
  /\ UNCHANGED <<bad, fofs, cache, scanned>>

(* ScanBuffer of the block, and the next block of FindFiles.               *)
Scan ==
  /\ pc = "scan"
  /\ scanned' = Append(scanned, buffer)
  /\ fofs' = fofs + BlockSize
  /\ num_bytes' = 2 * BlockSize
  /\ file_offset' = fofs'
  /\ pc' = "get"
  /\ UNCHANGED <<bad, cache, buffer>>

Next == FirstFill \/ Refill \/ Hit \/ CopyAll \/ CopyPart \/ Scan

Spec == Init /\ [][Next]_vars

(* One thread, which runs until the end of the device.                     *)
FairSpec == Spec /\ WF_vars(Next)

-----------------------------------------------------------------------------
(* Properties.                                                             *)

TypeOK ==
  /\ pc \in {"fill", "get", "copy", "scan", "done"}
  /\ fofs >= Offset
  /\ num_bytes \in 0 .. 2 * BlockSize
  /\ file_offset \in Nat /\ cache_file_offset \in Nat
  /\ cache_size \in 0 .. Window \cup {Huge}
  /\ cache_mem \in [0 .. Window - 1 -> Cell]
  /\ buffer \in [0 .. 2 * BlockSize - 1 -> Cell]

(* Where the n-th scanned block starts, and whether ScanBuffer was given   *)
(* it and the block behind it.                                             *)
BlockStart(n) == Offset + (n - 1) * BlockSize

Faithful(n) ==
  \A b \in 0 .. 2 * BlockSize - 1 : scanned[n][b] = BlockStart(n) + b

(* ScanBuffer gets the two blocks it is meant to get, except when a refill *)
(* falls inside them or they begin with an unreadable cell: the one flaw   *)
(* of the cache is at the seam of two windows.                             *)
FaithfulInsideWindow ==
  \A n \in DOMAIN scanned :
    \/ Faithful(n)
    \/ BlockStart(n) \in bad
    \/ \E f \in fills : BlockStart(n) < f /\ f < BlockStart(n) + 2 * BlockSize

(* At a seam of a readable device the buffer starts with what lies behind  *)
(* the seam: the end of the window is lost, nothing else is put there.     *)
SeamShowsNextWindow ==
  bad = {} =>
    \A n \in DOMAIN scanned :
      ~Faithful(n) =>
        \E f \in fills :
          /\ BlockStart(n) < f /\ f < BlockStart(n) + 2 * BlockSize
          /\ \A b \in 0 .. BlockStart(n) + 2 * BlockSize - f - 1 :
               scanned[n][b] = f + b

(* What ScanBuffer is given is wrong at seams only, and there in one way.  *)
OnlySeamsWrong == FaithfulInsideWindow /\ SeamShowsNextWindow

(* The scan ends, and not before the last two blocks of the device, also   *)
(* over unreadable cells, which pread64 reports as a number greater than   *)
(* every offset.                                                           *)
Termination == <>(pc = "done" /\ fofs + 2 * BlockSize > DeviceSize)

(* Step 1 scans the volume: on a readable device every block that has a    *)
(* block behind it is given to ScanBuffer with its own content.            *)
EveryBlockScanned ==
  (pc = "done" /\ bad = {}) =>
    \A n \in 1 .. (DeviceSize - Offset) \div BlockSize - 1 :
      /\ n \in DOMAIN scanned
      /\ \A b \in 0 .. BlockSize - 1 : scanned[n][b] = BlockStart(n) + b
=============================================================================
