--------------------------- MODULE Readers_proof ---------------------------
(***************************************************************************)
(* Proofs about the three loops that read a device through a buffer of     *)
(* their own: the scan of step 1 (ScanCache), the searches (DeviceSearch)  *)
(* and the decompression (Decompress).  They hold for every size of block  *)
(* and buffer, every device, and every set of unreadable cells.            *)
(***************************************************************************)
EXTENDS ScanCache, DeviceSearch, Decompress, SequenceTheorems, WellFoundedInduction, TLAPS

(***************************************************************************)
(* ScanCache.                                                              *)
(***************************************************************************)

(* What the cache claims to hold it holds, except after a failed read.     *)
CacheRight ==
  cache_size # Huge =>
    \A c \in 0 .. cache_size - 1 : cache_mem[c] = cache_file_offset + c

Seam(start, f) == f \in fills /\ start < f /\ f < start + 2 * BlockSize

(* The turn of GetCacheBuffer: the first one, or one behind a seam, for    *)
(* which the cache must be filled.                                         *)
Turn ==
  /\ pc \in {"get", "copy"} =>
       /\ num_bytes > 0
       /\ file_offset = fofs + 2 * BlockSize - num_bytes
  /\ pc = "get" /\ num_bytes < 2 * BlockSize => Missing(file_offset)
  /\ pc = "copy" =>
       /\ cache_file_offset <= file_offset
       /\ IF cache_size = Huge
          THEN file_offset = cache_file_offset /\ file_offset \in bad
          ELSE file_offset < cache_file_offset + cache_size
       /\ num_bytes < 2 * BlockSize =>
            file_offset = cache_file_offset /\ Seam(fofs, file_offset)

(* What a buffer may show of the two blocks from start on.                 *)
MayShow(buf, start) ==
  \/ \A b \in 0 .. 2 * BlockSize - 1 : buf[b] = start + b
  \/ start \in bad
  \/ \E f : /\ Seam(start, f)
            /\ bad = {} =>
                 \A b \in 0 .. start + 2 * BlockSize - f - 1 : buf[b] = f + b

Scanned ==
  /\ scanned \in Seq([0 .. 2 * BlockSize - 1 -> Cell])
  /\ fofs = Offset + Len(scanned) * BlockSize
  /\ pc = "scan" => MayShow(buffer, fofs)
  /\ \A n \in DOMAIN scanned : MayShow(scanned[n], BlockStart(n))

IInv == bad \in BadSets /\ TypeOK /\ CacheRight /\ Turn /\ Scanned
-----------------------------------------------------------------------------
LEMMA Sizes ==
  /\ BlockSize \in Nat /\ BlockSize > 0 /\ Window \in Nat /\ Window > 0
  /\ Window >= 2 * BlockSize /\ Offset \in Nat /\ DeviceSize \in Nat
  BY ScanAssumption

LEMMA LessWellFounded == IsWellFoundedOn({p \in Nat \X Nat : p[1] < p[2]}, Nat)
  <1>1. OpToRel(<, Nat) = {p \in Nat \X Nat : p[1] < p[2]}
    BY DEF OpToRel
  <1> QED
    BY <1>1, NatLessThanWellFounded

LEMMA SmallestOf ==
  ASSUME NEW S, S \subseteq Nat, S # {}
  PROVE  \E m \in S : \A n \in S : m <= n
  <1> DEFINE R == {p \in Nat \X Nat : p[1] < p[2]}
  <1>1. IsWellFoundedOn(R, Nat)
    BY LessWellFounded
  <1> HIDE DEF R
  <1>2. PICK m \in S : \A y \in S : ~(<<y, m>> \in R)
    BY <1>1, WFMin
  <1>3. ASSUME NEW n \in S, n < m
        PROVE  FALSE
    <2>1. m \in Nat /\ n \in Nat /\ <<n, m>>[1] = n /\ <<n, m>>[2] = m
      OBVIOUS
    <2>2. <<n, m>> \in R
      BY <1>3, <2>1 DEF R
    <2> QED
      BY <1>2, <2>2
  <1>4. \A n \in S : m <= n
    BY <1>3
  <1> QED
    BY <1>4

(* What pread64 returns: the first number of cells that cannot be read     *)
(* less one, which exists.                                                 *)
LEMMA PRead ==
  ASSUME NEW at \in Nat
  PROVE  /\ at \in bad => PReadResult(at) = Huge
         /\ at \notin bad => /\ PReadResult(at) \in 0 .. Window
                             /\ Readable(at, PReadResult(at))
  <1>1. at \in bad => PReadResult(at) = Huge
    BY DEF PReadResult
  <1>2. ASSUME at \notin bad
        PROVE  \E n \in 0 .. Window : /\ Readable(at, n)
                                      /\ n < Window => ~Readable(at, n + 1)
    <2> DEFINE S == {n \in 0 .. Window : n = Window \/ ~Readable(at, n + 1)}
    <2>1. S \subseteq Nat /\ Window \in S
      BY Sizes
    <2>2. PICK m \in S : \A n \in S : m <= n
      BY <2>1, SmallestOf
    <2>3. Readable(at, m)
      <3> SUFFICES ASSUME NEW c \in at .. at + m - 1
                   PROVE  c < DeviceSize /\ c \notin bad
        BY DEF Readable
      <3> DEFINE k == c - at
      <3>1. k \in 0 .. Window /\ k < m /\ c \in at .. at + (k + 1) - 1
        BY <2>1, Sizes
      <3>2. k \notin S
        BY <2>2, <3>1
      <3>3. Readable(at, k + 1)
        BY <3>1, <3>2
      <3> QED
        BY <3>1, <3>3 DEF Readable
    <2> QED
      BY <2>2, <2>3
  <1> QED
    BY <1>1, <1>2 DEF PReadResult

LEMMA Types ==
  ASSUME IInv
  PROVE  /\ num_bytes \in Nat /\ num_bytes <= 2 * BlockSize
         /\ file_offset \in Nat /\ cache_file_offset \in Nat
         /\ cache_size \in Int /\ cache_size >= -1 /\ cache_size <= Window
         /\ cache_size # Huge => cache_size \in Nat
         /\ cache_mem \in [0 .. Window - 1 -> Cell]
         /\ buffer \in [0 .. 2 * BlockSize - 1 -> Cell]
         /\ Len(scanned) \in Nat /\ DOMAIN scanned = 1 .. Len(scanned)
         /\ fofs \in Nat /\ fofs >= Offset
  <1>1. /\ num_bytes \in 0 .. 2 * BlockSize
        /\ file_offset \in Nat /\ cache_file_offset \in Nat
        /\ cache_size \in 0 .. Window \cup {Huge}
        /\ cache_mem \in [0 .. Window - 1 -> Cell]
        /\ buffer \in [0 .. 2 * BlockSize - 1 -> Cell]
    BY DEF IInv, TypeOK
  <1>2. Len(scanned) \in Nat /\ DOMAIN scanned = 1 .. Len(scanned)
        /\ fofs = Offset + Len(scanned) * BlockSize
    BY DEF IInv, Scanned
  <1>3. Len(scanned) * BlockSize \in Nat
    BY <1>2, Sizes
  <1>4. cache_size \in Int /\ cache_size >= -1 /\ cache_size <= Window
        /\ (cache_size # Huge => cache_size \in Nat)
    BY <1>1, Sizes DEF Huge
  <1>5. num_bytes \in Nat /\ num_bytes <= 2 * BlockSize
    BY <1>1, Sizes
  <1> QED
    BY <1>1, <1>2, <1>3, <1>4, <1>5, Sizes

(* FillCache notes where it read from, except at the end of the device.    *)
LEMMA Filled ==
  ASSUME IInv, NEW at \in Nat, FillCache(at)
  PROVE  /\ cache_size' = PReadResult(at)
         /\ cache_size' \in 0 .. Window \cup {Huge}
         /\ cache_size' = Huge => at \in bad
         /\ cache_size' # 0 => cache_file_offset' = at
         /\ cache_file_offset' \in Nat
         /\ cache_mem' \in [0 .. Window - 1 -> Cell]
         /\ fills' = fills \cup {at}
         /\ CacheRight'
  <1> DEFINE n == PReadResult(at)
  <1>1. /\ cache_size' = n /\ fills' = fills \cup {at}
        /\ cache_mem' = [c \in 0 .. Window - 1 |-> IF c < n THEN at + c ELSE cache_mem[c]]
        /\ cache_file_offset' = IF n = 0 THEN cache_file_offset ELSE at
    BY DEF FillCache
  <1>2. /\ n \in 0 .. Window \cup {Huge}
        /\ n = Huge => at \in bad
        /\ n # Huge => Readable(at, n)
    <2>1. CASE at \in bad
      BY <2>1, PRead
    <2>2. CASE at \notin bad
      <3>1. n \in 0 .. Window /\ Readable(at, n)
        BY <2>2, PRead
      <3>2. n # Huge
        BY <3>1, Sizes DEF Huge
      <3> QED
        BY <3>1, <3>2
    <2> QED
      BY <2>1, <2>2
  <1> HIDE DEF n
  <1>3. ASSUME NEW c \in 0 .. Window - 1
        PROVE  cache_mem'[c] \in Cell
    <2>1. CASE c < n
      <3>1. n # Huge /\ n \in 0 .. Window
        BY <1>2, <2>1, Sizes DEF Huge
      <3>2. at + c \in at .. at + n - 1
        BY <2>1, <3>1, Sizes
      <3>3. at + c < DeviceSize
        BY <1>2, <3>1, <3>2 DEF Readable
      <3>4. at + c \in 0 .. DeviceSize - 1
        BY <3>3, Sizes
      <3> QED
        BY <1>1, <2>1, <3>4 DEF Cell
    <2>2. CASE ~(c < n)
      BY <1>1, <2>2, Types
    <2> QED
      BY <2>1, <2>2
  <1>4. cache_mem' \in [0 .. Window - 1 -> Cell]
    BY <1>1, <1>3
  <1>5. cache_file_offset' \in Nat
    BY <1>1, Types
  <1>6. CacheRight'
    <2> SUFFICES ASSUME n # Huge, NEW c \in 0 .. n - 1
                 PROVE  cache_mem'[c] = cache_file_offset' + c
      BY <1>1 DEF CacheRight
    <2>1. n \in 0 .. Window
      BY <1>2
    <2>2. c \in 0 .. Window - 1 /\ c < n /\ n # 0
      BY <2>1, Sizes
    <2> QED
      BY <1>1, <2>2
  <1> QED
    BY <1>1, <1>2, <1>4, <1>5, <1>6 DEF n

(* More refills, no less is known of a buffer.                             *)
LEMMA SeenStays ==
  ASSUME bad' = bad, fills \subseteq fills', NEW buf, NEW start, MayShow(buf, start)
  PROVE  MayShow(buf, start)'
  BY DEF MayShow, Seam

LEMMA ScannedStays ==
  ASSUME IInv, bad' = bad, fills \subseteq fills', UNCHANGED <<fofs, scanned>>,
         pc' = "scan" => MayShow(buffer, fofs)'
  PROVE  Scanned'
  <1>1. ASSUME NEW n \in DOMAIN scanned
        PROVE  MayShow(scanned[n], BlockStart(n))'
    <2>1. MayShow(scanned[n], BlockStart(n))
      BY DEF IInv, Scanned
    <2>2. MayShow(scanned'[n], BlockStart(n)')
      BY <2>1 DEF BlockStart
    <2> QED
      BY <2>1, SeenStays DEF BlockStart, MayShow, Seam
  <1> QED
    BY <1>1 DEF IInv, Scanned

-----------------------------------------------------------------------------
LEMMA InitIInv == Init => IInv
  <1> SUFFICES ASSUME Init
               PROVE  IInv
    OBVIOUS
  <1>1. TypeOK
    BY Sizes DEF Init, TypeOK, Cell
  <1>2. CacheRight
    BY DEF Init, CacheRight
  <1>3. Turn
    BY DEF Init, Turn
  <1>4. Scanned
    BY Sizes DEF Init, Scanned
  <1> QED
    BY <1>1, <1>2, <1>3, <1>4 DEF IInv, Init

(* What a copy puts into the buffer, and what the buffer shows when the    *)
(* copy finishes the call.                                                 *)
LEMMA Copied ==
  ASSUME IInv, pc = "copy", NEW n \in Nat, n <= num_bytes,
         cache_size # Huge => file_offset - cache_file_offset + n <= cache_size,
         CopyOut(file_offset, n)
  PROVE  /\ buffer' \in [0 .. 2 * BlockSize - 1 -> Cell]
         /\ n = num_bytes => MayShow(buffer', fofs)
  <1>1. /\ num_bytes > 0 /\ file_offset = fofs + 2 * BlockSize - num_bytes
        /\ cache_file_offset <= file_offset
        /\ cache_size = Huge => file_offset = cache_file_offset /\ file_offset \in bad
        /\ num_bytes < 2 * BlockSize =>
             file_offset = cache_file_offset /\ Seam(fofs, file_offset)
    BY DEF IInv, Turn
  <1>2. /\ num_bytes \in Nat /\ num_bytes <= 2 * BlockSize
        /\ file_offset \in Nat /\ cache_file_offset \in Nat /\ fofs \in Nat
        /\ cache_size # Huge => cache_size \in Nat /\ cache_size <= Window
        /\ cache_mem \in [0 .. Window - 1 -> Cell]
        /\ buffer \in [0 .. 2 * BlockSize - 1 -> Cell]
    BY Types
  <1>3. /\ buffer' = [b \in 0 .. 2 * BlockSize - 1 |->
                        IF b < n THEN cache_mem[file_offset - cache_file_offset + b]
                                 ELSE buffer[b]]
    BY DEF CopyOut
  <1>4. ASSUME NEW b \in 0 .. 2 * BlockSize - 1, b < n
        PROVE  /\ file_offset - cache_file_offset + b \in 0 .. Window - 1
               /\ buffer'[b] = cache_mem[file_offset - cache_file_offset + b]
               /\ cache_size # Huge => buffer'[b] = file_offset + b
    <2>1. buffer'[b] = cache_mem[file_offset - cache_file_offset + b]
      BY <1>3, <1>4
    <2>2. CASE cache_size = Huge
      BY <1>1, <1>2, <2>1, <2>2, Sizes
    <2>3. CASE cache_size # Huge
      <3>1. file_offset - cache_file_offset + b \in 0 .. cache_size - 1
        BY <1>1, <1>2, <1>4, <2>3, Sizes
      <3>2. cache_mem[file_offset - cache_file_offset + b]
              = cache_file_offset + (file_offset - cache_file_offset + b)
        BY <2>3, <3>1 DEF IInv, CacheRight
      <3>3. cache_file_offset + (file_offset - cache_file_offset + b) = file_offset + b
        BY <1>2, Sizes
      <3>4. file_offset - cache_file_offset + b \in 0 .. Window - 1
        BY <1>2, <2>3, <3>1, Sizes
      <3> QED
        BY <2>1, <3>2, <3>3, <3>4
    <2> QED
      BY <2>2, <2>3
  <1>5. buffer' \in [0 .. 2 * BlockSize - 1 -> Cell]
    <2>1. ASSUME NEW b \in 0 .. 2 * BlockSize - 1
          PROVE  (IF b < n THEN cache_mem[file_offset - cache_file_offset + b]
                           ELSE buffer[b]) \in Cell
      BY <1>2, <1>4
    <2> QED
      BY <1>3, <2>1
  <1>6. ASSUME n = num_bytes
        PROVE  MayShow(buffer', fofs)
    <2>1. CASE num_bytes = 2 * BlockSize /\ cache_size = Huge
      <3>1. file_offset = fofs /\ file_offset \in bad
        BY <1>1, <1>2, <2>1, Sizes
      <3> QED
        BY <3>1 DEF MayShow
    <2>2. CASE num_bytes = 2 * BlockSize /\ cache_size # Huge
      <3>1. file_offset = fofs
        BY <1>1, <1>2, <2>2, Sizes
      <3>2. ASSUME NEW b \in 0 .. 2 * BlockSize - 1
            PROVE  buffer'[b] = fofs + b
        <4>1. b < n
          BY <1>6, <2>2, Sizes
        <4> QED
          BY <1>4, <2>2, <3>1, <4>1
      <3> QED
        BY <3>2 DEF MayShow
    <2>3. CASE num_bytes < 2 * BlockSize
      <3>1. Seam(fofs, file_offset)
        BY <1>1, <2>3
      <3>2. ASSUME bad = {},
                   NEW b \in 0 .. fofs + 2 * BlockSize - file_offset - 1
            PROVE  buffer'[b] = file_offset + b
        <4>1. cache_size # Huge
          BY <1>1, <3>2
        <4>2. b < n /\ b \in 0 .. 2 * BlockSize - 1
          BY <1>1, <1>2, <1>6, <2>3, <3>2, Sizes
        <4> QED
          BY <1>4, <4>1, <4>2
      <3> QED
        BY <3>1, <3>2 DEF MayShow
    <2> QED
      BY <1>2, <2>1, <2>2, <2>3, Sizes
  <1> QED
    BY <1>5, <1>6
-----------------------------------------------------------------------------
LEMMA FirstFillIInv == IInv /\ FirstFill => IInv'
  <1> SUFFICES ASSUME IInv, FirstFill
               PROVE  IInv'
    OBVIOUS
  <1>1. /\ pc' = "get" /\ num_bytes' = 2 * BlockSize /\ file_offset' = fofs
        /\ UNCHANGED <<bad, fofs, buffer, scanned>> /\ FillCache(fofs)
    BY DEF FirstFill
  <1>2. fofs \in Nat /\ fofs >= Offset /\ buffer \in [0 .. 2 * BlockSize - 1 -> Cell]
    BY Types
  <1>3. /\ cache_size' \in 0 .. Window \cup {Huge} /\ cache_file_offset' \in Nat
        /\ cache_mem' \in [0 .. Window - 1 -> Cell]
        /\ fills' = fills \cup {fofs} /\ CacheRight'
    BY <1>1, <1>2, Filled
  <1>4. num_bytes' \in 0 .. 2 * BlockSize
    BY <1>1, Sizes
  <1>5. TypeOK'
    BY <1>1, <1>2, <1>3, <1>4 DEF TypeOK
  <1>6. Turn'
    BY <1>1, <1>2, Sizes DEF Turn
  <1>7. Scanned'
    BY <1>1, <1>3, ScannedStays
  <1> QED
    BY <1>1, <1>3, <1>5, <1>6, <1>7 DEF IInv

LEMMA RefillIInv == IInv /\ Refill => IInv'
  <1> SUFFICES ASSUME IInv, Refill
               PROVE  IInv'
    OBVIOUS
  <1>1. /\ pc = "get" /\ FillCache(file_offset)
        /\ pc' = IF PReadResult(file_offset) = 0 THEN "done" ELSE "copy"
        /\ UNCHANGED <<bad, fofs, num_bytes, file_offset, buffer, scanned>>
    BY DEF Refill
  <1>2. /\ fofs \in Nat /\ fofs >= Offset /\ buffer \in [0 .. 2 * BlockSize - 1 -> Cell]
        /\ num_bytes \in Nat /\ num_bytes <= 2 * BlockSize /\ file_offset \in Nat
    BY Types
  <1>3. /\ cache_size' = PReadResult(file_offset)
        /\ cache_size' \in 0 .. Window \cup {Huge} /\ cache_file_offset' \in Nat
        /\ cache_size' = Huge => file_offset \in bad
        /\ cache_size' # 0 => cache_file_offset' = file_offset
        /\ cache_mem' \in [0 .. Window - 1 -> Cell]
        /\ fills' = fills \cup {file_offset} /\ CacheRight'
    BY <1>1, <1>2, Filled
  <1>4. num_bytes' \in 0 .. 2 * BlockSize
    BY <1>1, <1>2, Sizes
  <1>5. TypeOK'
    BY <1>1, <1>2, <1>3, <1>4 DEF TypeOK
  <1>6. num_bytes > 0 /\ file_offset = fofs + 2 * BlockSize - num_bytes
    BY <1>1 DEF IInv, Turn
  <1>7. CASE cache_size' = 0
    <2>1. Turn' /\ pc' = "done"
      BY <1>1, <1>3, <1>7 DEF Turn
    <2>2. Scanned'
      BY <1>1, <1>3, <2>1, ScannedStays
    <2> QED
      BY <1>1, <1>3, <1>5, <2>1, <2>2 DEF IInv
  <1>8. CASE cache_size' # 0
    <2>1. pc' = "copy" /\ cache_file_offset' = file_offset
      BY <1>1, <1>3, <1>8
    <2>2. cache_size' # Huge => file_offset < file_offset + cache_size'
      BY <1>2, <1>3, <1>8, Sizes
    <2>3. num_bytes < 2 * BlockSize => Seam(fofs, file_offset)'
      BY <1>1, <1>2, <1>3, <1>6, Sizes DEF Seam
    <2>4. file_offset <= file_offset
      BY <1>2
    <2>5. Turn'
      BY <1>1, <1>3, <1>6, <2>1, <2>2, <2>3, <2>4 DEF Turn
    <2>6. Scanned'
      BY <1>1, <1>3, <2>1, ScannedStays
    <2> QED
      BY <1>1, <1>3, <1>5, <2>5, <2>6 DEF IInv
  <1> QED
    BY <1>7, <1>8

(* A hit is of the first turn: behind a seam the cell is missing.          *)
LEMMA HitIInv == IInv /\ Hit => IInv'
  <1> SUFFICES ASSUME IInv, Hit
               PROVE  IInv'
    OBVIOUS
  <1>1. /\ pc = "get" /\ pc' = "copy" /\ ~Missing(file_offset)
        /\ UNCHANGED <<bad, fofs, num_bytes, file_offset, cache_file_offset,
                       cache_size, cache_mem, fills, buffer, scanned>>
    BY DEF Hit, cache
  <1>2. /\ fofs \in Nat /\ num_bytes \in Nat /\ num_bytes <= 2 * BlockSize
        /\ file_offset \in Nat /\ cache_file_offset \in Nat
        /\ cache_size \in Int
    BY Types
  <1>3. /\ num_bytes > 0 /\ file_offset = fofs + 2 * BlockSize - num_bytes
        /\ ~(num_bytes < 2 * BlockSize)
    BY <1>1 DEF IInv, Turn
  <1>4. cache_file_offset <= file_offset /\ file_offset < cache_file_offset + cache_size
    BY <1>1, <1>2 DEF Missing, CacheEnd
  <1>5. cache_size # Huge
    BY <1>2, <1>4 DEF Huge
  <1>6. Turn'
    BY <1>1, <1>3, <1>4, <1>5 DEF Turn
  <1>7. TypeOK' /\ CacheRight'
    BY <1>1 DEF IInv, TypeOK, CacheRight
  <1>8. Scanned'
    BY <1>1, ScannedStays
  <1> QED
    BY <1>1, <1>6, <1>7, <1>8 DEF IInv

LEMMA CopyAllIInv == IInv /\ CopyAll => IInv'
  <1> SUFFICES ASSUME IInv, CopyAll
               PROVE  IInv'
    OBVIOUS
  <1>1. /\ pc = "copy" /\ pc' = "scan" /\ Covers(file_offset, num_bytes)
        /\ CopyOut(file_offset, num_bytes)
        /\ UNCHANGED <<bad, fofs, num_bytes, file_offset, cache_file_offset,
                       cache_size, cache_mem, fills, scanned>>
    BY DEF CopyAll, cache
  <1>2. /\ num_bytes \in Nat /\ num_bytes <= num_bytes
        /\ file_offset \in Nat /\ cache_file_offset \in Nat
        /\ cache_size \in Int
    BY Types
  <1>3. cache_size # Huge => file_offset - cache_file_offset + num_bytes <= cache_size
    BY <1>1, <1>2 DEF Covers
  <1>4. buffer' \in [0 .. 2 * BlockSize - 1 -> Cell] /\ MayShow(buffer', fofs)
    BY <1>1, <1>2, <1>3, Copied
  <1>5. TypeOK' /\ CacheRight' /\ Turn'
    BY <1>1, <1>4 DEF IInv, TypeOK, CacheRight, Turn
  <1>6. MayShow(buffer, fofs)'
    BY <1>1, <1>4 DEF MayShow, Seam
  <1>7. Scanned'
    BY <1>1, <1>6, ScannedStays
  <1> QED
    BY <1>1, <1>5, <1>7 DEF IInv

LEMMA CopyPartIInv == IInv /\ CopyPart => IInv'
  <1> SUFFICES ASSUME IInv, CopyPart
               PROVE  IInv'
    OBVIOUS
  <1> DEFINE left == cache_size - (file_offset - cache_file_offset)
  <1>1. /\ pc = "copy" /\ ~Covers(file_offset, num_bytes)
        /\ CopyOut(file_offset, left)
        /\ num_bytes' = num_bytes - left
        /\ file_offset' = file_offset + left
        /\ pc' = IF num_bytes' <= 0 THEN "scan" ELSE "get"
        /\ UNCHANGED <<bad, fofs, cache_file_offset, cache_size, cache_mem, fills, scanned>>
    BY DEF CopyPart, cache
  <1>2. /\ num_bytes \in Nat /\ num_bytes <= 2 * BlockSize /\ fofs \in Nat
        /\ file_offset \in Nat /\ cache_file_offset \in Nat
        /\ cache_size \in Int
    BY Types
  <1>3. cache_size # Huge
    BY <1>1 DEF Covers
  <1>4. /\ num_bytes > 0 /\ file_offset = fofs + 2 * BlockSize - num_bytes
        /\ cache_file_offset <= file_offset
        /\ file_offset < cache_file_offset + cache_size
    BY <1>1, <1>3 DEF IInv, Turn
  <1>5. /\ left \in Nat /\ left > 0 /\ left <= num_bytes
    BY <1>1, <1>2, <1>3, <1>4 DEF Covers
  <1>6. file_offset - cache_file_offset + left <= cache_size
    BY <1>2
  <1>7. file_offset + left = cache_file_offset + cache_size
    BY <1>2
  <1> HIDE DEF left
  <1>8. /\ buffer' \in [0 .. 2 * BlockSize - 1 -> Cell]
        /\ left = num_bytes => MayShow(buffer', fofs)
    BY <1>1, <1>5, <1>6, Copied
  <1>9. num_bytes' \in 0 .. 2 * BlockSize /\ file_offset' \in Nat
    BY <1>1, <1>2, <1>5, Sizes
  <1>10. pc' \in {"get", "scan"}
    BY <1>1
  <1>11. TypeOK' /\ CacheRight'
    BY <1>1, <1>8, <1>9, <1>10 DEF IInv, TypeOK, CacheRight
  <1>12. Turn'
    <2>1. pc' = "get" => num_bytes' > 0
      BY <1>1, <1>9, Sizes
    <2>2. file_offset' = fofs' + 2 * BlockSize - num_bytes'
      BY <1>1, <1>2, <1>4, <1>5, Sizes
    <2>3. Missing(file_offset)'
      BY <1>1, <1>2, <1>7 DEF Missing, CacheEnd
    <2>4. pc' # "copy"
      BY <1>10
    <2> QED
      BY <2>1, <2>2, <2>3, <2>4 DEF Turn
  <1>13. ASSUME pc' = "scan"
         PROVE  MayShow(buffer, fofs)'
    <2>1. num_bytes - left <= 0
      BY <1>1, <1>13
    <2>2. left = num_bytes
      BY <1>2, <1>5, <2>1
    <2> QED
      BY <1>1, <1>8, <2>2 DEF MayShow, Seam
  <1>14. Scanned'
    BY <1>1, <1>13, ScannedStays
  <1> QED
    BY <1>1, <1>11, <1>12, <1>14 DEF IInv

LEMMA ScanIInv == IInv /\ Scan => IInv'
  <1> SUFFICES ASSUME IInv, Scan
               PROVE  IInv'
    OBVIOUS
  <1>1. /\ pc = "scan" /\ pc' = "get" /\ scanned' = Append(scanned, buffer)
        /\ fofs' = fofs + BlockSize /\ num_bytes' = 2 * BlockSize
        /\ file_offset' = fofs'
        /\ UNCHANGED <<bad, cache_file_offset, cache_size, cache_mem, fills, buffer>>
    BY DEF Scan, cache
  <1>2. /\ fofs \in Nat /\ fofs >= Offset
        /\ buffer \in [0 .. 2 * BlockSize - 1 -> Cell]
        /\ Len(scanned) \in Nat /\ DOMAIN scanned = 1 .. Len(scanned)
    BY Types
  <1>3. fofs' \in Nat /\ fofs' >= Offset /\ num_bytes' \in 0 .. 2 * BlockSize
    BY <1>1, <1>2, Sizes
  <1>4. TypeOK' /\ CacheRight'
    BY <1>1, <1>3 DEF IInv, TypeOK, CacheRight
  <1>5. Turn'
    BY <1>1, <1>3, Sizes DEF Turn
  <1>6. /\ scanned \in Seq([0 .. 2 * BlockSize - 1 -> Cell])
        /\ fofs = Offset + Len(scanned) * BlockSize
        /\ MayShow(buffer, fofs)
        /\ \A n \in DOMAIN scanned : MayShow(scanned[n], BlockStart(n))
    BY <1>1 DEF IInv, Scanned
  <1>7. /\ scanned' \in Seq([0 .. 2 * BlockSize - 1 -> Cell])
        /\ Len(scanned') = Len(scanned) + 1
        /\ DOMAIN scanned' = 1 .. Len(scanned) + 1
        /\ \A n \in 1 .. Len(scanned) : scanned'[n] = scanned[n]
        /\ scanned'[Len(scanned) + 1] = buffer
    BY <1>1, <1>2, <1>6
  <1>8. BlockStart(Len(scanned) + 1) = fofs
    <2>1. (Len(scanned) + 1) - 1 = Len(scanned)
      BY <1>2
    <2> QED
      BY <1>6, <2>1 DEF BlockStart
  <1>9. fofs' = Offset + Len(scanned') * BlockSize
    <2>1. (Len(scanned) + 1) * BlockSize = Len(scanned) * BlockSize + BlockSize
      BY <1>2, Sizes
    <2>2. Len(scanned) * BlockSize \in Nat
      BY <1>2, Sizes
    <2> QED
      BY <1>1, <1>6, <1>7, <2>1, <2>2, Sizes
  <1>10. ASSUME NEW n \in 1 .. Len(scanned) + 1
         PROVE  MayShow(scanned[n], BlockStart(n))'
    <2>1. CASE n = Len(scanned) + 1
      <3>1. MayShow(scanned'[n], BlockStart(n))
        BY <1>6, <1>7, <1>8, <2>1
      <3> QED
        BY <1>1, <3>1 DEF MayShow, Seam, BlockStart
    <2>2. CASE n # Len(scanned) + 1
      <3>1. n \in 1 .. Len(scanned)
        BY <1>2, <2>2
      <3>2. MayShow(scanned'[n], BlockStart(n))
        BY <1>2, <1>6, <1>7, <3>1
      <3> QED
        BY <1>1, <3>2 DEF MayShow, Seam, BlockStart
    <2> QED
      BY <2>1, <2>2
  <1>11. Scanned'
    BY <1>1, <1>7, <1>9, <1>10 DEF Scanned
  <1> QED
    BY <1>1, <1>4, <1>5, <1>11 DEF IInv
-----------------------------------------------------------------------------
LEMMA NextIInv == IInv /\ [Next]_vars => IInv'
  <1> SUFFICES ASSUME IInv, [Next]_vars
               PROVE  IInv'
    OBVIOUS
  <1>1. CASE UNCHANGED vars
    BY <1>1 DEF IInv, TypeOK, CacheRight, Turn, Scanned, MayShow, Seam, BlockStart,
                Missing, CacheEnd, vars
  <1> QED
    BY <1>1, FirstFillIInv, RefillIInv, HitIInv, CopyAllIInv, CopyPartIInv,
       ScanIInv DEF Next

LEMMA Invariance == Spec => []IInv
  BY InitIInv, NextIInv, PTL DEF Spec

(* The offsets and sizes of FillCache and GetCacheBuffer stay in their     *)
(* ranges, and every cell read of cache_mem is inside of it: nothing is    *)
(* copied from behind it, also after a failed pread64, as long as the      *)
(* first cell of the device can be read (FirstCellAssumption).             *)
THEOREM TypeCorrect == Spec => []TypeOK
  <1>1. IInv => TypeOK
    BY DEF IInv
  <1> QED
    BY <1>1, Invariance, PTL

(* FindFiles gives ScanBuffer the two blocks it means to give, except when *)
(* GetCacheBuffer refilled the cache inside of them or they begin with an  *)
(* unreadable cell; and on a readable device a refill shows in one way:    *)
(* the buffer begins with what lies behind the seam.                       *)
THEOREM SeamsOnly == Spec => []OnlySeamsWrong
  <1>1. IInv => OnlySeamsWrong
    <2> SUFFICES ASSUME IInv
                 PROVE  OnlySeamsWrong
      OBVIOUS
    <2>1. ASSUME NEW n \in DOMAIN scanned
          PROVE  MayShow(scanned[n], BlockStart(n))
      BY DEF IInv, Scanned
    <2>2. FaithfulInsideWindow
      BY <2>1 DEF FaithfulInsideWindow, Faithful, MayShow, Seam
    <2>3. SeamShowsNextWindow
      BY <2>1 DEF SeamShowsNextWindow, Faithful, MayShow, Seam
    <2> QED
      BY <2>2, <2>3 DEF OnlySeamsWrong
  <1> QED
    BY <1>1, Invariance, PTL

-----------------------------------------------------------------------------
(***************************************************************************)
(* DeviceSearch.                                                           *)
(***************************************************************************)
LEMMA DivMod ==
  ASSUME NEW s \in Nat \ {0}, NEW x \in Int
  PROVE  /\ x \div s \in Int /\ x % s \in 0 .. s - 1
         /\ x = s * (x \div s) + (x % s)
OBVIOUS

LEMMA ModUnique ==
  ASSUME NEW s \in Nat \ {0}, NEW x \in Int, NEW q \in Int, NEW r \in 0 .. s - 1, x = s * q + r
  PROVE  x \div s = q /\ x % s = r
<1> DEFINE p == x \div s  y == x % s
<1>1. p \in Int /\ y \in 0 .. s - 1 /\ x = s * p + y
  BY DivMod
<1> HIDE DEF p, y
<1>2. s * (p - q) = r - y
  BY <1>1
<1>3. p - q < 1 /\ p - q > -1
  BY <1>1, <1>2
<1>4. p = q
  BY <1>1, <1>3
<1> QED
  BY <1>1, <1>2, <1>4 DEF p, y

(* From a multiple of s on, up to the next one.                            *)
LEMMA ModShift ==
  ASSUME NEW s \in Nat \ {0}, NEW x \in Int, x % s = 0, NEW r \in 0 .. s - 1
  PROVE  (x + r) % s = r /\ ((x + r) \div s) * s = x
<1> DEFINE q == x \div s
<1>1. q \in Int /\ x = s * q
  BY DivMod
<1> HIDE DEF q
<1>2. x + r = s * q + r /\ x + r \in Int
  BY <1>1
<1>3. (x + r) \div s = q /\ (x + r) % s = r
  BY <1>1, <1>2, ModUnique
<1>4. q * s = s * q
  BY <1>1
<1> QED
  BY <1>1, <1>3, <1>4

LEMMA ModStep ==
  ASSUME NEW s \in Nat \ {0}, NEW x \in Int, x % s = 0
  PROVE  (x + s) % s = 0 /\ (x - s) % s = 0
<1> DEFINE q == x \div s
<1>1. q \in Int /\ x = s * q
  BY DivMod
<1> HIDE DEF q
<1> DEFINE y == x + s  z == x - s
<1>2. y = s * (q + 1) + 0 /\ z = s * (q - 1) + 0
  BY <1>1
<1>3. y \in Int /\ z \in Int /\ q + 1 \in Int /\ q - 1 \in Int /\ 0 \in 0 .. s - 1
  BY <1>1
<1> HIDE DEF y, z
<1>4. y % s = 0
  <2> DEFINE u == q + 1
  <2>1. u \in Int /\ y = s * u + 0
    BY <1>2, <1>3
  <2> HIDE DEF u
  <2> QED
    BY <1>3, <2>1, ModUnique
<1>5. z % s = 0
  <2> DEFINE u == q - 1
  <2>1. u \in Int /\ z = s * u + 0
    BY <1>2, <1>3
  <2> HIDE DEF u
  <2> QED
    BY <1>3, <2>1, ModUnique
<1> QED
  BY <1>4, <1>5 DEF y, z

LEMMA WrapOnce ==
  ASSUME NEW m \in Nat \ {0}, NEW x \in Int
  PROVE  /\ x % m \in 0 .. m - 1
         /\ x \in 0 .. m - 1 => x % m = x
         /\ x \in m .. 2 * m - 1 => x % m = x - m
         /\ x \in -m .. -1 => x % m = x + m
<1>1. x % m \in 0 .. m - 1
  BY DivMod
<1>2. ASSUME x \in 0 .. m - 1 PROVE x % m = x
  <2>1. x = m * 0 + x
    OBVIOUS
  <2> QED
    BY <1>2, <2>1, ModUnique
<1>3. ASSUME x \in m .. 2 * m - 1 PROVE x % m = x - m
  <2>1. x = m * 1 + (x - m) /\ x - m \in 0 .. m - 1
    BY <1>3
  <2> QED
    BY <2>1, ModUnique
<1>4. ASSUME x \in -m .. -1 PROVE x % m = x + m
  <2>1. x = m * (-1) + (x + m) /\ x + m \in 0 .. m - 1 /\ -1 \in Int
    BY <1>4
  <2> QED
    BY <2>1, ModUnique
<1> QED
  BY <1>1, <1>2, <1>3, <1>4

-----------------------------------------------------------------------------
(***************************************************************************)
(* The inductive invariant of the searches.                                *)
(***************************************************************************)
Given ==
  /\ command \in [search : Searches, first : BOOLEAN, force : BOOLEAN]
  /\ offset \in Offsets
  /\ device \in Devices[Search]

Backward == Search = "find-avh"

End == Len(device) - offset

(* The buffers of a search begin here.                                     *)
Grid(f) == IF Backward THEN (End - f) % Step = 0 ELSE (f - offset) % Step = 0

(* The buffer lies in the device at one of the places the search reads.    *)
Real ==
  /\ fpos \in Nat /\ Grid(fpos)
  /\ IF Backward THEN fpos + Step <= End ELSE offset <= fpos /\ fpos < Len(device) + Step

(* Going backwards, fpos has gone through 0.                               *)
Wrapped ==
  /\ Backward
  /\ fpos \in Len(device) .. Modulus - 1
  /\ fpos + Step <= Modulus \/ Grid(fpos - Modulus)

Addressed == search_pc # "done" => Real \/ Wrapped

(* The search is through with a place of the device.                       *)
Passed(p) ==
  \/ Wrapped
  \/ Backward /\ fpos + Step <= p
  \/ ~Backward /\ p < fpos
  \/ search_pc = "scan" /\ fpos <= p /\ p < fpos + ofs

(* No more places are looked at than there are, and once fpos has gone     *)
(* through 0 only as long as its highest bit is set.                       *)
Scans == search_pc = "scan" => ofs <= Places /\ (Wrapped => 2 * fpos >= Modulus)

(* What is left to look at in a buffer is what the device holds.           *)
BufferRight ==
  search_pc = "scan" /\ Real =>
    /\ ~Backward => fpos < Len(device)
    /\ \A i \in ofs .. ReadSize - 1 :
         (\A a \in fpos .. fpos + i : ReadableCell(a)) => search_buffer[i] = device[fpos + i + 1]

LogPassed == search_pc # "done" /\ Real => \A k \in DOMAIN log : Passed(log[k].at)

HitsPassed == search_pc # "done" => \A p \in Hits : Passed(p) => p \in Reported

NotStopped == search_pc # "done" /\ Stop => log = <<>>

InOrder == ~Backward => \A k, l \in DOMAIN log : k < l => log[k].at < log[l].at

SearchInv ==
  /\ SearchTypeOK
  /\ Given
  /\ log \in Seq([at : 0 .. Modulus - 1, garbled : BOOLEAN])
  /\ Addressed
  /\ Scans
  /\ BufferRight
  /\ LogPassed
  /\ HitsPassed
  /\ NotStopped
  /\ InOrder
  /\ ReportsRight
  /\ HitsReported

-----------------------------------------------------------------------------
(* What the sizes of a search are.                                         *)
LEMMA SearchSizes ==
  ASSUME Given
  PROVE  /\ Search \in Searches
         /\ offset \in Nat /\ Len(device) \in Nat /\ offset <= Len(device)
         /\ device \in Seq(Cells)
         /\ Step \in Nat \ {0} /\ ReadSize \in Nat \ {0} /\ Width \in Nat \ {0}
         /\ Places \in Nat
         /\ Places + Width - 1 <= ReadSize /\ Places <= Step
         /\ Modulus \in Nat \ {0} /\ 2 * (Len(device) + Step) < Modulus
         /\ Backward => Places = Step /\ ReadSize = Step /\ Width = 1
<1>1. Search \in Searches
  BY DEF Given, Search
<1>2. /\ Needle \in Seq(Cells) /\ Needle # <<>>
      /\ EofBlockSize \in Nat \ {0} /\ BufferSize \in Nat /\ BufferSize >= Len(Needle)
      /\ Modulus \in Nat
  BY SearchAssumption
<1>3. Len(Needle) \in Nat \ {0}
  BY <1>2
<1>4. /\ device \in Seq(Cells) /\ offset \in Nat /\ offset <= Len(device)
      /\ 2 * (Len(device) + BufferSize) < Modulus /\ 2 * (Len(device) + EofBlockSize) < Modulus
  BY <1>1, SearchAssumption DEF Given
<1>5. Len(device) \in Nat
  BY <1>4
<1>6. Width = IF Search \in Headers THEN 1 ELSE Len(Needle)
  BY DEF Width
<1>7. Step = IF Search = "find-eof" THEN EofBlockSize ELSE BufferSize
  BY DEF Step
<1>8. ReadSize = IF Search = "find-eof" THEN Len(Needle) ELSE BufferSize
  BY DEF ReadSize
<1>9. Places = IF Search = "find" THEN BufferSize - Len(Needle) ELSE ReadSize - Width + 1
  BY DEF Places
<1>10. /\ Search = "find-eof" => Search \notin Headers /\ Search # "find"
       /\ Search = "find" => Search \notin Headers /\ Search # "find-eof"
       /\ Backward => Search \in Headers /\ Search # "find" /\ Search # "find-eof"
       /\ Search \notin {"find", "find-eof"} => Search \in Headers
  BY <1>1 DEF Searches, Headers, Backward
<1>11. BufferSize >= 1
  BY <1>2, <1>3
<1>12. CASE Search = "find-eof"
  BY <1>1, <1>2, <1>3, <1>4, <1>5, <1>6, <1>7, <1>8, <1>9, <1>10, <1>11, <1>12
<1>13. CASE Search = "find"
  BY <1>1, <1>2, <1>3, <1>4, <1>5, <1>6, <1>7, <1>8, <1>9, <1>10, <1>11, <1>13
<1>14. CASE Search \notin {"find", "find-eof"}
  BY <1>1, <1>2, <1>3, <1>4, <1>5, <1>6, <1>7, <1>8, <1>9, <1>10, <1>11, <1>14
<1> QED
  BY <1>12, <1>13, <1>14

(* A place belongs to the buffer that begins on the grid below it.         *)
LEMMA BeginAt ==
  ASSUME Given, NEW f \in Int, Grid(f), NEW p \in f .. f + Step - 1
  PROVE  Begin(p) = f
<1> DEFINE s == Step
<1>1. s \in Nat \ {0} /\ offset \in Nat /\ Len(device) \in Nat
  BY SearchSizes
<1>2. CASE Backward
  <2> DEFINE e == End  x == e - f - s  r == f + s - 1 - p
  <2>1. e \in Int /\ e - f \in Int /\ (e - f) % s = 0
    BY <1>1, <1>2 DEF Grid, End
  <2>2. Begin(p) = e - ((e - 1 - p) \div s + 1) * s
    BY <1>2 DEF Begin, Backward, End
  <2> HIDE DEF s, e
  <2>3. x \in Int /\ x % s = 0
    <3> DEFINE y == e - f
    <3>1. y \in Int /\ y % s = 0 /\ x = y - s /\ x \in Int
      BY <1>1, <2>1
    <3> HIDE DEF y, x
    <3> QED
      BY <1>1, <3>1, ModStep
  <2>4. r \in 0 .. s - 1 /\ e - 1 - p = x + r
    BY <1>1, <2>1 DEF s
  <2>5. ((x + r) \div s) * s = x /\ (x + r) \div s \in Int
    <3> HIDE DEF x, r
    <3>1. x + r \in Int
      BY <1>1, <2>3, <2>4
    <3>2. ((x + r) \div s) * s = x
      BY <1>1, <2>3, <2>4, ModShift
    <3> QED
      BY <1>1, <3>1, <3>2, DivMod
  <2> DEFINE d == (x + r) \div s
  <2>6. Begin(p) = e - (d + 1) * s
    BY <2>2, <2>4
  <2>7. d * s = x /\ d \in Int
    BY <2>5
  <2> HIDE DEF d
  <2>8. (d + 1) * s = x + s
    BY <1>1, <2>7
  <2> QED
    BY <1>1, <2>1, <2>6, <2>8
<1>3. CASE ~Backward
  <2>1. (f - offset) % s = 0 /\ f - offset \in Int
    BY <1>1, <1>3 DEF Grid
  <2>2. Begin(p) = p - ((p - offset) % s)
    BY <1>3 DEF Begin, Backward
  <2>3. p - f \in 0 .. s - 1 /\ p - offset = (f - offset) + (p - f)
    BY <1>1
  <2> HIDE DEF s
  <2>4. (p - offset) % s = p - f
    <3> DEFINE x == f - offset  r == p - f
    <3>1. x \in Int /\ x % s = 0 /\ r \in 0 .. s - 1 /\ p - offset = x + r
      BY <2>1, <2>3
    <3> HIDE DEF x, r
    <3>2. (x + r) % s = r
      BY <1>1, <3>1, ModShift
    <3> QED
      BY <3>1, <3>2 DEF r
  <2> QED
    BY <2>2, <2>4
<1> QED
  BY <1>2, <1>3

(* A read is 0 behind the end of the device only, and otherwise reaches    *)
(* over everything that can be read.                                       *)
LEMMA PReadOf ==
  ASSUME Given, NEW at \in Nat
  PROVE  /\ PReadCells(at) \in Int
         /\ PReadCells(at) = 0 <=> 2 * at < Modulus /\ at >= Len(device)
         /\ PReadCells(at) # 0 =>
              \A i \in 0 .. ReadSize - 1 :
                (\A a \in at .. at + i : ReadableCell(a)) => i < PReadCells(at)
<1> DEFINE Ok(n) == /\ \A a \in at .. at + n - 1 : ReadableCell(a)
                    /\ n < ReadSize => ~ReadableCell(at + n)
<1>1. ReadSize \in Nat \ {0} /\ Len(device) \in Nat /\ ReadFailed = -1
  BY SearchSizes DEF ReadFailed
<1>2. CASE 2 * at < Modulus /\ at >= Len(device)
  <2>1. PReadCells(at) = 0
    BY <1>2 DEF PReadCells
  <2> QED
    BY <1>2, <2>1
<1>3. CASE ~(2 * at < Modulus /\ at >= Len(device)) /\ ~ReadableCell(at)
  <2>1. PReadCells(at) = -1
    BY <1>1, <1>3 DEF PReadCells
  <2>2. \A i \in 0 .. ReadSize - 1 : ~\A a \in at .. at + i : ReadableCell(a)
    BY <1>1, <1>3
  <2> QED
    BY <1>3, <2>1, <2>2
<1>4. CASE ~(2 * at < Modulus /\ at >= Len(device)) /\ ReadableCell(at)
  <2>1. PReadCells(at) = CHOOSE n \in 1 .. ReadSize : Ok(n)
    BY <1>4 DEF PReadCells
  <2>2. \E n \in 1 .. ReadSize : Ok(n)
    <3> DEFINE Bad == { n \in 1 .. ReadSize - 1 : ~ReadableCell(at + n) }
    <3>1. CASE Bad = {}
      <4>1. \A a \in at .. at + ReadSize - 1 : ReadableCell(a)
        <5>1. ASSUME NEW a \in at .. at + ReadSize - 1, a # at PROVE ReadableCell(a)
          <6>1. a - at \in 1 .. ReadSize - 1 /\ at + (a - at) = a
            BY <1>1, <5>1
          <6> QED
            BY <3>1, <6>1
        <5> QED
          BY <1>4, <5>1
      <4>2. Ok(ReadSize) /\ ReadSize \in 1 .. ReadSize
        BY <1>1, <4>1
      <4> QED
        BY <4>2
    <3>2. CASE Bad # {}
      <4>1. PICK m \in Bad : \A n \in Bad : m <= n
        <5>1. Bad \subseteq Nat
          BY <1>1
        <5> HIDE DEF Bad
        <5> QED
          BY <3>2, <5>1, SmallestOf
      <4>2. \A a \in at .. at + m - 1 : ReadableCell(a)
        <5>1. ASSUME NEW a \in at .. at + m - 1, a # at PROVE ReadableCell(a)
          <6>1. a - at \in 1 .. ReadSize - 1 /\ at + (a - at) = a /\ a - at < m
            BY <1>1, <5>1
          <6>2. a - at \notin Bad
            BY <4>1, <6>1
          <6> QED
            BY <6>1, <6>2
        <5> QED
          BY <1>4, <5>1
      <4>3. Ok(m) /\ m \in 1 .. ReadSize
        BY <1>1, <4>2
      <4> QED
        BY <4>3
    <3> QED
      BY <3>1, <3>2
  <2> DEFINE n == PReadCells(at)
  <2>3. n \in 1 .. ReadSize /\ Ok(n)
    BY <2>1, <2>2
  <2> HIDE DEF n
  <2>4. ASSUME NEW i \in 0 .. ReadSize - 1, \A a \in at .. at + i : ReadableCell(a)
        PROVE  i < n
    BY <1>1, <2>3, <2>4
  <2>5. n \in Int /\ n # 0
    BY <1>1, <2>3
  <2> QED
    BY <1>4, <2>4, <2>5 DEF n
<1> QED
  BY <1>2, <1>3, <1>4

-----------------------------------------------------------------------------
(* What depends on the input alone does not change.                        *)
LEMMA SameInput ==
  ASSUME UNCHANGED input
  PROVE  /\ Search' = Search /\ command' = command /\ offset' = offset
         /\ device' = device /\ bad_cells' = bad_cells
         /\ Step' = Step /\ ReadSize' = ReadSize /\ Width' = Width
         /\ Places' = Places
         /\ Backward' = Backward /\ End' = End /\ Stop' = Stop /\ Shown' = Shown
         /\ Given' = Given
         /\ Hits' = Hits
<1>1. command' = command /\ offset' = offset /\ device' = device /\ bad_cells' = bad_cells
  BY DEF input
<1>2. Search' = Search
  BY <1>1 DEF Search
<1>3. Step' = Step /\ ReadSize' = ReadSize /\ Width' = Width
  BY <1>2 DEF Step, ReadSize, Width
<1>4. Places' = Places /\ Backward' = Backward /\ End' = End /\ Shown' = Shown
  BY <1>1, <1>2, <1>3 DEF Places, Backward, End, Shown
<1>5. Stop' = Stop
  BY <1>1, <1>2 DEF Stop
<1>6. Given' = Given
  BY <1>1, <1>2 DEF Given
<1>7. Hits' = Hits
  BY <1>1, <1>2, <1>3, <1>4 DEF Hits, Seen, HitAt, IsHit, ReadableCell, Begin
<1> QED
  BY <1>1, <1>2, <1>3, <1>4, <1>5, <1>6, <1>7

LEMMA SamePlace ==
  ASSUME UNCHANGED input, NEW p
  PROVE  /\ Begin(p)' = Begin(p)
         /\ ReadableCell(p)' = ReadableCell(p)
         /\ Seen(p)' = Seen(p)
         /\ HitAt(p)' = HitAt(p)
         /\ Grid(p)' = Grid(p)
<1>1. /\ Search' = Search /\ command' = command /\ offset' = offset
      /\ device' = device /\ bad_cells' = bad_cells /\ Shown' = Shown
      /\ Step' = Step /\ Width' = Width /\ Backward' = Backward /\ End' = End
  BY SameInput
<1>2. Begin(p)' = Begin(p)
  BY <1>1 DEF Begin
<1>3. \A q : ReadableCell(q)' = ReadableCell(q)
  BY <1>1 DEF ReadableCell
<1>4. Seen(p)' = Seen(p)
  BY <1>1, <1>2, <1>3 DEF Seen
<1>5. HitAt(p)' = HitAt(p)
  BY <1>1 DEF HitAt, IsHit
<1>6. Grid(p)' = Grid(p)
  BY <1>1 DEF Grid
<1> QED
  BY <1>2, <1>3, <1>4, <1>5, <1>6

(* A place of the buffer that is in the device and can be read holds what  *)
(* the device holds.                                                       *)
LEMMA LooksAtDevice ==
  ASSUME SearchInv, search_pc = "scan", ofs < Places, Real, Seen(fpos + ofs)
  PROVE  /\ IsHit(At(ofs)) <=> HitAt(fpos + ofs)
         /\ At(ofs)[1] = device[fpos + ofs + 1]
         /\ fpos + ofs \in 0 .. Len(device) - 1
<1>1. Given /\ ofs \in Nat /\ fpos \in Nat /\ Grid(fpos)
  <2>1. ofs \in 0 .. ReadSize /\ Given
    BY DEF SearchInv, SearchTypeOK
  <2>2. ReadSize \in Nat
    BY <2>1, SearchSizes
  <2> QED
    BY <2>1, <2>2 DEF Real
<1>2. /\ Step \in Nat /\ Width \in Nat \ {0} /\ ReadSize \in Nat /\ Places \in Nat
      /\ Places + Width - 1 <= ReadSize /\ Places <= Step
      /\ offset \in Nat /\ Len(device) \in Nat
  BY <1>1, SearchSizes
<1>3. Begin(fpos + ofs) = fpos
  <2>1. fpos + ofs \in fpos .. fpos + Step - 1
    BY <1>1, <1>2
  <2> QED
    BY <1>1, <2>1, BeginAt
<1>4. \A a \in fpos .. fpos + ofs + Width - 1 : ReadableCell(a)
  BY <1>3 DEF Seen
<1>5. ASSUME NEW k \in 1 .. Width
      PROVE  search_buffer[ofs + k - 1] = device[fpos + ofs + k]
  <2>1. ofs + k - 1 \in ofs .. ReadSize - 1
    BY <1>1, <1>2
  <2>2. \A a \in fpos .. fpos + (ofs + k - 1) : ReadableCell(a)
    BY <1>1, <1>2, <1>4
  <2>3. search_buffer[ofs + k - 1] = device[fpos + (ofs + k - 1) + 1]
    BY <2>1, <2>2 DEF SearchInv, BufferRight
  <2>4. fpos + (ofs + k - 1) + 1 = fpos + ofs + k
    BY <1>1
  <2> QED
    BY <2>3, <2>4
<1>6. At(ofs) = [k \in 1 .. Width |-> device[fpos + ofs + k]]
  BY <1>5 DEF At
<1>7. IsHit(At(ofs)) <=> HitAt(fpos + ofs)
  BY <1>6 DEF HitAt
<1>8. 1 \in 1 .. Width
  BY <1>2
<1>9. At(ofs)[1] = device[fpos + ofs + 1]
  BY <1>6, <1>8
<1>10. fpos + ofs \in 0 .. Len(device) - 1
  <2>1. PICK p \in Nat : p = fpos + ofs
    BY <1>1
  <2>2. p \in IF Search = "find-avh" THEN 0 .. Len(device) - offset - 1
                                        ELSE offset .. Len(device) - 1
    BY <2>1 DEF Seen
  <2>3. p < Len(device)
    BY <1>2, <2>1, <2>2
  <2> QED
    BY <1>2, <2>1, <2>3
<1> QED
  BY <1>7, <1>9, <1>10

(* What is reported in the device is reported where it is; what is         *)
(* reported after fpos has gone through 0 is no place the search looks at. *)
LEMMA ReportedAt ==
  ASSUME SearchInv, search_pc = "scan", ofs < Places
  PROVE  /\ Wrap(fpos + ofs) \in 0 .. Modulus - 1
         /\ Real => Wrap(fpos + ofs) = fpos + ofs
         /\ Wrapped => ~Seen(Wrap(fpos + ofs))
<1>1. Given /\ ofs \in Nat /\ fpos \in 0 .. Modulus - 1
  <2>1. ofs \in 0 .. ReadSize /\ Given /\ fpos \in 0 .. Modulus - 1
    BY DEF SearchInv, SearchTypeOK
  <2>2. ReadSize \in Nat
    BY <2>1, SearchSizes
  <2> QED
    BY <2>1, <2>2 DEF Real
<1>2. /\ Step \in Nat \ {0} /\ Places \in Nat /\ Places <= Step
      /\ offset \in Nat /\ Len(device) \in Nat /\ offset <= Len(device)
      /\ Modulus \in Nat \ {0} /\ 2 * (Len(device) + Step) < Modulus
  BY <1>1, SearchSizes
<1>3. fpos + ofs \in Int
  BY <1>1, <1>2
<1>4. Wrap(fpos + ofs) \in 0 .. Modulus - 1
  BY <1>2, <1>3, WrapOnce DEF Wrap
<1>5. ASSUME Real PROVE Wrap(fpos + ofs) = fpos + ofs
  <2>1. fpos + ofs \in 0 .. Modulus - 1
    BY <1>1, <1>2, <1>5 DEF Real, End
  <2> QED
    BY <1>2, <1>3, <2>1, WrapOnce DEF Wrap
<1>6. ASSUME Wrapped PROVE ~Seen(Wrap(fpos + ofs))
  <2>1. CASE fpos + ofs < Modulus
    <3>1. Wrap(fpos + ofs) = fpos + ofs
      <4>1. fpos + ofs \in 0 .. Modulus - 1
        BY <1>1, <1>2, <2>1
      <4> QED
        BY <1>2, <1>3, <4>1, WrapOnce DEF Wrap
    <3>2. fpos + ofs \notin 0 .. Len(device) - offset - 1
      BY <1>1, <1>2, <1>6 DEF Wrapped
    <3> QED
      BY <1>6, <3>1, <3>2 DEF Seen, Wrapped, Backward
  <2>2. CASE fpos + ofs >= Modulus
    <3> DEFINE p == fpos + ofs - Modulus
    <3>1. Wrap(fpos + ofs) = p
      <4>1. PICK x \in Int : x = fpos + ofs
        BY <1>3
      <4>2. x \in Modulus .. 2 * Modulus - 1
        BY <1>1, <1>2, <2>2, <4>1
      <4>3. x % Modulus = x - Modulus
        BY <1>2, <4>2, WrapOnce
      <4> QED
        BY <1>1, <1>2, <4>1, <4>3 DEF Wrap
    <3>2. Grid(fpos - Modulus)
      BY <1>1, <1>2, <1>6, <2>2 DEF Wrapped
    <3>3. fpos - Modulus \in Int /\ p \in fpos - Modulus .. fpos - Modulus + Step - 1
      BY <1>1, <1>2, <2>2
    <3>4. Begin(p) = fpos - Modulus
      BY <1>1, <3>2, <3>3, BeginAt
    <3>5. ~(Begin(p) >= 0)
      BY <1>1, <1>2, <3>4
    <3> QED
      BY <3>1, <3>5 DEF Seen
  <2> QED
    BY <1>1, <1>2, <2>1, <2>2
<1> QED
  BY <1>4, <1>5, <1>6

LEMMA BeginBelow ==
  ASSUME Given, NEW p \in Int
  PROVE  Begin(p) \in Int /\ Begin(p) <= p
<1> DEFINE s == Step
<1>1. s \in Nat \ {0} /\ offset \in Nat /\ Len(device) \in Nat
  BY SearchSizes
<1>2. CASE Backward
  <2>1. PICK e \in Int : e = End
    <3>1. End = Len(device) - offset
      BY <1>2 DEF End, Backward
    <3>2. Len(device) - offset \in Int
      BY <1>1
    <3> QED
      BY <3>1, <3>2
  <2>2. Begin(p) = e - ((e - 1 - p) \div s + 1) * s
    BY <1>2, <2>1 DEF Begin, Backward, End
  <2> HIDE DEF s
  <2>3. PICK x \in Int : x = e - 1 - p
    OBVIOUS
  <2>4. PICK d \in Int : d = x \div s
    BY <1>1, <2>3, DivMod
  <2>5. x % s \in 0 .. s - 1 /\ x = s * d + (x % s)
    BY <1>1, <2>4, DivMod
  <2>6. Begin(p) = e - (d + 1) * s
    BY <2>2, <2>3, <2>4
  <2>7. PICK m \in 0 .. s - 1 : m = x % s
    BY <2>5
  <2>8. (d + 1) * s = x - m + s
    BY <1>1, <2>5, <2>7
  <2> QED
    BY <1>1, <2>3, <2>6, <2>8
<1>3. CASE ~Backward
  <2>1. Begin(p) = p - ((p - offset) % s)
    BY <1>3 DEF Begin, Backward
  <2> HIDE DEF s
  <2>2. PICK x \in Int : x = p - offset
    BY <1>1
  <2>3. x % s \in 0 .. s - 1
    BY <1>1, DivMod
  <2> QED
    BY <1>1, <2>1, <2>2, <2>3
<1> QED
  BY <1>2, <1>3

(* A place that is looked at is one of the places of its buffer.           *)
LEMMA PlaceOfSeen ==
  ASSUME Given, NEW p \in Int, Seen(p), p < Begin(p) + Step
  PROVE  p < Begin(p) + Places
<1>1. /\ Search \in Searches /\ BufferSize \in Nat /\ Len(Needle) \in Nat
      /\ Step \in Nat /\ ReadSize \in Nat /\ Width \in Nat
      /\ Backward => Places = Step
  BY SearchSizes, SearchAssumption
<1>2. Begin(p) \in Int
  BY BeginBelow
<1>3. CASE Search = "find"
  BY <1>1, <1>2, <1>3 DEF Seen, Places
<1>4. CASE Search = "find-eof"
  <2>1. p = Begin(p)
    BY <1>4 DEF Seen
  <2>2. Places = 1
    BY <1>1, <1>4 DEF Places, ReadSize, Width, Headers
  <2> QED
    BY <1>2, <2>1, <2>2
<1>5. CASE Search = "find-vh"
  <2>1. Places = Step
    BY <1>1, <1>5 DEF Places, ReadSize, Width, Headers, Step
  <2> QED
    BY <2>1
<1>6. CASE Search = "find-avh"
  BY <1>1, <1>6 DEF Backward
<1> QED
  BY <1>1, <1>3, <1>4, <1>5, <1>6 DEF Searches

LEMMA OnlyOne ==
  Given /\ Real => ~Wrapped
<1> SUFFICES ASSUME Given, Real PROVE ~Wrapped
  OBVIOUS
<1>1. Step \in Nat \ {0} /\ offset \in Nat /\ Len(device) \in Nat
  BY SearchSizes
<1> QED
  BY <1>1 DEF Real, Wrapped, End

LEMMA SameLies ==
  ASSUME UNCHANGED <<input, fpos>>
  PROVE  Real' = Real /\ Wrapped' = Wrapped
<1>1. UNCHANGED input /\ fpos' = fpos
  OBVIOUS
<1>2. /\ Backward' = Backward /\ End' = End /\ Step' = Step
      /\ offset' = offset /\ device' = device
  BY <1>1, SameInput
<1>3. Real' = Real
  BY <1>1, <1>2 DEF Real, Grid
<1>4. Wrapped' = Wrapped
  BY <1>1, <1>2 DEF Wrapped, Grid
<1> QED
  BY <1>3, <1>4

LEMMA SameLog ==
  ASSUME SearchInv, UNCHANGED <<input, log>>
  PROVE  /\ Given' /\ ReportsRight' /\ InOrder'
         /\ log' \in Seq([at : 0 .. Modulus - 1, garbled : BOOLEAN])
         /\ Reported' = Reported /\ Hits' = Hits
<1>1. UNCHANGED input /\ log' = log
  OBVIOUS
<1>2. Given' = Given /\ Hits' = Hits /\ Backward' = Backward
  BY <1>1, SameInput
<1>3. ASSUME NEW k \in DOMAIN log
      PROVE  Seen(log[k].at)' = Seen(log[k].at)
  <2>1. PICK p : p = log[k].at
    OBVIOUS
  <2>2. Seen(p)' = Seen(p)
    BY <1>1, SamePlace
  <2> QED
    BY <1>1, <2>1, <2>2
<1>4. ReportsRight'
  BY <1>1, <1>2, <1>3 DEF SearchInv, ReportsRight
<1>5. InOrder'
  BY <1>1, <1>2 DEF SearchInv, InOrder
<1>6. Reported' = Reported
  BY <1>1 DEF Reported
<1> QED
  BY <1>1, <1>2, <1>4, <1>5, <1>6 DEF SearchInv

-----------------------------------------------------------------------------
(* The steps.                                                              *)

LEMMA InitInv ==
  SearchInit => SearchInv
<1> SUFFICES ASSUME SearchInit PROVE SearchInv
  OBVIOUS
<1>1. Given
  BY DEF SearchInit, Given
<1>2. /\ Step \in Nat \ {0} /\ ReadSize \in Nat /\ Places \in Nat
      /\ offset \in Nat /\ Len(device) \in Nat /\ offset <= Len(device)
      /\ Modulus \in Nat \ {0} /\ 2 * (Len(device) + Step) < Modulus
      /\ Search \in Searches
  BY <1>1, SearchSizes
<1>3. search_pc = "read" /\ ofs = 0 /\ log = <<>>
  BY DEF SearchInit
<1>4. DOMAIN search_buffer = 0 .. ReadSize - 1
  BY DEF SearchInit
<1>5. /\ fpos \in 0 .. Modulus - 1
      /\ Real \/ Wrapped
      /\ \A p \in Hits : ~Passed(p)
  <2>1. CASE Backward
    <3>1. Step = BufferSize
      BY <2>1 DEF Backward, Step
    <3>2. PICK x \in Int : x = End - Step
      <4>1. End - Step \in Int
        BY <1>2 DEF End
      <4> QED
        BY <4>1
    <3>3. fpos = x % Modulus
      BY <2>1, <3>1, <3>2 DEF SearchInit, Backward, End, Wrap
    <3>4. Grid(x)
      <4>1. End - x = Step
        BY <1>2, <3>2 DEF End
      <4>2. Step % Step = 0
        <5>1. Step = Step * 1 + 0
          BY <1>2
        <5> QED
          BY <1>2, <5>1, ModUnique
      <4> QED
        BY <2>1, <4>1, <4>2 DEF Grid
    <3>5. CASE x >= 0
      <4>1. fpos = x
        <5>1. x \in 0 .. Modulus - 1
          BY <1>2, <3>2, <3>5 DEF End
        <5> QED
          BY <1>2, <3>3, <5>1, WrapOnce
      <4>2. Real
        BY <1>2, <2>1, <3>2, <3>4, <3>5, <4>1 DEF Real, End
      <4>3. ~Wrapped
        BY <1>1, <4>2, OnlyOne
      <4>4. \A p \in Hits : p < End
        BY <1>2, <2>1 DEF Hits, Seen, Backward, End
      <4>5. \A p \in Hits : p \in Int
        BY <1>2 DEF Hits
      <4>6. ASSUME NEW p \in Hits PROVE ~Passed(p)
        BY <1>2, <1>3, <2>1, <3>2, <4>1, <4>3, <4>4, <4>5 DEF Passed, End
      <4> QED
        BY <1>2, <3>5, <4>1, <4>2, <4>6, <3>2 DEF End
    <3>6. CASE x < 0
      <4>1. fpos = x + Modulus
        <5>1. x \in -Modulus .. -1
          BY <1>2, <3>2, <3>6 DEF End
        <5> QED
          BY <1>2, <3>3, <5>1, WrapOnce
      <4>2. Wrapped
        <5>1. fpos - Modulus = x
          BY <1>2, <4>1
        <5>2. x >= -Step
          BY <1>2, <3>2 DEF End
        <5>3. fpos \in Len(device) .. Modulus - 1
          BY <1>2, <3>6, <4>1, <5>2
        <5> QED
          BY <2>1, <3>4, <5>1, <5>3 DEF Wrapped
      <4>3. ASSUME NEW p \in Hits PROVE FALSE
        <5>1. p \in Int /\ p \in 0 .. End - 1 /\ Seen(p)
          BY <1>2, <2>1 DEF Hits, Seen, Backward, End
        <5>2. Begin(p) = x
          <6>1. p \in x .. x + Step - 1
            BY <1>2, <3>2, <3>6, <5>1 DEF End
          <6> QED
            BY <1>1, <3>4, <6>1, BeginAt
        <5> QED
          BY <3>6, <5>1, <5>2 DEF Seen
      <4>4. fpos \in 0 .. Modulus - 1
        BY <4>2, <1>2 DEF Wrapped
      <4> QED
        BY <4>2, <4>3, <4>4
    <3> QED
      BY <3>5, <3>6
  <2>2. CASE ~Backward
    <3>1. fpos = offset
      BY <2>2 DEF SearchInit, Backward
    <3>2. Grid(fpos)
      <4>1. 0 % Step = 0
        <5>1. 0 = Step * 0 + 0
          BY <1>2
        <5> QED
          BY <1>2, <5>1, ModUnique
      <4>2. fpos - offset = 0
        BY <1>2, <3>1
      <4> QED
        BY <2>2, <4>1, <4>2 DEF Grid
    <3>3. Real
      BY <1>2, <2>2, <3>1, <3>2 DEF Real
    <3>4. ASSUME NEW p \in Hits PROVE ~Passed(p)
      <4>1. p \in offset .. Len(device) - 1
        BY <2>2 DEF Hits, Seen, Backward
      <4> QED
        BY <1>2, <1>3, <2>2, <3>1, <4>1 DEF Passed, Wrapped
    <3> QED
      BY <1>2, <3>1, <3>3, <3>4
  <2> QED
    BY <2>1, <2>2
<1>6. SearchTypeOK
  BY <1>2, <1>3, <1>4, <1>5 DEF SearchTypeOK
<1>7. log \in Seq([at : 0 .. Modulus - 1, garbled : BOOLEAN])
  BY <1>3
<1>8. Addressed /\ Scans /\ BufferRight /\ LogPassed /\ HitsPassed /\ NotStopped /\ InOrder
  BY <1>3, <1>5 DEF Addressed, Scans, BufferRight, LogPassed, HitsPassed, NotStopped, InOrder
<1>9. ReportsRight /\ HitsReported
  BY <1>3 DEF ReportsRight, HitsReported
<1> QED
  BY <1>1, <1>6, <1>7, <1>8, <1>9 DEF SearchInv

LEMMA ReadInv ==
  ASSUME SearchInv, Read
  PROVE  SearchInv'
<1>1. /\ Given /\ SearchTypeOK /\ search_pc = "read" /\ search_pc' = "scan" /\ ofs' = 0
      /\ fpos' = fpos /\ log' = log /\ UNCHANGED input
  BY DEF SearchInv, Read
<1>2. /\ Step \in Nat \ {0} /\ ReadSize \in Nat /\ Places \in Nat
      /\ offset \in Nat /\ Len(device) \in Nat /\ offset <= Len(device)
      /\ Modulus \in Nat \ {0} /\ 2 * (Len(device) + Step) < Modulus
      /\ fpos \in Nat /\ fpos \in 0 .. Modulus - 1
  BY <1>1, SearchSizes DEF SearchTypeOK
<1>3. /\ Given' /\ ReportsRight' /\ InOrder'
      /\ log' \in Seq([at : 0 .. Modulus - 1, garbled : BOOLEAN])
      /\ Reported' = Reported /\ Hits' = Hits
  BY <1>1, SameLog
<1>4. Real' = Real /\ Wrapped' = Wrapped
  BY <1>1, SameLies
<1>5. /\ ReadSize' = ReadSize /\ Backward' = Backward /\ Step' = Step
      /\ Places' = Places
      /\ device' = device /\ bad_cells' = bad_cells
  BY <1>1, SameInput
<1> DEFINE n == PReadCells(fpos)
<1>6. search_buffer' = [i \in DOMAIN search_buffer |->
                           IF i < n THEN device[fpos + i + 1] ELSE search_buffer[i]]
  BY DEF Read
<1>7. /\ n \in Int /\ ~(2 * fpos < Modulus /\ fpos >= Len(device))
      /\ \A i \in 0 .. ReadSize - 1 : (\A a \in fpos .. fpos + i : ReadableCell(a)) => i < n
  BY <1>1, <1>2, PReadOf DEF Read
<1> HIDE DEF n
<1>8. SearchTypeOK'
  BY <1>1, <1>2, <1>5, <1>6 DEF SearchTypeOK
<1>9. Addressed' /\ Scans'
  BY <1>1, <1>2, <1>4, <1>5, <1>7 DEF SearchInv, Addressed, Scans, Wrapped
<1>10. BufferRight'
  <2> SUFFICES ASSUME Real
               PROVE  /\ ~Backward => fpos < Len(device)
                      /\ \A i \in 0 .. ReadSize - 1 :
                           (\A a \in fpos .. fpos + i : ReadableCell(a)')
                             => search_buffer'[i] = device[fpos + i + 1]
    BY <1>1, <1>4, <1>5 DEF BufferRight
  <2>1. ~Backward => fpos < Len(device)
    BY <1>2, <1>7 DEF Real
  <2>2. ASSUME NEW i \in 0 .. ReadSize - 1, \A a \in fpos .. fpos + i : ReadableCell(a)'
        PROVE  search_buffer'[i] = device[fpos + i + 1]
    <3>1. \A a \in fpos .. fpos + i : ReadableCell(a)
      BY <1>5, <2>2 DEF ReadableCell
    <3>2. i < n /\ i \in DOMAIN search_buffer
      BY <1>1, <1>7, <3>1 DEF SearchTypeOK
    <3> QED
      BY <1>6, <3>2
  <2> QED
    BY <2>1, <2>2
<1>11. \A p \in Int : Passed(p)' <=> Passed(p)
  BY <1>1, <1>2, <1>4, <1>5 DEF Passed
<1>12. LogPassed'
  <2>1. \A k \in DOMAIN log : log[k].at \in Int
    BY <1>1, <1>2 DEF SearchTypeOK
  <2>2. Real => \A k \in DOMAIN log : Passed(log[k].at)
    BY <1>1 DEF SearchInv, LogPassed
  <2>3. ASSUME Real, NEW k \in DOMAIN log PROVE Passed(log[k].at)'
    <3>1. PICK p \in Int : p = log[k].at
      BY <2>1
    <3>2. Passed(p)'
      BY <1>11, <2>2, <2>3, <3>1
    <3> QED
      BY <1>1, <3>1, <3>2
  <2> QED
    BY <1>1, <1>4, <2>3 DEF LogPassed
<1>13. HitsPassed'
  <2>1. \A p \in Hits : p \in Int
    BY <1>2 DEF Hits
  <2>2. \A p \in Hits : Passed(p) => p \in Reported
    BY <1>1 DEF SearchInv, HitsPassed
  <2> QED
    BY <1>3, <1>11, <2>1, <2>2 DEF HitsPassed
<1>14. NotStopped'
  <2>1. Stop' = Stop
    BY <1>1, SameInput
  <2> QED
    BY <1>1, <2>1 DEF SearchInv, NotStopped
<1>15. HitsReported'
  BY <1>1 DEF HitsReported
<1> QED
  BY <1>3, <1>8, <1>9, <1>10, <1>12, <1>13, <1>14, <1>15 DEF SearchInv

LEMMA ReadEndsInv ==
  ASSUME SearchInv, ReadEnds
  PROVE  SearchInv'
<1>1. /\ Given /\ SearchTypeOK /\ search_pc = "read" /\ search_pc' = "done" /\ ofs' = ofs
      /\ search_buffer' = search_buffer
      /\ fpos' = fpos /\ log' = log /\ UNCHANGED input
  BY DEF SearchInv, ReadEnds
<1>2. /\ Step \in Nat \ {0} /\ offset \in Nat /\ Len(device) \in Nat
      /\ fpos \in Nat /\ fpos \in 0 .. Modulus - 1 /\ Modulus \in Nat
  BY <1>1, SearchSizes DEF SearchTypeOK
<1>3. /\ Given' /\ ReportsRight' /\ InOrder'
      /\ log' \in Seq([at : 0 .. Modulus - 1, garbled : BOOLEAN])
      /\ Reported' = Reported /\ Hits' = Hits
  BY <1>1, SameLog
<1>4. Stop' = Stop /\ ReadSize' = ReadSize /\ Search' = Search
  BY <1>1, SameInput
<1>5. SearchTypeOK'
  BY <1>1, <1>4 DEF SearchTypeOK
<1>6. fpos >= Len(device)
  BY <1>1, <1>2, PReadOf DEF ReadEnds
<1>7. Hits \subseteq Reported
  <2>1. \A p \in Hits : p \in Int /\ p < Len(device)
    BY <1>2 DEF Hits
  <2>2. \A p \in Hits : Passed(p)
    <3>1. CASE Real
      BY <1>2, <1>6, <2>1, <3>1 DEF Passed, Real, End
    <3>2. CASE Wrapped
      BY <3>2 DEF Passed
    <3> QED
      BY <1>1, <3>1, <3>2 DEF SearchInv, Addressed
  <2> QED
    BY <1>1, <2>2 DEF SearchInv, HitsPassed
<1>8. Stop => log = <<>> /\ Hits = {}
  <2>1. Stop => log = <<>>
    BY <1>1 DEF SearchInv, NotStopped
  <2>2. log = <<>> => Reported = {}
    BY DEF Reported
  <2> QED
    BY <1>7, <2>1, <2>2
<1>9. HitsReported'
  BY <1>1, <1>3, <1>4, <1>7, <1>8 DEF HitsReported, InOrder, Backward
<1>10. Addressed' /\ Scans' /\ BufferRight' /\ LogPassed' /\ HitsPassed' /\ NotStopped'
  BY <1>1 DEF Addressed, Scans, BufferRight, LogPassed, HitsPassed, NotStopped
<1> QED
  BY <1>3, <1>5, <1>9, <1>10 DEF SearchInv

LEMMA AdvanceInv ==
  ASSUME SearchInv, Advance
  PROVE  SearchInv'
<1>1. /\ Given /\ SearchTypeOK /\ search_pc = "scan" /\ search_pc' = "read" /\ ofs' = ofs
      /\ search_buffer' = search_buffer
      /\ log' = log /\ UNCHANGED input
      /\ fpos' = IF Backward THEN Wrap(fpos - Step) ELSE Wrap(fpos + Step)
  BY DEF SearchInv, Advance, Backward
<1>2. /\ Step \in Nat \ {0} /\ ReadSize \in Nat /\ Places \in Nat /\ Places <= Step
      /\ offset \in Nat /\ Len(device) \in Nat /\ offset <= Len(device)
      /\ Modulus \in Nat \ {0} /\ 2 * (Len(device) + Step) < Modulus
      /\ Backward => Places = Step
      /\ fpos \in Nat /\ fpos \in 0 .. Modulus - 1
  BY <1>1, SearchSizes DEF SearchTypeOK
<1>3. /\ Given' /\ ReportsRight' /\ InOrder'
      /\ log' \in Seq([at : 0 .. Modulus - 1, garbled : BOOLEAN])
      /\ Reported' = Reported /\ Hits' = Hits
  BY <1>1, SameLog
<1>4. /\ ReadSize' = ReadSize /\ Backward' = Backward /\ Step' = Step /\ End' = End
      /\ offset' = offset /\ device' = device /\ Stop' = Stop
  BY <1>1, SameInput
<1>5. ofs \in Nat /\ ofs = Places /\ (Wrapped => 2 * fpos >= Modulus)
  BY <1>1, <1>2 DEF SearchInv, Scans, Advance, SearchTypeOK
<1>6. \A k \in DOMAIN log : log[k].at \in Int
  BY <1>1, <1>2 DEF SearchTypeOK
<1>7. /\ Real => \A k \in DOMAIN log : Passed(log[k].at)
      /\ \A p \in Hits : Passed(p) => p \in Reported
      /\ Real \/ Wrapped
  BY <1>1 DEF SearchInv, LogPassed, HitsPassed, Addressed
<1>8. \A p \in Hits : p \in Int /\ p >= 0 /\ p < Len(device) /\ Seen(p)
  BY <1>2 DEF Hits
(* What is in the buffer has been looked at.                               *)
<1>9. ASSUME Real, NEW p \in Hits, fpos <= p, p < fpos + Step
      PROVE  Passed(p)
  <2>1. Begin(p) = fpos
    <3>1. p \in fpos .. fpos + Step - 1
      BY <1>2, <1>8, <1>9
    <3> QED
      BY <1>1, <1>9, <3>1, BeginAt DEF Real
  <2>2. p < fpos + Places
    BY <1>1, <1>2, <1>8, <1>9, <2>1, PlaceOfSeen
  <2> QED
    BY <1>1, <1>5, <1>9, <2>2 DEF Passed
<1>10. /\ fpos' \in 0 .. Modulus - 1
       /\ Addressed' /\ LogPassed' /\ HitsPassed'
  <2>1. CASE ~Backward
    <3>1. Real /\ ~Wrapped /\ fpos < Len(device)
      BY <1>1, <1>7, <2>1 DEF Wrapped, SearchInv, BufferRight
    <3>2. fpos' = fpos + Step
      <4>1. PICK x \in Int : x = fpos + Step
        BY <1>2
      <4>2. x \in 0 .. Modulus - 1
        BY <1>2, <3>1, <4>1
      <4>3. x % Modulus = x
        BY <1>2, <4>2, WrapOnce
      <4> QED
        BY <1>1, <2>1, <4>1, <4>3 DEF Wrap
    <3>3. Grid(fpos)
      BY <3>1 DEF Real
    <3>4. (fpos' - offset) % Step = 0
      <4>1. PICK x \in Int : x = fpos - offset
        BY <1>2
      <4>2. x % Step = 0
        BY <2>1, <3>3, <4>1 DEF Grid
      <4>3. (x + Step) % Step = 0
        BY <1>2, <4>2, ModStep
      <4>4. fpos' - offset = x + Step
        BY <1>2, <3>2, <4>1
      <4> QED
        BY <4>3, <4>4
    <3>5. Real'
      <4>1. Grid(fpos)'
        BY <1>4, <2>1, <3>4 DEF Grid
      <4>2. fpos' \in Nat /\ offset <= fpos' /\ fpos' < Len(device) + Step
        BY <1>2, <2>1, <3>1, <3>2 DEF Real
      <4> QED
        BY <1>4, <2>1, <4>1, <4>2 DEF Real
    <3>6. ~Wrapped'
      BY <1>4, <2>1 DEF Wrapped
    <3>7. \A p \in Int : Passed(p)' <=> p < fpos + Step
      BY <1>1, <1>4, <2>1, <3>2, <3>6 DEF Passed
    <3>8. ASSUME NEW k \in DOMAIN log PROVE Passed(log[k].at)'
      <4>1. PICK p \in Int : p = log[k].at
        BY <1>6
      <4>2. Passed(p)
        BY <1>7, <3>1, <4>1
      <4>3. p < fpos + Step
        BY <1>2, <1>5, <2>1, <3>1, <4>2 DEF Passed
      <4>4. Passed(p)'
        BY <3>7, <4>3
      <4> QED
        BY <1>1, <4>1, <4>4
    <3>9. LogPassed'
      BY <1>1, <3>8 DEF LogPassed
    <3>10. ASSUME NEW p \in Hits, Passed(p)' PROVE p \in Reported
      <4>1. p \in Int /\ p < fpos + Step
        BY <1>8, <3>7, <3>10
      <4>2. CASE p < fpos
        BY <1>7, <2>1, <4>2 DEF Passed
      <4>3. CASE fpos <= p
        BY <1>7, <1>9, <3>1, <4>1, <4>3
      <4> QED
        BY <1>2, <4>1, <4>2, <4>3
    <3>11. HitsPassed'
      BY <1>3, <3>10 DEF HitsPassed
    <3> QED
      BY <1>2, <3>1, <3>2, <3>5, <3>9, <3>11 DEF Addressed
  <2>2. CASE Backward /\ Real /\ fpos >= Step
    <3>1. fpos' = fpos - Step
      <4>1. PICK x \in Int : x = fpos - Step
        BY <1>2
      <4>2. x \in 0 .. Modulus - 1
        BY <1>2, <2>2, <4>1
      <4>3. x % Modulus = x
        BY <1>2, <4>2, WrapOnce
      <4> QED
        BY <1>1, <2>2, <4>1, <4>3 DEF Wrap
    <3>2. (End - fpos') % Step = 0
      <4>0. End - fpos \in Int
        BY <1>2 DEF End
      <4>1. PICK x \in Int : x = End - fpos
        BY <4>0
      <4>2. x % Step = 0
        BY <2>2, <4>1 DEF Grid, Real
      <4>3. (x + Step) % Step = 0
        BY <1>2, <4>2, ModStep
      <4>4. End - fpos' = x + Step
        BY <1>2, <3>1, <4>1 DEF End
      <4> QED
        BY <4>3, <4>4
    <3>3. Real'
      <4>1. Grid(fpos)'
        BY <1>4, <2>2, <3>2 DEF Grid
      <4>2. fpos' \in Nat /\ fpos' + Step <= End
        BY <1>2, <2>2, <3>1 DEF Real, End
      <4> QED
        BY <1>4, <2>2, <4>1, <4>2 DEF Real
    <3>4. ~Wrapped'
      BY <1>2, <1>4, <2>2, <3>1 DEF Wrapped, Real, End
    <3>5. \A p \in Int : Passed(p)' <=> fpos <= p
      BY <1>1, <1>2, <1>4, <2>2, <3>1, <3>4 DEF Passed
    <3>6. ~Wrapped
      BY <1>1, <2>2, OnlyOne
    <3>7. ASSUME NEW k \in DOMAIN log PROVE Passed(log[k].at)'
      <4>1. PICK p \in Int : p = log[k].at
        BY <1>6
      <4>2. Passed(p)
        BY <1>7, <2>2, <4>1
      <4>3. fpos <= p
        BY <1>2, <1>5, <2>2, <3>6, <4>2 DEF Passed
      <4>4. Passed(p)'
        BY <3>5, <4>3
      <4> QED
        BY <1>1, <4>1, <4>4
    <3>8. LogPassed'
      BY <1>1, <3>7 DEF LogPassed
    <3>9. ASSUME NEW p \in Hits, Passed(p)' PROVE p \in Reported
      <4>1. p \in Int /\ fpos <= p
        BY <1>8, <3>5, <3>9
      <4>2. CASE fpos + Step <= p
        BY <1>7, <2>2, <4>2 DEF Passed
      <4>3. CASE p < fpos + Step
        BY <1>7, <1>9, <2>2, <4>1, <4>3
      <4> QED
        BY <1>2, <4>1, <4>2, <4>3
    <3>10. HitsPassed'
      BY <1>3, <3>9 DEF HitsPassed
    <3> QED
      BY <1>2, <2>2, <3>1, <3>3, <3>8, <3>10 DEF Addressed
  <2>3. CASE Backward /\ Real /\ fpos < Step
    <3>1. fpos' = fpos - Step + Modulus
      <4>1. PICK x \in Int : x = fpos - Step
        BY <1>2
      <4>2. x \in -Modulus .. -1
        BY <1>2, <2>3, <4>1
      <4>3. x % Modulus = x + Modulus
        BY <1>2, <4>2, WrapOnce
      <4> QED
        BY <1>1, <2>3, <4>1, <4>3 DEF Wrap
    <3>2. Grid(fpos - Step)
      <4>0. End - fpos \in Int
        BY <1>2 DEF End
      <4>1. PICK x \in Int : x = End - fpos
        BY <4>0
      <4>2. x % Step = 0
        BY <2>3, <4>1 DEF Grid, Real
      <4>3. (x + Step) % Step = 0
        BY <1>2, <4>2, ModStep
      <4>4. End - (fpos - Step) = x + Step
        BY <1>2, <4>1 DEF End
      <4> QED
        BY <2>3, <4>3, <4>4 DEF Grid
    <3>3. (End - (fpos' - Modulus)) % Step = 0
      <4>1. fpos' - Modulus = fpos - Step
        BY <1>2, <3>1
      <4> QED
        BY <2>3, <3>2, <4>1 DEF Grid
    <3>4. Wrapped'
      <4>1. Grid(fpos - Modulus)'
        BY <1>4, <2>3, <3>3 DEF Grid
      <4>2. fpos' \in Len(device) .. Modulus - 1
        BY <1>2, <2>3, <3>1
      <4> QED
        BY <1>4, <2>3, <4>1, <4>2 DEF Wrapped
    <3>5. ~Real'
      BY <1>2, <1>4, <2>3, <3>1 DEF Real, End
    <3>6. ASSUME NEW p \in Hits PROVE p \in Reported
      <4>1. p \in Int /\ p >= 0 /\ Seen(p)
        BY <1>8
      <4>2. CASE p < fpos
        <5>1. fpos - Step \in Int /\ p \in fpos - Step .. fpos - Step + Step - 1
          BY <1>2, <2>3, <4>1, <4>2
        <5>2. Begin(p) = fpos - Step
          BY <1>1, <3>2, <5>1, BeginAt
        <5> QED
          BY <1>2, <2>3, <4>1, <5>2 DEF Seen
      <4>3. CASE fpos <= p /\ p < fpos + Step
        BY <1>7, <1>9, <2>3, <4>3
      <4>4. CASE fpos + Step <= p
        BY <1>7, <2>3, <4>4 DEF Passed
      <4> QED
        BY <1>2, <4>1, <4>2, <4>3, <4>4
    <3>7. HitsPassed'
      BY <1>3, <3>6 DEF HitsPassed
    <3> QED
      BY <1>2, <2>3, <3>1, <3>4, <3>5, <3>7 DEF Addressed, LogPassed
  <2>4. CASE Backward /\ Wrapped
    <3>1. 2 * fpos >= Modulus
      BY <1>5, <2>4
    <3>2. fpos' = fpos - Step
      <4>1. PICK x \in Int : x = fpos - Step
        BY <1>2
      <4>2. x \in 0 .. Modulus - 1
        BY <1>2, <3>1, <4>1
      <4>3. x % Modulus = x
        BY <1>2, <4>2, WrapOnce
      <4> QED
        BY <1>1, <2>4, <4>1, <4>3 DEF Wrap
    <3>3. fpos' \in Len(device) .. Modulus - 1 /\ fpos' + Step <= Modulus
      BY <1>2, <3>1, <3>2
    <3>4. Wrapped'
      BY <1>4, <2>4, <3>3 DEF Wrapped
    <3>5. ~Real'
      BY <1>2, <1>4, <2>4, <3>3 DEF Real, End
    <3>6. HitsPassed'
      BY <1>3, <1>7, <2>4 DEF HitsPassed, Passed
    <3> QED
      BY <1>2, <3>3, <3>4, <3>5, <3>6 DEF Addressed, LogPassed
  <2> QED
    BY <1>2, <1>7, <2>1, <2>2, <2>3, <2>4
<1>11. SearchTypeOK'
  BY <1>1, <1>4, <1>10 DEF SearchTypeOK
<1>12. NotStopped'
  BY <1>1, <1>4 DEF SearchInv, NotStopped
<1>13. Scans' /\ BufferRight' /\ HitsReported'
  BY <1>1 DEF Scans, BufferRight, HitsReported
<1> QED
  BY <1>3, <1>10, <1>11, <1>12, <1>13 DEF SearchInv

LEMMA PassInv ==
  ASSUME SearchInv, Pass
  PROVE  SearchInv'
<1>1. /\ Given /\ SearchTypeOK /\ search_pc = "scan" /\ search_pc' = "scan" /\ ofs' = ofs + 1
      /\ search_buffer' = search_buffer
      /\ fpos' = fpos /\ log' = log /\ UNCHANGED input /\ ofs < Places /\ ~IsHit(At(ofs))
  BY DEF SearchInv, Pass
<1>2. /\ Step \in Nat \ {0} /\ ReadSize \in Nat /\ Width \in Nat \ {0} /\ Places \in Nat
      /\ Places + Width - 1 <= ReadSize /\ Len(device) \in Nat
      /\ fpos \in Nat /\ ofs \in Nat
  BY <1>1, SearchSizes DEF SearchTypeOK
<1>3. /\ Given' /\ ReportsRight' /\ InOrder'
      /\ log' \in Seq([at : 0 .. Modulus - 1, garbled : BOOLEAN])
      /\ Reported' = Reported /\ Hits' = Hits
  BY <1>1, SameLog
<1>4. /\ ReadSize' = ReadSize /\ Places' = Places /\ Backward' = Backward
      /\ Step' = Step
      /\ device' = device /\ bad_cells' = bad_cells /\ Stop' = Stop
  BY <1>1, SameInput
<1>5. Real' = Real /\ Wrapped' = Wrapped
  BY <1>1, SameLies
<1>6. SearchTypeOK'
  BY <1>1, <1>2, <1>4 DEF SearchTypeOK
<1>7. Addressed' /\ Scans'
  BY <1>1, <1>2, <1>4, <1>5 DEF SearchInv, Addressed, Scans
<1>8. BufferRight'
  <2> SUFFICES ASSUME Real
               PROVE  /\ ~Backward => fpos < Len(device)
                      /\ \A i \in ofs + 1 .. ReadSize - 1 :
                           (\A a \in fpos .. fpos + i : ReadableCell(a)')
                             => search_buffer[i] = device[fpos + i + 1]
    BY <1>1, <1>4, <1>5 DEF BufferRight
  <2>1. /\ ~Backward => fpos < Len(device)
        /\ \A i \in ofs .. ReadSize - 1 :
             (\A a \in fpos .. fpos + i : ReadableCell(a))
                 => search_buffer[i] = device[fpos + i + 1]
    BY <1>1 DEF SearchInv, BufferRight
  <2>2. \A a : ReadableCell(a)' <=> ReadableCell(a)
    BY <1>4 DEF ReadableCell
  <2>3. \A i \in ofs + 1 .. ReadSize - 1 : i \in ofs .. ReadSize - 1
    BY <1>2
  <2> QED
    BY <2>1, <2>2, <2>3
<1>9. \A p \in Int : Passed(p)' <=> Passed(p) \/ p = fpos + ofs
  <2>1. TAKE p \in Int
  <2>2. Passed(p)' <=> \/ Wrapped
                       \/ Backward /\ fpos + Step <= p
                       \/ ~Backward /\ p < fpos
                       \/ fpos <= p /\ p < fpos + (ofs + 1)
    BY <1>1, <1>4, <1>5 DEF Passed
  <2>3. fpos <= p /\ p < fpos + (ofs + 1) <=> (fpos <= p /\ p < fpos + ofs) \/ p = fpos + ofs
    BY <1>2
  <2> QED
    BY <1>1, <2>2, <2>3 DEF Passed
<1>10. /\ Real => \A k \in DOMAIN log : Passed(log[k].at)
       /\ \A p \in Hits : Passed(p) => p \in Reported
       /\ Real \/ Wrapped
  BY <1>1 DEF SearchInv, LogPassed, HitsPassed, Addressed
<1>11. LogPassed'
  <2>1. ASSUME Real, NEW k \in DOMAIN log PROVE Passed(log[k].at)'
    <3>1. log[k].at \in Int
      BY <1>1, <1>2 DEF SearchTypeOK
    <3>2. PICK p \in Int : p = log[k].at
      BY <3>1
    <3>3. Passed(p)'
      BY <1>9, <1>10, <2>1, <3>2
    <3> QED
      BY <1>1, <3>2, <3>3
  <2> QED
    BY <1>1, <1>5, <2>1 DEF LogPassed
<1>12. HitsPassed'
  <2>1. ASSUME NEW p \in Hits, Passed(p)' PROVE p \in Reported
    <3>1. p \in Int /\ Seen(p) /\ HitAt(p)
      BY <1>2 DEF Hits
    <3>2. CASE Passed(p)
      BY <1>10, <3>2
    <3>3. CASE ~Passed(p)
      <4>1. p = fpos + ofs
        BY <1>9, <2>1, <3>1, <3>3
      <4>2. Real
        BY <1>10, <3>3 DEF Passed
      <4>3. IsHit(At(ofs))
        BY <1>1, <3>1, <4>1, <4>2, LooksAtDevice
      <4> QED
        BY <1>1, <4>3
    <3> QED
      BY <3>2, <3>3
  <2> QED
    BY <1>3, <2>1 DEF HitsPassed
<1>13. NotStopped' /\ HitsReported'
  BY <1>1, <1>4 DEF SearchInv, NotStopped, HitsReported
<1> QED
  BY <1>3, <1>6, <1>7, <1>8, <1>11, <1>12, <1>13 DEF SearchInv

LEMMA ReportInv ==
  ASSUME SearchInv, Report
  PROVE  SearchInv'
<1> DEFINE q == Wrap(fpos + ofs)
           r == [at |-> q, garbled |-> At(ofs)[1] \in {"h", "f"}]
           n == Len(log) + 1
<1>1. /\ Given /\ SearchTypeOK /\ search_pc = "scan" /\ ofs' = ofs + 1 /\ fpos' = fpos
      /\ log' = Append(log, r) /\ UNCHANGED input /\ ofs < Places /\ IsHit(At(ofs))
      /\ search_pc' = IF Stop THEN "done" ELSE "scan"
      /\ search_buffer' = IF Search \in Headers
                          THEN [search_buffer EXCEPT ![ofs] = Swapped[@]] ELSE search_buffer
      /\ log \in Seq([at : 0 .. Modulus - 1, garbled : BOOLEAN])
  BY DEF SearchInv, Report
<1>2. /\ Step \in Nat \ {0} /\ ReadSize \in Nat /\ Width \in Nat \ {0} /\ Places \in Nat
      /\ Places + Width - 1 <= ReadSize /\ Places <= Step /\ Len(device) \in Nat
      /\ offset \in Nat /\ device \in Seq(Cells) /\ Modulus \in Nat
      /\ fpos \in Nat /\ ofs \in Nat
  BY <1>1, SearchSizes DEF SearchTypeOK
<1>3. /\ q \in 0 .. Modulus - 1
      /\ Real => q = fpos + ofs
      /\ Wrapped => ~Seen(q)
  BY <1>1, ReportedAt
<1>4. r \in [at : 0 .. Modulus - 1, garbled : BOOLEAN] /\ r.at = q
  BY <1>3
<1> HIDE DEF q, r
<1>5. /\ log' \in Seq([at : 0 .. Modulus - 1, garbled : BOOLEAN])
      /\ Len(log) \in Nat /\ DOMAIN log = 1 .. Len(log)
      /\ DOMAIN log' = 1 .. n /\ Len(log') = n
      /\ \A k \in 1 .. Len(log) : log'[k] = log[k]
      /\ log'[n] = r
  BY <1>1, <1>4
<1>6. \A k \in DOMAIN log : log[k].at \in Int
  BY <1>1, <1>2 DEF SearchTypeOK
<1>7. /\ ReadSize' = ReadSize /\ Places' = Places /\ Backward' = Backward
      /\ Step' = Step
      /\ device' = device /\ bad_cells' = bad_cells /\ Stop' = Stop /\ Search' = Search
      /\ Given' = Given /\ Hits' = Hits
  BY <1>1, SameInput
<1>8. Real' = Real /\ Wrapped' = Wrapped
  BY <1>1, SameLies
<1>9. /\ Real => \A k \in DOMAIN log : Passed(log[k].at)
      /\ \A p \in Hits : Passed(p) => p \in Reported
      /\ Real \/ Wrapped
      /\ Real => ~Wrapped
      /\ Stop => log = <<>>
  BY <1>1, OnlyOne DEF SearchInv, LogPassed, HitsPassed, Addressed, NotStopped
<1>10. Reported' = Reported \cup {q}
  <2>1. ASSUME NEW x \in Reported' PROVE x \in Reported \cup {q}
    <3>1. PICK k \in 1 .. n : x = log'[k].at
      BY <1>5, <2>1 DEF Reported
    <3>2. CASE k = n
      BY <1>4, <1>5, <3>1, <3>2
    <3>3. CASE k \in 1 .. Len(log)
      BY <1>5, <3>1, <3>3 DEF Reported
    <3> QED
      BY <1>5, <3>2, <3>3
  <2>2. ASSUME NEW x \in Reported PROVE x \in Reported'
    <3>1. PICK k \in 1 .. Len(log) : x = log[k].at
      BY <1>5, <2>2 DEF Reported
    <3>2. k \in DOMAIN log' /\ x = log'[k].at
      BY <1>5, <3>1
    <3> QED
      BY <3>2 DEF Reported
  <2>3. q \in Reported'
    <3>1. n \in DOMAIN log' /\ q = log'[n].at
      BY <1>4, <1>5
    <3> QED
      BY <3>1 DEF Reported
  <2> QED
    BY <2>1, <2>2, <2>3
<1>11. \A p \in Int : Passed(p) => p # fpos + ofs \/ Wrapped
  BY <1>1, <1>2 DEF Passed
<1>12. search_pc' = "scan" => \A p \in Int : Passed(p)' <=> Passed(p) \/ p = fpos + ofs
  <2> SUFFICES ASSUME search_pc' = "scan", NEW p \in Int
               PROVE  Passed(p)' <=> Passed(p) \/ p = fpos + ofs
    OBVIOUS
  <2>1. Passed(p)' <=> \/ Wrapped
                       \/ Backward /\ fpos + Step <= p
                       \/ ~Backward /\ p < fpos
                       \/ fpos <= p /\ p < fpos + (ofs + 1)
    BY <1>1, <1>7, <1>8 DEF Passed
  <2>2. fpos <= p /\ p < fpos + (ofs + 1) <=> (fpos <= p /\ p < fpos + ofs) \/ p = fpos + ofs
    BY <1>2
  <2> QED
    BY <1>1, <2>1, <2>2 DEF Passed
<1>13. SearchTypeOK'
  <2>1. DOMAIN search_buffer' = DOMAIN search_buffer
    BY <1>1
  <2>2. ofs' \in 0 .. ReadSize
    BY <1>1, <1>2
  <2>3. \A k \in DOMAIN log' : log'[k].at \in 0 .. Modulus - 1 /\ log'[k].garbled \in BOOLEAN
    <3>1. \A k \in DOMAIN log' : log'[k] \in [at : 0 .. Modulus - 1, garbled : BOOLEAN]
      <4> DEFINE R == [at : 0 .. Modulus - 1, garbled : BOOLEAN]
      <4>1. log' \in Seq(R)
        BY <1>5
      <4> HIDE DEF R
      <4>2. \A k \in DOMAIN log' : log'[k] \in R
        BY <4>1
      <4> QED
        BY <4>2 DEF R
    <3> QED
      BY <3>1
  <2> QED
    BY <1>1, <1>7, <2>1, <2>2, <2>3 DEF SearchTypeOK
<1>14. Addressed' /\ Scans'
  BY <1>1, <1>2, <1>7, <1>8, <1>9 DEF SearchInv, Addressed, Scans
<1>15. BufferRight'
  <2> SUFFICES ASSUME Real
               PROVE  /\ ~Backward => fpos < Len(device)
                      /\ \A i \in ofs + 1 .. ReadSize - 1 :
                           (\A a \in fpos .. fpos + i : ReadableCell(a)')
                             => search_buffer'[i] = device[fpos + i + 1]
    BY <1>1, <1>7, <1>8 DEF BufferRight
  <2>1. /\ ~Backward => fpos < Len(device)
        /\ \A i \in ofs .. ReadSize - 1 :
             (\A a \in fpos .. fpos + i : ReadableCell(a))
                 => search_buffer[i] = device[fpos + i + 1]
    BY <1>1 DEF SearchInv, BufferRight
  <2>2. \A a : ReadableCell(a)' <=> ReadableCell(a)
    BY <1>7 DEF ReadableCell
  <2>3. \A i \in ofs + 1 .. ReadSize - 1 :
          i \in ofs .. ReadSize - 1 /\ i # ofs /\ i \in DOMAIN search_buffer
    <3>1. DOMAIN search_buffer = 0 .. ReadSize - 1
      BY <1>1 DEF SearchTypeOK
    <3> QED
      BY <1>2, <3>1
  <2>4. \A i \in ofs + 1 .. ReadSize - 1 : search_buffer'[i] = search_buffer[i]
    BY <1>1, <2>3
  <2> QED
    BY <2>1, <2>2, <2>3, <2>4
<1>16. LogPassed'
  <2> SUFFICES ASSUME search_pc' = "scan", Real, NEW k \in 1 .. n
               PROVE  Passed(log[k].at)'
    BY <1>1, <1>5, <1>8 DEF LogPassed
  <2>1. CASE k = n
    <3>1. PICK p \in Int : p = fpos + ofs
      BY <1>2
    <3>2. Passed(p)'
      BY <1>12, <3>1
    <3> QED
      BY <1>3, <1>4, <1>5, <2>1, <3>1, <3>2
  <2>2. CASE k \in 1 .. Len(log)
    <3>1. PICK p \in Int : p = log[k].at
      BY <1>5, <1>6, <2>2
    <3>2. Passed(p)'
      BY <1>5, <1>9, <1>12, <2>2, <3>1
    <3> QED
      BY <1>5, <2>2, <3>1, <3>2
  <2> QED
    BY <1>5, <2>1, <2>2
<1>17. HitsPassed'
  <2> SUFFICES ASSUME search_pc' = "scan", NEW p \in Hits, Passed(p)'
               PROVE  p \in Reported \cup {q}
    BY <1>1, <1>7, <1>10 DEF HitsPassed
  <2>1. p \in Int
    BY <1>2 DEF Hits
  <2>2. CASE Passed(p)
    BY <1>9, <2>2
  <2>3. CASE ~Passed(p)
    <3>1. p = fpos + ofs
      BY <1>12, <2>1, <2>3
    <3>2. Real
      BY <1>9, <2>3 DEF Passed
    <3> QED
      BY <1>3, <3>1, <3>2
  <2> QED
    BY <2>2, <2>3
<1>18. NotStopped'
  BY <1>1, <1>7 DEF NotStopped
<1>19. InOrder'
  <2> SUFFICES ASSUME ~Backward, NEW k \in 1 .. n, NEW l \in 1 .. n, k < l
               PROVE  log'[k].at < log'[l].at
    BY <1>5, <1>7 DEF InOrder
  <2>1. CASE l = n
    <3>1. k \in 1 .. Len(log) /\ ~Wrapped /\ Real
      BY <1>5, <1>9, <2>1 DEF Wrapped
    <3>2. log[k].at \in Int /\ Passed(log[k].at)
      BY <1>5, <1>6, <1>9, <3>1
    <3>3. log[k].at < fpos + ofs
      <4>1. PICK p \in Int : p = log[k].at
        BY <3>2
      <4>2. p < fpos \/ (fpos <= p /\ p < fpos + ofs)
        BY <3>1, <3>2, <4>1 DEF Passed
      <4> QED
        BY <1>2, <4>1, <4>2
    <3> QED
      BY <1>3, <1>4, <1>5, <2>1, <3>1, <3>3
  <2>2. CASE l \in 1 .. Len(log)
    <3>1. k \in 1 .. Len(log)
      BY <1>5, <2>2
    <3> QED
      BY <1>1, <1>5, <2>2, <3>1 DEF SearchInv, InOrder
  <2> QED
    BY <1>5, <2>1, <2>2
<1>20. \A p : Seen(p)' <=> Seen(p)
  BY <1>1, SamePlace
<1>21. ASSUME Seen(q)
       PROVE  /\ Real /\ q = fpos + ofs /\ q \in Hits /\ ~r.garbled
              /\ \A k \in 1 .. Len(log) : log[k].at # q
  <2>1. Real /\ ~Wrapped /\ q = fpos + ofs
    BY <1>3, <1>9, <1>21
  <2>2. /\ HitAt(q) /\ At(ofs)[1] = device[q + 1] /\ q \in 0 .. Len(device) - 1
    BY <1>1, <1>21, <2>1, LooksAtDevice
  <2>3. q \in Hits
    BY <1>21, <2>2 DEF Hits
  <2>4. device[q + 1] \in Cells
    BY <1>2, <2>2
  <2>5. ~r.garbled
    BY <2>2, <2>4, SearchAssumption DEF r
  <2>6. \A k \in 1 .. Len(log) : log[k].at # q
    BY <1>5, <1>6, <1>9, <1>11, <2>1
  <2> QED
    BY <2>1, <2>3, <2>5, <2>6
<1>22. ReportsRight'
  <2> SUFFICES ASSUME NEW k \in 1 .. n, Seen(log'[k].at)
               PROVE  /\ log'[k].at \in Hits
                      /\ ~log'[k].garbled
                      /\ \A l \in 1 .. n : log'[l].at = log'[k].at => l = k
    <3>1. \A k \in DOMAIN log' : Seen(log[k].at)' => Seen(log'[k].at)
      <4>1. TAKE k \in DOMAIN log'
      <4>2. PICK p : p = log'[k].at
        OBVIOUS
      <4>3. Seen(p)' <=> Seen(p)
        BY <1>20
      <4> QED
        BY <4>2, <4>3
    <3> QED
      BY <1>5, <1>7, <3>1 DEF ReportsRight
  <2>1. CASE k = n
    <3>1. log'[k] = r /\ log'[k].at = q
      BY <1>4, <1>5, <2>1
    <3>2. ASSUME NEW l \in 1 .. n, log'[l].at = q PROVE l = n
      <4>1. Seen(q)
        BY <3>1
      <4>2. l \notin 1 .. Len(log)
        BY <1>5, <1>21, <3>2, <4>1
      <4> QED
        BY <1>5, <4>2
    <3> QED
      BY <1>21, <2>1, <3>1, <3>2
  <2>2. CASE k \in 1 .. Len(log)
    <3>1. log'[k] = log[k]
      BY <1>5, <2>2
    <3>2. /\ log[k].at \in Hits /\ ~log[k].garbled
          /\ \A l \in 1 .. Len(log) : log[l].at = log[k].at => l = k
      BY <1>1, <1>5, <2>2, <3>1 DEF SearchInv, ReportsRight
    <3>3. ASSUME NEW l \in 1 .. n, log'[l].at = log[k].at PROVE l = k
      <4>1. CASE l = n
        <5>1. log[k].at = q
          BY <1>4, <1>5, <3>3, <4>1
        <5> QED
          BY <1>21, <2>2, <3>1, <5>1
      <4>2. CASE l \in 1 .. Len(log)
        BY <1>5, <3>2, <3>3, <4>2
      <4> QED
        BY <1>5, <4>1, <4>2
    <3> QED
      BY <3>1, <3>2, <3>3
  <2> QED
    BY <1>5, <2>1, <2>2
<1>23. HitsReported'
  <2> SUFFICES ASSUME search_pc' = "done" PROVE HitsReported'
    BY DEF HitsReported
  <2>1. Stop /\ log = <<>> /\ n = 1 /\ Len(log') = 1 /\ log' # <<>> /\ log'[1].at = q
    <3>1. Stop
      BY <1>1
    <3>2. log = <<>>
      BY <1>9, <3>1
    <3>3. n = 1
      BY <3>2
    <3>4. Len(log') = 1 /\ log'[1] = r
      BY <1>5, <3>3
    <3>5. log' # <<>>
      <4>1. Len(<<>>) = 0
        OBVIOUS
      <4> QED
        BY <3>4, <4>1
    <3>6. r.at = q
      BY <1>4
    <3>7. log'[1].at = q
      BY <3>4, <3>6
    <3> QED
      BY <3>1, <3>2, <3>3, <3>4, <3>5, <3>7
  <2>2. \A p \in Hits : p \in Int /\ ~Passed(p)
    <3>1. Reported = {}
      BY <2>1 DEF Reported
    <3> QED
      BY <1>2, <1>9, <3>1 DEF Hits
  <2>3. ASSUME ~Backward, NEW p \in Hits PROVE q <= p
    <3>1. Real
      BY <1>9, <2>3 DEF Wrapped
    <3>2. ~(p < fpos) /\ ~(fpos <= p /\ p < fpos + ofs)
      BY <1>1, <2>2, <2>3 DEF Passed
    <3> QED
      BY <1>2, <1>3, <2>2, <3>1, <3>2
  <2>4. ASSUME Backward, Seen(q), NEW p \in Hits
        PROVE  Begin(p) <= Begin(q)
    <3>1. Real /\ q = fpos + ofs /\ p \in Int
      BY <1>21, <2>2, <2>4
    <3>2. Begin(q) = fpos
      <4>1. q \in fpos .. fpos + Step - 1
        <5>1. /\ fpos \in Nat /\ ofs \in Nat /\ ofs < Places /\ Places \in Nat
              /\ Step \in Nat /\ Places <= Step
          BY <1>1, <1>2
        <5>2. fpos + ofs \in fpos .. fpos + Step - 1
          BY <5>1
        <5> QED
          BY <3>1, <5>2
      <4> QED
        BY <1>1, <1>2, <3>1, <4>1, BeginAt DEF Real
    <3>3. ~(fpos + Step <= p) /\ ~(fpos <= p /\ p < fpos + ofs)
      BY <1>1, <2>2, <2>4 DEF Passed
    <3>4. CASE p < fpos
      <4>1. Begin(p) \in Int /\ Begin(p) <= p
        BY <1>1, <3>1, BeginBelow
      <4> QED
        BY <1>2, <3>1, <3>2, <3>4, <4>1
    <3>5. CASE fpos + ofs <= p /\ p < fpos + Step
      <4>1. p \in fpos .. fpos + Step - 1
        BY <1>2, <3>1, <3>5
      <4>2. Begin(p) = fpos
        BY <1>1, <1>2, <3>1, <4>1, BeginAt DEF Real
      <4> QED
        BY <1>2, <3>2, <4>2
    <3> QED
      BY <1>2, <3>1, <3>3, <3>4, <3>5
  <2>5. \A p : Begin(p)' = Begin(p)
    BY <1>1, SamePlace
  <2>6. Begin(log[1].at)' = Begin(q) /\ Seen(log[1].at)' = Seen(q)
    <3>1. PICK p : p = q
      OBVIOUS
    <3>2. Begin(p)' = Begin(p) /\ Seen(p)' = Seen(p)
      BY <1>20, <2>5
    <3> QED
      BY <2>1, <3>1, <3>2
  <2> QED
    BY <1>7, <1>19, <2>1, <2>3, <2>4, <2>5, <2>6 DEF HitsReported, Backward, InOrder
<1> QED
  BY <1>1, <1>5, <1>7, <1>13, <1>14, <1>15, <1>16, <1>17, <1>18, <1>19, <1>22, <1>23 DEF SearchInv

-----------------------------------------------------------------------------
LEMMA StepInv ==
  SearchInv /\ [SearchNext]_search_vars => SearchInv'
<1> SUFFICES ASSUME SearchInv, [SearchNext]_search_vars PROVE SearchInv'
  OBVIOUS
<1>1. CASE Read
  BY <1>1, ReadInv
<1>2. CASE ReadEnds
  BY <1>2, ReadEndsInv
<1>3. CASE Pass
  BY <1>3, PassInv
<1>4. CASE Report
  BY <1>4, ReportInv
<1>5. CASE Advance
  BY <1>5, AdvanceInv
<1>6. CASE UNCHANGED search_vars
  <2>1. /\ UNCHANGED input
        /\ search_pc' = search_pc /\ fpos' = fpos /\ search_buffer' = search_buffer /\ ofs' = ofs
        /\ log' = log
    BY <1>6 DEF search_vars, input
  <2>2. /\ Given' /\ ReportsRight' /\ InOrder'
        /\ log' \in Seq([at : 0 .. Modulus - 1, garbled : BOOLEAN])
        /\ Reported' = Reported /\ Hits' = Hits
    BY <2>1, SameLog
  <2>3. Real' = Real /\ Wrapped' = Wrapped
    BY <2>1, SameLies
  <2>4. /\ ReadSize' = ReadSize /\ Places' = Places /\ Backward' = Backward
        /\ Step' = Step
        /\ device' = device /\ bad_cells' = bad_cells /\ Stop' = Stop /\ Search' = Search
        /\ offset' = offset /\ command' = command
    BY <2>1, SameInput
  <2>5. \A p : Passed(p)' <=> Passed(p)
    BY <2>1, <2>3, <2>4 DEF Passed
  <2>6. SearchTypeOK' /\ Addressed' /\ Scans' /\ NotStopped' /\ HitsPassed'
    BY <2>1, <2>2, <2>3, <2>4, <2>5 DEF SearchInv, SearchTypeOK, Addressed, Scans, NotStopped,
        HitsPassed
  <2>7. BufferRight'
    BY <2>1, <2>3, <2>4 DEF SearchInv, BufferRight, ReadableCell
  <2>8. LogPassed'
    BY <2>1, <2>3, <2>4 DEF SearchInv, LogPassed, Passed
  <2>9. HitsReported'
    BY <2>1, <2>2, <2>4 DEF SearchInv, HitsReported, Seen, Begin, End, ReadableCell,
        Width, Backward
  <2> QED
    BY <2>2, <2>6, <2>7, <2>8, <2>9 DEF SearchInv
<1> QED
  BY <1>1, <1>2, <1>3, <1>4, <1>5, <1>6 DEF SearchNext

LEMMA Inductive ==
  SearchSpec => []SearchInv
<1> QED
  BY InitInv, StepInv, PTL DEF SearchSpec

(* Shape and bounds of the variables of the searches: fpos stays below the *)
(* modulus it wraps at, ofs in the buffer, and what is shown is an address.*)
THEOREM SearchTypeCorrect ==
  SearchSpec => []SearchTypeOK
<1>1. SearchInv => SearchTypeOK
  BY DEF SearchInv
<1> QED
  BY <1>1, Inductive, PTL

(* What ByteScan, VH_Scan and FindExtentsOverflowFile show of a place they *)
(* can see is a hit of the device, shown once and with its own numbers.    *)
THEOREM OnlyRightReports ==
  SearchSpec => []ReportsRight
<1>1. SearchInv => ReportsRight
  BY DEF SearchInv
<1> QED
  BY <1>1, Inductive, PTL

(* A search that is done has shown every hit it can see, or with --first   *)
(* one: the first hit of the device, or, backwards, a hit of the last      *)
(* buffer that has one.                                                    *)
THEOREM EveryHitReported ==
  SearchSpec => []HitsReported
<1>1. SearchInv => HitsReported
  BY DEF SearchInv
<1> QED
  BY <1>1, Inductive, PTL

-----------------------------------------------------------------------------
(***************************************************************************)
(* Decompress.                                                             *)
(***************************************************************************)
(***************************************************************************)
(* The inductive invariant of the decompression.                           *)
(***************************************************************************)
StartOf(i) == chunks[i].at

EndOf(i) == chunks[i].at + Len(chunks[i].stream)

(* The bytes taken, and the place of the next one.                         *)
Consumed == skipped + fork.size - bytes_left

Pos == fork.start + Consumed

Base == Pos - decompress_cache_offset

(* Everything taken so far could be read.                                  *)
CanRead == ReadableTo(Pos - 1)

Shape ==
  /\ fork \in Forks
  /\ decompress_cache \in [0 .. CacheSize - 1 -> Bytes]
  /\ buffer_in \in Seq(Bytes)

Phase ==
  /\ unpack_pc = "open" => skipped = 0 /\ decompress_cache_offset = 0
       /\ decompress_file_offset = fork.start
  /\ unpack_pc = "head" => skipped < HeadSize
  /\ unpack_pc \in {"open", "head"} => bytes_left = fork.size /\ c2 = NoByte
  /\ unpack_pc \in {"find", "blocks"} => skipped = HeadSize /\ bytes_left > 0
  /\ unpack_pc \in {"open", "head", "find"} => out = <<>> /\ buffer_in = <<>>
  /\ unpack_pc = "blocks" => Len(buffer_in) \in 2 .. BufferMax

(* The cache holds what the device does, from the offset on, and will be   *)
(* filled with what follows.                                               *)
Holds(base) ==
  /\ \A c \in decompress_cache_offset .. CacheSize - 1 : ReadableTo(base + c)
       => decompress_cache[c] = fork.device[base + c]
  /\ ReadableTo(base + CacheSize - 1) => decompress_file_offset = base + CacheSize

CacheHolds == Holds(Base)

BytesRight == unpack_pc \in {"head", "find", "blocks"} => CacheHolds

(* The byte before.                                                        *)
Before ==
  unpack_pc \in {"find", "blocks"} /\ CanRead =>
    c2 = IF Pos = FirstByte THEN NoByte ELSE fork.device[Pos - 1]

(* No marker has been passed in the search for the first block.            *)
Searched == unpack_pc = "find" /\ CanRead => \A m \in FirstByte .. Pos - 2 : ~MarkerAt(m)

(* Where the buffer begins.                                                *)
Begun == Pos - Len(buffer_in)

(* The buffer begins with the next chunk, and no marker has been read at   *)
(* which the whole chunk was in the buffer.                                *)
OnChunk ==
  /\ Len(out) < Len(chunks)
  /\ Begun = StartOf(Len(out) + 1)
  /\ \A m \in Begun + 1 .. Pos - 2 : MarkerAt(m) => m + 2 < EndOf(Len(out) + 1)

(* No stream begins where the buffer does: it is never inflated.           *)
Nowhere == \A s \in Streams : ~Lies(fork, s, Begun)

Collected ==
  unpack_pc = "blocks" /\ CanRead =>
    /\ Begun >= FirstByte
    /\ \A k \in 1 .. Len(buffer_in) : buffer_in[k] = fork.device[Begun + k - 1]
    /\ OnChunk \/ Nowhere

FirstOnes ==
  /\ Len(out) <= Len(chunks)
  /\ \A k \in 1 .. Len(out) : out[k] = chunks[k].stream

NoHole == (IF unpack_pc = "done" THEN ReadableTo(LastByte) ELSE CanRead) => FirstOnes

Written(i) == i <= Len(out) /\ out[i] = chunks[i].stream

(* Before a sound chunk is written, the buffer is with one of those in     *)
(* front of it.                                                            *)
Kept ==
  \A i \in DOMAIN chunks :
    Sound(i) =>
      /\ unpack_pc = "find" => CanRead
      /\ unpack_pc = "blocks" => Written(i) \/ (CanRead /\ OnChunk /\ Len(out) < i)
      /\ unpack_pc = "done" /\ skipped = HeadSize => restored /\ Written(i)

CopyInv ==
  /\ UnpackTypeOK /\ Shape /\ Phase /\ BytesRight /\ Before /\ Searched /\ Collected /\ NoHole
  /\ Kept

-----------------------------------------------------------------------------
(* Sequences and what lies in a device.                                    *)

LEMMA CopySizes ==
  /\ CacheSize \in Nat /\ CacheSize >= 1 /\ HeadSize \in Nat /\ HeadSize >= 1
  /\ BufferMax \in Nat /\ BufferMax > 1
  /\ Marker \in Seq(Bytes) /\ Len(Marker) = 2
  /\ Marker[1] \in Bytes /\ Marker[2] \in Bytes
  /\ NoByte # Marker[1] /\ NoByte # Marker[2]
BY SizesAssumption

LEMMA PrefixOf ==
  ASSUME NEW S, NEW s \in Seq(S), NEW t \in Seq(S)
  PROVE  IsPrefix(s, t) <=> Len(s) <= Len(t) /\ \A k \in 1 .. Len(s) : s[k] = t[k]
<1>1. CASE Len(s) <= Len(t)
  <2> DEFINE n == Len(s)  u == SubSeq(s, 1, n)  v == SubSeq(t, 1, n)
  <2>1. n \in Nat /\ Len(t) \in Nat /\ n <= Len(t)
    BY <1>1
  <2>2. /\ \A k \in 1 .. n : s[k] \in S
        /\ \A k \in 1 .. n : t[k] \in S
    BY <2>1
  <2> HIDE DEF n
  <2>3. u \in Seq(S) /\ Len(u) = n /\ \A k \in 1 .. n : u[k] = s[k]
    BY <2>1, <2>2, SubSeqProperties
  <2>4. v \in Seq(S) /\ Len(v) = n /\ \A k \in 1 .. n : v[k] = t[k]
    BY <2>1, <2>2, SubSeqProperties
  <2> HIDE DEF u, v
  <2>5. u = v <=> \A k \in 1 .. n : s[k] = t[k]
    <3>1. u = v => \A k \in 1 .. n : s[k] = t[k]
      BY <2>3, <2>4
    <3>2. (\A k \in 1 .. n : s[k] = t[k]) => \A k \in 1 .. Len(u) : u[k] = v[k]
      BY <2>3, <2>4
    <3>3. (\A k \in 1 .. Len(u) : u[k] = v[k]) => u = v
      BY <2>3, <2>4, SeqEqual
    <3> QED
      BY <3>1, <3>2, <3>3
  <2> QED
    BY <1>1, <2>5 DEF IsPrefix, n, u, v
<1>2. CASE ~(Len(s) <= Len(t))
  BY <1>2 DEF IsPrefix
<1> QED
  BY <1>1, <1>2

LEMMA StreamOf ==
  ASSUME NEW s \in Streams
  PROVE  /\ s \in Seq(Bytes) /\ Len(s) \in Nat /\ Len(s) > 2
         /\ s[1] = Marker[1] /\ s[2] = Marker[2]
<1>1. s \in Seq(Bytes) /\ Len(s) > 2 /\ IsPrefix(Marker, s)
  BY StreamsAssumption
<1>2. \A k \in 1 .. 2 : Marker[k] = s[k]
  <2>1. Marker \in Seq(Bytes) /\ Len(Marker) = 2 /\ s \in Seq(Bytes)
    BY <1>1, CopySizes
  <2>2. \A k \in 1 .. Len(Marker) : Marker[k] = s[k]
    <3>1. IsPrefix(Marker, s) <=>
            Len(Marker) <= Len(s) /\ \A k \in 1 .. Len(Marker) : Marker[k] = s[k]
      <4>1. Marker \in Seq(Bytes) /\ s \in Seq(Bytes)
        BY <2>1
      <4> QED
        BY <4>1, PrefixOf
    <3> QED
      BY <1>1, <3>1
  <2> QED
    BY <2>1, <2>2
<1> QED
  BY <1>1, <1>2

LEMMA LiesAt ==
  ASSUME NEW f \in Forks, NEW s \in Seq(Bytes), NEW a \in Nat \ {0}
  PROVE  Lies(f, s, a) <=> /\ a + Len(s) - 1 <= Len(f.device)
                           /\ \A k \in 1 .. Len(s) : s[k] = f.device[a + k - 1]
<1>1. f.device \in Seq(Bytes)
  BY ForksAssumption DEF Fork
<1> DEFINE b == a + Len(s) - 1
<1>2. CASE b <= Len(f.device)
  <2>1. /\ a \in Int /\ b \in Int /\ Len(s) \in Nat /\ Len(f.device) \in Nat
        /\ \A i \in a .. b : f.device[i] \in Bytes
    BY <1>1, <1>2
  <2> DEFINE u == SubSeq(f.device, a, b)
  <2>2. /\ u \in Seq(Bytes) /\ Len(u) = IF a <= b THEN b - a + 1 ELSE 0
        /\ \A i \in 1 .. b - a + 1 : u[i] = f.device[a + i - 1]
    <3> HIDE DEF b
    <3> QED
      BY <2>1, SubSeqProperties
  <2> HIDE DEF u
  <2>3. Len(u) = Len(s)
    BY <2>1, <2>2
  <2>4. u = s <=> \A k \in 1 .. Len(s) : s[k] = u[k]
    <3>1. u = s => \A k \in 1 .. Len(s) : s[k] = u[k]
      OBVIOUS
    <3>2. (\A k \in 1 .. Len(s) : s[k] = u[k]) => \A k \in 1 .. Len(u) : u[k] = s[k]
      BY <2>3
    <3>3. (\A k \in 1 .. Len(u) : u[k] = s[k]) => u = s
      BY <2>2, <2>3, SeqEqual
    <3> QED
      BY <3>1, <3>2, <3>3
  <2>5. \A k \in 1 .. Len(s) : u[k] = f.device[a + k - 1]
    BY <2>1, <2>2
  <2> QED
    BY <1>2, <2>4, <2>5 DEF Lies, u
<1>3. CASE ~(b <= Len(f.device))
  BY <1>3 DEF Lies
<1> QED
  BY <1>2, <1>3

(* One stream at most begins at a place.                                   *)
LEMMA OneStream ==
  ASSUME NEW f \in Forks, NEW s \in Streams, NEW t \in Streams, NEW a \in Nat \ {0},
         Lies(f, s, a), Lies(f, t, a)
  PROVE  s = t
<1>1. s \in Seq(Bytes) /\ t \in Seq(Bytes) /\ Len(s) \in Nat /\ Len(t) \in Nat
  BY StreamOf
<1>2. /\ \A k \in 1 .. Len(s) : s[k] = f.device[a + k - 1]
      /\ \A k \in 1 .. Len(t) : t[k] = f.device[a + k - 1]
  BY <1>1, LiesAt
<1>3. CASE Len(s) <= Len(t)
  <2>1. IsPrefix(s, t)
    BY <1>1, <1>2, <1>3, PrefixOf
  <2> QED
    BY <2>1, StreamsAssumption
<1>4. CASE Len(t) <= Len(s)
  <2>1. IsPrefix(t, s)
    BY <1>1, <1>2, <1>4, PrefixOf
  <2> QED
    BY <2>1, StreamsAssumption
<1> QED
  BY <1>1, <1>3, <1>4

(* What can be inflated of bytes of the device is what lies there.         *)
LEMMA InflatesWhatLies ==
  ASSUME NEW f \in Forks, NEW s \in Streams, NEW a \in Nat \ {0}, NEW b \in Seq(Bytes),
         a + Len(b) - 1 <= Len(f.device),
         \A k \in 1 .. Len(b) : b[k] = f.device[a + k - 1]
  PROVE  IsPrefix(s, b) <=> Lies(f, s, a) /\ Len(s) <= Len(b)
<1>1. s \in Seq(Bytes) /\ Len(s) \in Nat /\ Len(b) \in Nat
  BY StreamOf
<1>2. Len(f.device) \in Nat
  BY ForksAssumption DEF Fork
<1>3. IsPrefix(s, b) <=> Len(s) <= Len(b) /\ \A k \in 1 .. Len(s) : s[k] = b[k]
  BY <1>1, PrefixOf
<1>4. Lies(f, s, a) <=> /\ a + Len(s) - 1 <= Len(f.device)
                        /\ \A k \in 1 .. Len(s) : s[k] = f.device[a + k - 1]
  BY <1>1, LiesAt
<1>5. Len(s) <= Len(b) => /\ a + Len(s) - 1 <= Len(f.device)
                          /\ \A k \in 1 .. Len(s) : b[k] = f.device[a + k - 1]
  BY <1>1, <1>2
<1> QED
  BY <1>3, <1>4, <1>5

LEMMA ForkOf ==
  ASSUME fork \in Forks
  PROVE  /\ fork.start \in Nat \ {0} /\ fork.size \in Nat \ {0}
         /\ fork.device \in Seq(Bytes) /\ Len(fork.device) \in Nat
         /\ fork.cache \in [0 .. CacheSize - 1 -> Bytes]
         /\ fork.bad \subseteq DOMAIN fork.device
         /\ chunks \in Seq([at : Nat, stream : Streams]) /\ Len(chunks) \in Nat
         /\ DOMAIN chunks = 1 .. Len(chunks)
         /\ FirstByte \in Nat /\ FirstByte = fork.start + HeadSize
         /\ LastByte \in Nat /\ LastByte = FirstByte + fork.size - 1
<1>1. Fork(fork)
  BY ForksAssumption
<1>2. /\ fork.start \in Nat \ {0} /\ fork.size \in Nat \ {0}
      /\ fork.device \in Seq(Bytes)
      /\ fork.cache \in [0 .. CacheSize - 1 -> Bytes]
      /\ fork.bad \subseteq DOMAIN fork.device
      /\ chunks \in Seq([at : Nat, stream : Streams])
  BY <1>1 DEF Fork, chunks
<1>3. Len(fork.device) \in Nat /\ Len(chunks) \in Nat /\ DOMAIN chunks = 1 .. Len(chunks)
  BY <1>2
<1>4. HeadSize \in Nat
  BY CopySizes
<1>5. /\ FirstByte \in Nat /\ FirstByte = fork.start + HeadSize
      /\ LastByte \in Nat /\ LastByte = FirstByte + fork.size - 1
  BY <1>2, <1>4 DEF FirstByte, LastByte
<1> QED
  BY <1>2, <1>3, <1>5

LEMMA MarkerIs ==
  ASSUME fork \in Forks, NEW a \in Nat \ {0}
  PROVE  MarkerAt(a) <=> /\ a < Len(fork.device)
                         /\ fork.device[a] = Marker[1] /\ fork.device[a + 1] = Marker[2]
<1>1. fork.device \in Seq(Bytes) /\ Len(fork.device) \in Nat
  BY ForkOf
<1>2. CASE a < Len(fork.device)
  <2>1. \A i \in a .. a + 1 : fork.device[i] \in Bytes
    BY <1>1, <1>2
  <2> DEFINE b == a + 1  u == SubSeq(fork.device, a, b)
  <2>2. a \in Int /\ b \in Int /\ a <= b /\ b - a + 1 = 2
    OBVIOUS
  <2>3. \A i \in a .. b : fork.device[i] \in Bytes
    BY <2>1
  <2> HIDE DEF b
  <2>4. u \in Seq(Bytes) /\ Len(u) = 2 /\ \A i \in 1 .. 2 : u[i] = fork.device[a + i - 1]
    BY <2>2, <2>3, SubSeqProperties
  <2>5. u[1] = fork.device[a] /\ u[2] = fork.device[a + 1]
    <3>1. a + 1 - 1 = a /\ a + 2 - 1 = a + 1
      OBVIOUS
    <3> QED
      BY <2>4, <3>1
  <2> HIDE DEF u
  <2>6. u = Marker <=> u[1] = Marker[1] /\ u[2] = Marker[2]
    <3>1. Marker \in Seq(Bytes) /\ Len(Marker) = 2
      BY CopySizes
    <3>2. u = Marker => u[1] = Marker[1] /\ u[2] = Marker[2]
      OBVIOUS
    <3>3. u[1] = Marker[1] /\ u[2] = Marker[2] => \A k \in 1 .. Len(u) : u[k] = Marker[k]
      BY <2>4
    <3>4. (\A k \in 1 .. Len(u) : u[k] = Marker[k]) => u = Marker
      BY <2>4, <3>1, SeqEqual
    <3> QED
      BY <3>2, <3>3, <3>4
  <2> QED
    BY <1>2, <2>5, <2>6 DEF MarkerAt, u, b
<1>3. CASE ~(a < Len(fork.device))
  BY <1>3 DEF MarkerAt
<1> QED
  BY <1>2, <1>3

LEMMA StreamBeginsWithMarker ==
  ASSUME fork \in Forks, NEW s \in Streams, NEW a \in Nat \ {0}, Lies(fork, s, a)
  PROVE  MarkerAt(a) /\ a + Len(s) - 1 <= Len(fork.device)
<1>1. s \in Seq(Bytes) /\ Len(s) \in Nat /\ Len(s) > 2 /\ s[1] = Marker[1] /\ s[2] = Marker[2]
  BY StreamOf
<1>2. /\ a + Len(s) - 1 <= Len(fork.device)
      /\ \A k \in 1 .. Len(s) : s[k] = fork.device[a + k - 1]
  BY <1>1, LiesAt
<1>3. s[1] = fork.device[a] /\ s[2] = fork.device[a + 1]
  <2>1. s[1] = fork.device[a + 1 - 1] /\ s[2] = fork.device[a + 2 - 1]
    BY <1>1, <1>2
  <2>2. a + 1 - 1 = a /\ a + 2 - 1 = a + 1
    OBVIOUS
  <2> QED
    BY <2>1, <2>2
<1>4. Len(fork.device) \in Nat
  BY ForkOf
<1>5. a < Len(fork.device)
  BY <1>1, <1>2, <1>4
<1>6. fork.device[a] = Marker[1] /\ fork.device[a + 1] = Marker[2]
  BY <1>1, <1>3
<1>7. MarkerAt(a)
  BY <1>5, <1>6, MarkerIs
<1> QED
  BY <1>2, <1>7

-----------------------------------------------------------------------------
(* The chunks of a fork.                                                   *)

LEMMA ChunkIs ==
  ASSUME fork \in Forks, NEW i \in DOMAIN chunks
  PROVE  /\ chunks[i].stream \in Streams /\ StartOf(i) \in Nat
         /\ Len(chunks[i].stream) \in Nat /\ Len(chunks[i].stream) > 2
         /\ EndOf(i) \in Nat /\ EndOf(i) = StartOf(i) + Len(chunks[i].stream)
         /\ Lies(fork, chunks[i].stream, StartOf(i))
         /\ i = 1 => StartOf(i) >= FirstByte
         /\ i > 1 => i - 1 \in DOMAIN chunks /\ StartOf(i) >= EndOf(i - 1)
<1>1. chunks \in Seq([at : Nat, stream : Streams]) /\ DOMAIN chunks = 1 .. Len(chunks)
  BY ForkOf
<1>2. chunks[i] \in [at : Nat, stream : Streams]
  <2> DEFINE R == [at : Nat, stream : Streams]
  <2>1. chunks \in Seq(R) /\ i \in 1 .. Len(chunks)
    BY <1>1
  <2> HIDE DEF R
  <2>2. chunks[i] \in R
    BY <2>1
  <2> QED
    BY <2>2 DEF R
<1>3. chunks[i].stream \in Streams /\ StartOf(i) \in Nat
  BY <1>2 DEF StartOf
<1>4. Len(chunks[i].stream) \in Nat /\ Len(chunks[i].stream) > 2
  BY <1>3, StreamOf
<1>5. EndOf(i) = StartOf(i) + Len(chunks[i].stream)
  BY DEF StartOf, EndOf
<1>6. Fork(fork)
  BY ForksAssumption
<1>7. /\ Lies(fork, chunks[i].stream, StartOf(i))
      /\ StartOf(i) >= IF i = 1 THEN FirstByte ELSE EndOf(i - 1)
  BY <1>6 DEF Fork, StartOf, EndOf, FirstByte, chunks
<1>8. i > 1 => i - 1 \in DOMAIN chunks /\ StartOf(i) >= EndOf(i - 1)
  BY <1>1, <1>7
<1> QED
  BY <1>3, <1>4, <1>5, <1>7, <1>8

LEMMA ChunksInOrder ==
  ASSUME fork \in Forks, NEW i \in DOMAIN chunks, NEW j \in DOMAIN chunks, i < j
  PROVE  EndOf(i) <= StartOf(j)
<1> DEFINE S == { k \in DOMAIN chunks : i < k /\ ~(EndOf(i) <= StartOf(k)) }
<1>1. DOMAIN chunks \subseteq Nat
  BY ForkOf
<1>2. ASSUME S # {} PROVE FALSE
  <2>1. PICK k \in S : \A n \in S : k <= n
    <3>1. S \subseteq Nat
      BY <1>1
    <3> HIDE DEF S
    <3> QED
      BY <1>2, <3>1, SmallestOf
  <2>2. k \in DOMAIN chunks /\ i < k /\ k \in Nat /\ i \in Nat /\ k > 1
    BY <1>1, <2>1, ForkOf
  <2>3. k - 1 \in DOMAIN chunks /\ StartOf(k) >= EndOf(k - 1) /\ StartOf(k) \in Nat
    BY <2>2, ChunkIs
  <2>4. CASE i = k - 1
    BY <2>1, <2>2, <2>3, <2>4, ChunkIs
  <2>5. CASE i < k - 1
    <3>1. k - 1 \notin S
      BY <2>1, <2>2
    <3>2. EndOf(i) <= StartOf(k - 1)
      BY <2>3, <2>5, <3>1
    <3>3. EndOf(k - 1) > StartOf(k - 1) /\ EndOf(k - 1) \in Nat /\ StartOf(k - 1) \in Nat
        /\ EndOf(i) \in Nat
      <4>1. PICK n \in DOMAIN chunks : n = k - 1
        BY <2>3
      <4>2. /\ StartOf(n) \in Nat /\ EndOf(n) \in Nat
            /\ EndOf(n) = StartOf(n) + Len(chunks[n].stream)
            /\ Len(chunks[n].stream) \in Nat /\ Len(chunks[n].stream) > 2
        BY ChunkIs
      <4>3. EndOf(i) \in Nat
        BY ChunkIs
      <4> QED
        BY <4>1, <4>2, <4>3
    <3> QED
      BY <2>1, <2>3, <3>2, <3>3
  <2> QED
    BY <2>2, <2>4, <2>5
<1> QED
  BY <1>2

LEMMA ChunkBehindHead ==
  ASSUME fork \in Forks, NEW i \in DOMAIN chunks
  PROVE  StartOf(i) >= FirstByte /\ StartOf(i) \in Nat \ {0} /\ MarkerAt(StartOf(i))
<1>1. /\ FirstByte \in Nat /\ FirstByte >= 1 /\ i \in Nat /\ i >= 1
      /\ DOMAIN chunks = 1 .. Len(chunks) /\ Len(chunks) \in Nat
  <2>1. /\ DOMAIN chunks = 1 .. Len(chunks) /\ Len(chunks) \in Nat
        /\ fork.start \in Nat \ {0} /\ FirstByte \in Nat /\ FirstByte = fork.start + HeadSize
    BY ForkOf
  <2>2. FirstByte >= 1
    BY <2>1, CopySizes
  <2>3. i \in Nat /\ i >= 1
    BY <2>1
  <2> QED
    BY <2>1, <2>2, <2>3
<1>2. /\ chunks[i].stream \in Streams /\ StartOf(i) \in Nat
      /\ Lies(fork, chunks[i].stream, StartOf(i)) /\ (i = 1 => StartOf(i) >= FirstByte)
  BY ChunkIs
<1>3. StartOf(i) >= FirstByte
  <2>1. CASE i > 1
    <3>1. 1 \in DOMAIN chunks
      BY <1>1
    <3>2. StartOf(1) >= FirstByte /\ StartOf(1) \in Nat /\ EndOf(1) \in Nat /\ EndOf(1) > StartOf(1)
      BY <3>1, ChunkIs
    <3>3. EndOf(1) <= StartOf(i)
      BY <2>1, <3>1, ChunksInOrder
    <3> QED
      BY <1>1, <1>2, <3>2, <3>3
  <2> QED
    BY <1>1, <1>2, <2>1
<1>4. MarkerAt(StartOf(i))
  BY <1>1, <1>2, <1>3, StreamBeginsWithMarker
<1> QED
  BY <1>1, <1>2, <1>3, <1>4

(* A stream that is not a chunk lies inside of one, in front of its end.   *)
LEMMA StreamsAreChunks ==
  ASSUME fork \in Forks, NEW a \in Nat, a >= FirstByte, NEW s \in Streams, Lies(fork, s, a)
  PROVE  \E i \in DOMAIN chunks : StartOf(i) = a \/ (StartOf(i) < a /\ a + 2 < EndOf(i))
<1>1. Fork(fork) /\ FirstByte \in Nat /\ FirstByte >= 1 /\ Len(fork.device) \in Nat
  BY ForkOf, CopySizes, ForksAssumption
<1>2. Len(s) \in Nat /\ Len(s) > 2 /\ a + Len(s) - 1 <= Len(fork.device)
  BY <1>1, StreamOf, StreamBeginsWithMarker
<1>3. a \in FirstByte .. Len(fork.device)
  BY <1>1, <1>2
<1> QED
  BY <1>1, <1>3 DEF Fork, FirstByte, StartOf, EndOf, chunks

-----------------------------------------------------------------------------
(* Sound chunks.                                                           *)

LEMMA SoundIs ==
  ASSUME fork \in Forks, NEW i \in DOMAIN chunks, Sound(i)
  PROVE  /\ Inflated(i) \in Nat /\ ReadableTo(Inflated(i))
         /\ EndOf(i) - 1 <= LastByte
         /\ \A a \in Behind(i) .. StartOf(i) - 1 : ~MarkerAt(a)
         /\ Behind(i) = IF i = 1 THEN FirstByte ELSE EndOf(i - 1) - 2
         /\ Inflated(i) - StartOf(i) + 1 <= BufferMax
         /\ StartOf(i) + 2 <= Inflated(i) /\ Inflated(i) <= LastByte
         /\ Inflated(i) = LastByte
            \/ (i + 1 \in DOMAIN chunks /\ Inflated(i) = StartOf(i + 1) + 1)
<1>1. /\ DOMAIN chunks = 1 .. Len(chunks) /\ Len(chunks) \in Nat
      /\ LastByte \in Nat /\ i \in Nat
  BY ForkOf
<1>2. /\ StartOf(i) \in Nat /\ Len(chunks[i].stream) \in Nat /\ Len(chunks[i].stream) > 2
      /\ EndOf(i) = StartOf(i) + Len(chunks[i].stream)
  BY ChunkIs
<1>3. i \in 1 .. i
  BY <1>1
<1>4. /\ EndOf(i) - 1 <= LastByte
      /\ \A a \in Behind(i) .. StartOf(i) - 1 : ~MarkerAt(a)
      /\ Inflated(i) - StartOf(i) + 1 <= BufferMax
  <2>1. \A j \in 1 .. i :
          /\ chunks[j].at + Len(chunks[j].stream) - 1 <= LastByte
          /\ \A a \in Behind(j) .. chunks[j].at - 1 : ~MarkerAt(a)
          /\ Inflated(j) - chunks[j].at + 1 <= BufferMax
    BY DEF Sound
  <2>2. /\ chunks[i].at + Len(chunks[i].stream) - 1 <= LastByte
        /\ \A a \in Behind(i) .. chunks[i].at - 1 : ~MarkerAt(a)
        /\ Inflated(i) - chunks[i].at + 1 <= BufferMax
    BY <1>3, <2>1
  <2> QED
    <3>1. StartOf(i) = chunks[i].at /\ EndOf(i) = chunks[i].at + Len(chunks[i].stream)
      BY DEF StartOf, EndOf
    <3> QED
      BY <1>2, <2>2, <3>1
<1>5. ReadableTo(Inflated(i))
  BY DEF Sound
<1>6. Behind(i) = IF i = 1 THEN FirstByte ELSE EndOf(i - 1) - 2
  <2>1. CASE i = 1
    BY <2>1 DEF Behind
  <2>2. CASE i # 1
    <3>1. EndOf(i - 1) = chunks[i - 1].at + Len(chunks[i - 1].stream) /\ EndOf(i - 1) \in Nat
      <4>1. i - 1 \in DOMAIN chunks
        BY <1>1, <2>2
      <4>2. EndOf(i - 1) \in Nat
        BY <4>1, ChunkIs
      <4> QED
        BY <4>2 DEF EndOf
    <3>2. /\ StartOf(i - 1) \in Nat /\ StartOf(i - 1) = chunks[i - 1].at
          /\ Len(chunks[i - 1].stream) \in Nat
      <4>1. i - 1 \in DOMAIN chunks
        BY <1>1, <2>2
      <4>2. StartOf(i - 1) \in Nat /\ Len(chunks[i - 1].stream) \in Nat
        BY <4>1, ChunkIs
      <4> QED
        BY <4>2 DEF StartOf
    <3> QED
      BY <2>2, <3>1, <3>2 DEF Behind
  <2> QED
    BY <2>1, <2>2
<1>7. CASE i < Len(chunks) /\ StartOf(i + 1) + 1 <= LastByte
  <2>1. Inflated(i) = StartOf(i + 1) + 1
    BY <1>7 DEF Inflated, StartOf
  <2>2. i + 1 \in DOMAIN chunks
    BY <1>1, <1>7
  <2>3. StartOf(i + 1) \in Nat /\ EndOf(i) <= StartOf(i + 1)
    BY <1>1, <2>2, ChunkIs, ChunksInOrder
  <2> QED
    BY <1>2, <1>4, <1>5, <1>6, <1>7, <2>1, <2>2, <2>3
<1>8. CASE ~(i < Len(chunks) /\ StartOf(i + 1) + 1 <= LastByte)
  <2>1. Inflated(i) = LastByte
    BY <1>8 DEF Inflated, StartOf
  <2> QED
    BY <1>1, <1>2, <1>4, <1>5, <1>6, <2>1
<1> QED
  BY <1>7, <1>8

LEMMA SoundBefore ==
  ASSUME fork \in Forks, NEW i \in DOMAIN chunks, Sound(i),
         NEW k \in DOMAIN chunks, k < i
  PROVE  /\ Sound(k) /\ Inflated(k) <= Inflated(i)
         /\ k + 1 \in DOMAIN chunks /\ Inflated(k) = StartOf(k + 1) + 1
         /\ StartOf(k + 1) + 2 <= LastByte
<1>1. /\ DOMAIN chunks = 1 .. Len(chunks) /\ Len(chunks) \in Nat
      /\ LastByte \in Nat
      /\ i \in Nat /\ k \in Nat /\ k + 1 \in DOMAIN chunks /\ k < Len(chunks)
      /\ fork.start \in Nat
  <2>1. /\ DOMAIN chunks = 1 .. Len(chunks) /\ Len(chunks) \in Nat
        /\ LastByte \in Nat
        /\ fork.start \in Nat
    BY ForkOf
  <2> QED
    BY <2>1
<1>2. StartOf(k + 1) + 2 <= LastByte
  <2>1. k + 1 \in 1 .. i
    BY <1>1
  <2>2. StartOf(k + 1) + Len(chunks[k + 1].stream) - 1 <= LastByte
    BY <2>1 DEF Sound, StartOf
  <2>3. StartOf(k + 1) \in Nat /\ Len(chunks[k + 1].stream) > 2 /\ Len(chunks[k + 1].stream) \in Nat
    BY <1>1, ChunkIs
  <2> QED
    BY <1>1, <2>2, <2>3
<1>3. StartOf(k + 1) \in Nat /\ StartOf(i) \in Nat /\ StartOf(k + 1) <= StartOf(i)
  <2>1. CASE k + 1 < i
    <3>1. EndOf(k + 1) <= StartOf(i)
      BY <1>1, <2>1, ChunksInOrder
    <3>2. EndOf(k + 1) \in Nat /\ StartOf(k + 1) \in Nat /\ StartOf(i) \in Nat
        /\ StartOf(k + 1) < EndOf(k + 1)
      <4>1. PICK n \in DOMAIN chunks : n = k + 1
        BY <1>1
      <4>2. /\ StartOf(n) \in Nat /\ EndOf(n) \in Nat
            /\ EndOf(n) = StartOf(n) + Len(chunks[n].stream)
            /\ Len(chunks[n].stream) \in Nat /\ Len(chunks[n].stream) > 2
        BY ChunkIs
      <4>3. StartOf(i) \in Nat
        BY ChunkIs
      <4>4. StartOf(n) < EndOf(n)
        BY <4>2
      <4> QED
        BY <4>1, <4>2, <4>3, <4>4
    <3> QED
      BY <3>1, <3>2
  <2>2. CASE k + 1 = i
    BY <1>1, <2>2, ChunkIs
  <2> QED
    BY <1>1, <2>1, <2>2
<1>4. Inflated(k) = StartOf(k + 1) + 1
  BY <1>1, <1>2, <1>3 DEF Inflated, StartOf
<1>5. Inflated(i) \in Nat /\ StartOf(i) + 2 <= Inflated(i) /\ ReadableTo(Inflated(i))
  BY SoundIs
<1>6. Inflated(k) <= Inflated(i)
  BY <1>3, <1>4, <1>5
<1>7. ReadableTo(Inflated(k))
  BY <1>1, <1>3, <1>4, <1>5, <1>6 DEF ReadableTo
<1>8. Sound(k)
  <2>1. \A j \in 1 .. k : j \in 1 .. i
    BY <1>1
  <2> QED
    BY <1>7, <2>1 DEF Sound
<1> QED
  BY <1>1, <1>2, <1>4, <1>6, <1>8

-----------------------------------------------------------------------------
(* The cache.                                                              *)

LEMMA BytesRead ==
  ASSUME fork \in Forks, NEW at \in Int
  PROVE  /\ PReadBytes(at) \in -1 .. CacheSize
         /\ PReadBytes(at) > 0 => at + PReadBytes(at) - 1 \in DOMAIN fork.device
         /\ PReadBytes(at) > 0 => at \in DOMAIN fork.device
         /\ \A c \in 0 .. CacheSize - 1 :
              (\A a \in at .. at + c : ReadableByte(fork, a)) => c < PReadBytes(at)
<1>1. /\ Len(fork.device) \in Nat /\ DOMAIN fork.device = 1 .. Len(fork.device)
      /\ CacheSize \in Nat /\ CacheSize >= 1
  BY ForkOf, CopySizes
<1>2. \A a : ReadableByte(fork, a) => a \in DOMAIN fork.device
  BY DEF ReadableByte
<1>3. CASE at > Len(fork.device)
  <2>1. PReadBytes(at) = 0 /\ ~ReadableByte(fork, at)
    BY <1>1, <1>2, <1>3 DEF PReadBytes
  <2>2. \A c \in 0 .. CacheSize - 1 : at \in at .. at + c
    BY <1>1
  <2> QED
    BY <1>1, <2>1, <2>2
<1>4. CASE ~(at > Len(fork.device)) /\ ~ReadableByte(fork, at)
  <2>1. PReadBytes(at) = -1
    BY <1>1, <1>4 DEF PReadBytes, Failed
  <2>2. \A c \in 0 .. CacheSize - 1 : at \in at .. at + c
    BY <1>1
  <2> QED
    BY <1>1, <1>4, <2>1, <2>2
<1>5. CASE ~(at > Len(fork.device)) /\ ReadableByte(fork, at)
  <2> DEFINE Till(n) == /\ \A a \in at .. at + n - 1 : ReadableByte(fork, a)
                        /\ n < CacheSize => ~ReadableByte(fork, at + n)
             S == { n \in 1 .. CacheSize : n = CacheSize \/ ~ReadableByte(fork, at + n) }
  <2>1. PICK m \in S : \A n \in S : m <= n
    <3>1. S \subseteq Nat /\ CacheSize \in S
      BY <1>1
    <3> HIDE DEF S
    <3> QED
      BY <3>1, SmallestOf
  <2>2. m \in 1 .. CacheSize /\ m \in Nat
    BY <1>1, <2>1
  <2>3. \A a \in at .. at + m - 1 : ReadableByte(fork, a)
    <3> SUFFICES ASSUME NEW a \in at .. at + m - 1 PROVE ReadableByte(fork, a)
      OBVIOUS
    <3>1. CASE a = at
      BY <1>5, <3>1
    <3>2. CASE a # at
      <4>1. a - at \in 1 .. CacheSize /\ a - at < m /\ at + (a - at) = a
        BY <1>1, <2>2, <3>2
      <4>2. a - at \notin S
        BY <2>1, <2>2, <4>1
      <4> QED
        BY <4>1, <4>2
    <3> QED
      BY <3>1, <3>2
  <2>4. Till(m)
    <3>1. m < CacheSize => ~ReadableByte(fork, at + m)
      BY <1>1, <2>1, <2>2
    <3> QED
      BY <2>3, <3>1
  <2>5. PReadBytes(at) = CHOOSE n \in 1 .. CacheSize : Till(n)
    BY <1>5 DEF PReadBytes
  <2> HIDE DEF Till
  <2>6. PReadBytes(at) \in 1 .. CacheSize /\ Till(PReadBytes(at))
    BY <2>2, <2>4, <2>5
  <2>7. PICK n \in 1 .. CacheSize : n = PReadBytes(at)
    BY <2>6
  <2>8. /\ \A a \in at .. at + n - 1 : ReadableByte(fork, a)
        /\ n < CacheSize => ~ReadableByte(fork, at + n)
    BY <2>6, <2>7 DEF Till
  <2>9. at + n - 1 \in DOMAIN fork.device
    <3>1. at + n - 1 \in at .. at + n - 1
      BY <1>1
    <3> QED
      BY <1>2, <2>8, <3>1
  <2>10. ASSUME NEW c \in 0 .. CacheSize - 1, \A a \in at .. at + c : ReadableByte(fork, a)
         PROVE  c < n
    <3>1. CASE n < CacheSize
      <4>1. at + n \notin at .. at + c
        BY <2>8, <2>10, <3>1
      <4> QED
        BY <1>1, <4>1
    <3>2. CASE n = CacheSize
      BY <1>1, <3>2
    <3> QED
      BY <1>1, <3>1, <3>2
  <2>11. at \in DOMAIN fork.device /\ n \in -1 .. CacheSize
    BY <1>1, <1>2, <1>5
  <2> QED
    BY <2>7, <2>9, <2>10, <2>11
<1> QED
  BY <1>3, <1>4, <1>5

(* What a filling of the cache leaves.                                     *)
LEMMA CacheFilled ==
  ASSUME fork \in Forks, fork' = fork, decompress_cache \in [0 .. CacheSize - 1 -> Bytes],
         decompress_file_offset \in Int,
         FillDecompressCache(decompress_file_offset), decompress_cache_offset' = 0,
         NEW b \in Int, b >= fork.start, ReadableTo(b - 1) => decompress_file_offset = b
  PROVE  /\ decompress_cache' \in [0 .. CacheSize - 1 -> Bytes]
         /\ decompress_file_offset' \in Int /\ decompress_file_offset' >= decompress_file_offset - 1
         /\ decompress_file_offset' <= decompress_file_offset
              \/ decompress_file_offset' <= Len(fork.device) + 1
         /\ Holds(b)'
<1>1. /\ fork.start \in Nat /\ fork.device \in Seq(Bytes) /\ Len(fork.device) \in Nat
      /\ DOMAIN fork.device = 1 .. Len(fork.device)
      /\ CacheSize \in Nat /\ CacheSize >= 1
  <2>1. fork.start \in Nat /\ fork.device \in Seq(Bytes)
    BY ForkOf
  <2>2. Len(fork.device) \in Nat /\ DOMAIN fork.device = 1 .. Len(fork.device)
    BY <2>1
  <2>3. CacheSize \in Nat /\ CacheSize >= 1
    BY CopySizes
  <2> QED
    BY <2>1, <2>2, <2>3
<1>2. PICK n \in -1 .. CacheSize : n = PReadBytes(decompress_file_offset)
  BY BytesRead
<1>3. /\ n > 0 => decompress_file_offset + n - 1 \in DOMAIN fork.device
           /\ decompress_file_offset \in DOMAIN fork.device
      /\ \A c \in 0 .. CacheSize - 1 :
           (\A a \in decompress_file_offset .. decompress_file_offset + c : ReadableByte(fork, a)) => c < n
  BY <1>2, BytesRead
<1>4. /\ decompress_cache' = [c \in 0 .. CacheSize - 1 |->
                                IF c < n THEN fork.device[decompress_file_offset + c]
                                         ELSE decompress_cache[c]]
      /\ decompress_file_offset' = decompress_file_offset + n
  BY <1>2 DEF FillDecompressCache
<1>5. decompress_cache' \in [0 .. CacheSize - 1 -> Bytes]
  <2> SUFFICES ASSUME NEW c \in 0 .. CacheSize - 1
               PROVE  (IF c < n THEN fork.device[decompress_file_offset + c] ELSE decompress_cache[c]) \in Bytes
    BY <1>4
  <2>1. CASE c < n
    <3>1. decompress_file_offset + c \in 1 .. Len(fork.device)
      BY <1>1, <1>3, <2>1
    <3> QED
      BY <1>1, <2>1, <3>1
  <2>2. CASE ~(c < n)
    BY <2>2
  <2> QED
    BY <2>1, <2>2
<1>6. /\ decompress_file_offset' \in Int /\ decompress_file_offset' >= decompress_file_offset - 1
      /\ decompress_file_offset' <= decompress_file_offset
           \/ decompress_file_offset' <= Len(fork.device) + 1
  BY <1>1, <1>3, <1>4
<1>7. ASSUME NEW c \in 0 .. CacheSize - 1, ReadableTo(b + c)
      PROVE  decompress_file_offset = b /\ c < n
  <2>1. ReadableTo(b - 1)
    BY <1>1, <1>7 DEF ReadableTo
  <2>2. decompress_file_offset = b
    BY <2>1
  <2>3. \A a \in decompress_file_offset .. decompress_file_offset + c : ReadableByte(fork, a)
    BY <1>1, <1>7, <2>2 DEF ReadableTo
  <2> QED
    BY <1>3, <2>2, <2>3
<1>8. \A a : ReadableTo(a)' <=> ReadableTo(a)
  BY DEF ReadableTo
<1>9. ASSUME NEW c \in 0 .. CacheSize - 1, ReadableTo(b + c)
      PROVE  decompress_cache'[c] = fork.device[b + c]
  BY <1>4, <1>7, <1>9
<1>10. ReadableTo(b + CacheSize - 1) => decompress_file_offset' = b + CacheSize
  <2> SUFFICES ASSUME ReadableTo(b + CacheSize - 1) PROVE decompress_file_offset' = b + CacheSize
    OBVIOUS
  <2>1. CacheSize - 1 \in 0 .. CacheSize - 1 /\ b + (CacheSize - 1) = b + CacheSize - 1
    BY <1>1
  <2>2. decompress_file_offset = b /\ CacheSize - 1 < n
    BY <1>7, <2>1
  <2> QED
    BY <1>1, <1>4, <2>2
<1> QED
  BY <1>5, <1>6, <1>8, <1>9, <1>10 DEF Holds

(* GetChar goes to the next byte.                                          *)
LEMMA NextByte ==
  ASSUME fork \in Forks, fork' = fork, decompress_cache \in [0 .. CacheSize - 1 -> Bytes],
         decompress_cache_offset \in 0 .. CacheSize - 1,
         decompress_file_offset \in Int,
         NEW b \in Int, b + decompress_cache_offset >= fork.start, Holds(b), GetChar
  PROVE  /\ decompress_cache' \in [0 .. CacheSize - 1 -> Bytes]
         /\ decompress_cache_offset' \in 0 .. CacheSize - 1
         /\ decompress_file_offset' \in Int /\ decompress_file_offset' >= decompress_file_offset - 1
         /\ decompress_file_offset' <= decompress_file_offset
              \/ decompress_file_offset' <= Len(fork.device) + 1
         /\ \E base \in Int : base + decompress_cache_offset' = b + decompress_cache_offset + 1
              /\ Holds(base)'
<1>1. CacheSize \in Nat /\ CacheSize >= 1 /\ fork.start \in Nat /\ Len(fork.device) \in Nat
  BY ForkOf, CopySizes
<1>2. CASE decompress_cache_offset + 1 >= CacheSize
  <2>1. decompress_cache_offset = CacheSize - 1 /\ decompress_cache_offset' = 0
      /\ FillDecompressCache(decompress_file_offset)
    BY <1>1, <1>2 DEF GetChar
  <2>2. PICK base \in Int : base = b + CacheSize
    BY <1>1
  <2>3. base >= fork.start /\ base - 1 = b + CacheSize - 1
    BY <1>1, <2>1, <2>2
  <2>4. ReadableTo(base - 1) => decompress_file_offset = base
    BY <2>2, <2>3 DEF Holds
  <2>5. /\ decompress_cache' \in [0 .. CacheSize - 1 -> Bytes]
        /\ decompress_file_offset' \in Int /\ decompress_file_offset' >= decompress_file_offset - 1
        /\ decompress_file_offset' <= decompress_file_offset
             \/ decompress_file_offset' <= Len(fork.device) + 1
        /\ Holds(base)'
    BY <2>1, <2>3, <2>4, CacheFilled
  <2>6. base + decompress_cache_offset' = b + decompress_cache_offset + 1
      /\ decompress_cache_offset' \in 0 .. CacheSize - 1
    BY <1>1, <2>1, <2>2
  <2> QED
    BY <2>5, <2>6
<1>3. CASE ~(decompress_cache_offset + 1 >= CacheSize)
  <2>1. decompress_cache_offset' = decompress_cache_offset + 1
      /\ decompress_cache' = decompress_cache
      /\ decompress_file_offset' = decompress_file_offset
    BY <1>3 DEF GetChar
  <2>2. \A a : ReadableTo(a)' <=> ReadableTo(a)
    BY DEF ReadableTo
  <2>3. Holds(b)'
    <3>1. \A c \in decompress_cache_offset + 1 .. CacheSize - 1 : c \in decompress_cache_offset .. CacheSize - 1
      BY <1>1
    <3> QED
      BY <2>1, <2>2, <3>1 DEF Holds
  <2>4. /\ b + decompress_cache_offset' = b + decompress_cache_offset + 1
        /\ decompress_cache_offset' \in 0 .. CacheSize - 1
        /\ decompress_file_offset' \in Int /\ decompress_file_offset' >= decompress_file_offset - 1
        /\ decompress_file_offset' <= decompress_file_offset
             \/ decompress_file_offset' <= Len(fork.device) + 1
    BY <1>1, <1>3, <2>1
  <2> QED
    BY <2>1, <2>3, <2>4
<1> QED
  BY <1>2, <1>3

(* The numbers of the copying.                                             *)
LEMMA Numbers ==
  ASSUME UnpackTypeOK, Shape
  PROVE  /\ skipped \in 0 .. HeadSize /\ bytes_left \in 0 .. fork.size
         /\ fork.size \in Nat /\ fork.size >= 1 /\ fork.start \in Nat /\ fork.start >= 1
         /\ HeadSize \in Nat /\ HeadSize >= 1 /\ CacheSize \in Nat /\ CacheSize >= 1
         /\ decompress_cache_offset \in 0 .. CacheSize - 1 /\ Len(buffer_in) \in Nat
         /\ decompress_file_offset \in Int
         /\ Consumed \in Nat /\ Consumed = skipped + fork.size - bytes_left
         /\ Pos \in Nat /\ Pos = fork.start + Consumed /\ Pos >= fork.start
         /\ Base \in Int /\ Base + decompress_cache_offset = Pos
         /\ Begun \in Int /\ Begun = Pos - Len(buffer_in)
         /\ FirstByte \in Nat /\ FirstByte = fork.start + HeadSize
         /\ LastByte \in Nat /\ LastByte = FirstByte + fork.size - 1
         /\ Len(fork.device) \in Nat
<1>1. /\ fork.size \in Nat /\ fork.size >= 1 /\ fork.start \in Nat /\ fork.start >= 1
      /\ Len(fork.device) \in Nat /\ FirstByte \in Nat /\ FirstByte = fork.start + HeadSize
      /\ LastByte \in Nat /\ LastByte = FirstByte + fork.size - 1
  BY ForkOf DEF Shape
<1>2. HeadSize \in Nat /\ HeadSize >= 1 /\ CacheSize \in Nat /\ CacheSize >= 1
  BY CopySizes
<1>3. /\ skipped \in 0 .. HeadSize /\ bytes_left \in 0 .. fork.size
      /\ decompress_cache_offset \in 0 .. CacheSize - 1
      /\ decompress_file_offset \in Int
  BY DEF UnpackTypeOK
<1>5. Consumed \in Nat /\ Consumed = skipped + fork.size - bytes_left
  <2>1. skipped \in Nat /\ bytes_left \in Nat /\ bytes_left <= fork.size /\ fork.size \in Nat
    BY <1>1, <1>2, <1>3
  <2>2. skipped + fork.size - bytes_left \in Nat
    BY <2>1
  <2> QED
    BY <2>2 DEF Consumed
<1>6. Pos \in Nat /\ Pos = fork.start + Consumed /\ Pos >= fork.start
  BY <1>1, <1>5 DEF Pos
<1>7. Base \in Int /\ Base + decompress_cache_offset = Pos
  BY <1>2, <1>3, <1>6 DEF Base
<1>8. Len(buffer_in) \in Nat
  BY DEF Shape
<1>9. Begun \in Int /\ Begun = Pos - Len(buffer_in)
  BY <1>6, <1>8 DEF Begun
<1> QED
  BY <1>1, <1>2, <1>3, <1>5, <1>6, <1>7, <1>8, <1>9

(* What GetChar does in a state of the copying.                            *)
LEMMA PosAdvances ==
  ASSUME UnpackTypeOK, Shape, CacheHolds, GetChar, fork' = fork
  PROVE  /\ decompress_cache' \in [0 .. CacheSize - 1 -> Bytes]
         /\ decompress_cache_offset' \in 0 .. CacheSize - 1
         /\ decompress_file_offset' \in Int /\ decompress_file_offset' >= decompress_file_offset - 1
         /\ decompress_file_offset' <= decompress_file_offset
              \/ decompress_file_offset' <= Len(fork.device) + 1
         /\ Consumed' = Consumed + 1 => CacheHolds'
<1>1. PICK b \in Int : b = Base
  BY Numbers
<1>2. /\ fork \in Forks /\ decompress_cache \in [0 .. CacheSize - 1 -> Bytes]
      /\ decompress_cache_offset \in 0 .. CacheSize - 1
      /\ decompress_file_offset \in Int
      /\ b + decompress_cache_offset = Pos /\ Pos >= fork.start /\ Pos \in Nat /\ CacheSize \in Nat
      /\ Pos = fork.start + Consumed /\ Consumed \in Nat /\ fork.start \in Nat
  BY <1>1, Numbers DEF Shape
<1>3. Holds(b)
  BY <1>1 DEF CacheHolds
<1>4. /\ decompress_cache' \in [0 .. CacheSize - 1 -> Bytes]
      /\ decompress_cache_offset' \in 0 .. CacheSize - 1
      /\ decompress_file_offset' \in Int /\ decompress_file_offset' >= decompress_file_offset - 1
      /\ decompress_file_offset' <= decompress_file_offset
           \/ decompress_file_offset' <= Len(fork.device) + 1
      /\ \E base \in Int : base + decompress_cache_offset' = b + decompress_cache_offset + 1
           /\ Holds(base)'
  BY <1>2, <1>3, NextByte
<1>5. PICK base \in Int : base + decompress_cache_offset' = b + decompress_cache_offset + 1
    /\ Holds(base)'
  BY <1>4
<1>6. ASSUME Consumed' = Consumed + 1 PROVE CacheHolds'
  <2>1. Pos' = fork.start + (Consumed + 1)
    BY <1>6 DEF Pos
  <2>2. Base' = Pos' - decompress_cache_offset'
    BY DEF Base
  <2>3. Base' = base
    <3>1. PICK p \in Nat : p = Pos
      BY <1>2
    <3>2. Pos' = p + 1
      BY <1>2, <2>1, <3>1
    <3>3. PICK c \in 0 .. CacheSize - 1 : c = decompress_cache_offset'
      BY <1>4
    <3>4. c \in Int
      BY <1>2, <3>3
    <3>5. base + c = b + decompress_cache_offset + 1
      BY <1>5, <3>3
    <3>6. b + decompress_cache_offset = p
      BY <1>2, <3>1
    <3>7. base = p + 1 - c
      BY <3>4, <3>5, <3>6
    <3>8. Base' = p + 1 - c
      BY <2>2, <3>2, <3>3
    <3> QED
      BY <3>7, <3>8
  <2> QED
    BY <1>5, <2>3 DEF CacheHolds
<1> QED
  BY <1>4, <1>6

LEMMA CharIs ==
  ASSUME UnpackTypeOK, Shape
  PROVE  /\ Char \in Bytes
         /\ CacheHolds /\ ReadableTo(Pos) =>
              Pos \in DOMAIN fork.device /\ Char = fork.device[Pos]
<1>1. /\ decompress_cache_offset \in 0 .. CacheSize - 1 /\ CacheSize \in Nat /\ Pos >= fork.start
      /\ Base + decompress_cache_offset = Pos /\ Pos \in Nat /\ fork.start \in Nat
  BY Numbers
<1>2. Char \in Bytes
  BY <1>1 DEF Shape, Char
<1>3. ASSUME CacheHolds, ReadableTo(Pos)
      PROVE  Pos \in DOMAIN fork.device /\ Char = fork.device[Pos]
  <2>1. ReadableByte(fork, Pos)
    <3>1. Pos \in fork.start .. Pos
      BY <1>1
    <3> QED
      BY <1>3, <3>1 DEF ReadableTo
  <2>2. Pos \in DOMAIN fork.device
    BY <2>1 DEF ReadableByte
  <2>3. \A c \in decompress_cache_offset .. CacheSize - 1 : ReadableTo(Base + c)
      => decompress_cache[c] = fork.device[Base + c]
    BY <1>3 DEF CacheHolds, Holds
  <2>4. decompress_cache_offset \in decompress_cache_offset .. CacheSize - 1
    BY <1>1
  <2>5. decompress_cache[decompress_cache_offset] = fork.device[Pos]
    BY <1>1, <1>3, <2>3, <2>4
  <2> QED
    BY <2>2, <2>5 DEF Char
<1> QED
  BY <1>2, <1>3

(* The program sees a marker where there is one.                           *)
LEMMA AtMarkerIs ==
  ASSUME UnpackTypeOK, Shape, CacheHolds, Before, unpack_pc \in {"find", "blocks"}, ReadableTo(Pos),
         Pos >= FirstByte
  PROVE  AtMarker <=> Pos > FirstByte /\ MarkerAt(Pos - 1)
<1>1. /\ fork \in Forks /\ FirstByte \in Nat /\ FirstByte = fork.start + HeadSize
      /\ Pos \in Nat /\ fork.start \in Nat /\ fork.start >= 1 /\ HeadSize \in Nat /\ HeadSize >= 1
  BY Numbers DEF Shape
<1>2. /\ fork.device \in Seq(Bytes) /\ Len(fork.device) \in Nat
      /\ DOMAIN fork.device = 1 .. Len(fork.device)
  BY <1>1, ForkOf
<1>3. Pos \in DOMAIN fork.device /\ Char = fork.device[Pos] /\ Char \in Bytes
  BY CharIs
<1>4. CanRead
  BY <1>1 DEF CanRead, ReadableTo
<1>5. c2 = IF Pos = FirstByte THEN NoByte ELSE fork.device[Pos - 1]
  BY <1>4 DEF Before
<1>6. /\ Marker \in Seq(Bytes) /\ Len(Marker) = 2
      /\ NoByte # Marker[1]
  BY CopySizes
<1>7. AtMarker <=> c2 = Marker[1] /\ Char = Marker[2]
  <2>1. Marker = <<Marker[1], Marker[2]>>
    BY <1>6
  <2>2. PICK m1, m2 : m1 = Marker[1] /\ m2 = Marker[2]
    OBVIOUS
  <2>3. <<c2, Char>> = <<m1, m2>> <=> c2 = m1 /\ Char = m2
    OBVIOUS
  <2> QED
    BY <2>1, <2>2, <2>3 DEF AtMarker
<1>8. CASE Pos = FirstByte
  BY <1>1, <1>5, <1>6, <1>7, <1>8
<1>9. CASE Pos > FirstByte
  <2>1. Pos - 1 \in Nat \ {0} /\ Pos - 1 < Len(fork.device) /\ Pos - 1 + 1 = Pos
    BY <1>1, <1>2, <1>3, <1>9
  <2>2. MarkerAt(Pos - 1) <=> fork.device[Pos - 1] = Marker[1] /\ fork.device[Pos] = Marker[2]
    BY <1>1, <2>1, MarkerIs
  <2>3. c2 = fork.device[Pos - 1]
    BY <1>1, <1>5, <1>9
  <2> QED
    BY <1>3, <1>7, <1>9, <2>2, <2>3
<1> QED
  BY <1>1, <1>8, <1>9
-----------------------------------------------------------------------------
(* Facts about the states of the two loops.                                *)

LEMMA SameFork ==
  ASSUME fork' = fork
  PROVE  /\ chunks' = chunks /\ FirstByte' = FirstByte
         /\ LastByte' = LastByte
         /\ \A i : StartOf(i)' = StartOf(i) /\ EndOf(i)' = EndOf(i) /\ (Sound(i)' <=> Sound(i))
         /\ \A a : (ReadableTo(a)' <=> ReadableTo(a))
              /\ (MarkerAt(a)' <=> MarkerAt(a))
         /\ \A s, a : Lies(fork, s, a)' <=> Lies(fork, s, a)
<1>1. chunks' = chunks /\ FirstByte' = FirstByte
    /\ LastByte' = LastByte
  BY DEF chunks, FirstByte, LastByte
<1>2. \A a : (ReadableTo(a)' <=> ReadableTo(a)) /\ (MarkerAt(a)' <=> MarkerAt(a))
  BY DEF ReadableTo, MarkerAt
<1>3. \A i : StartOf(i)' = StartOf(i) /\ EndOf(i)' = EndOf(i)
  BY <1>1 DEF StartOf, EndOf
<1>4. \A i : Inflated(i)' = Inflated(i) /\ Behind(i)' = Behind(i)
  BY <1>1 DEF Inflated, Behind
<1>5. \A i : Sound(i)' <=> Sound(i)
  BY <1>1, <1>2, <1>4 DEF Sound
<1>6. \A s, a : Lies(fork, s, a)' <=> Lies(fork, s, a)
  BY DEF Lies
<1> QED
  BY <1>1, <1>2, <1>3, <1>5, <1>6

LEMMA ReadsBefore ==
  ASSUME fork \in Forks, NEW a \in Int, NEW b \in Int, b <= a, ReadableTo(a)
  PROVE  ReadableTo(b)
<1>1. fork.start \in Nat
  BY ForkOf
<1> QED
  BY <1>1 DEF ReadableTo

LEMMA InLoops ==
  ASSUME CopyInv, unpack_pc \in {"find", "blocks"}
  PROVE  /\ fork \in Forks /\ Pos \in Nat /\ FirstByte \in Nat /\ LastByte \in Nat
         /\ FirstByte >= 1 /\ Pos >= FirstByte /\ Pos <= LastByte
         /\ Pos = LastByte <=> bytes_left = 1
         /\ bytes_left \in Nat /\ bytes_left > 0 /\ bytes_left <= fork.size /\ fork.size \in Nat
         /\ skipped = HeadSize /\ CacheHolds
         /\ Consumed \in Nat /\ Consumed = HeadSize + fork.size - bytes_left
         /\ Char \in Bytes
         /\ ReadableTo(Pos) => /\ CanRead /\ Pos \in DOMAIN fork.device
                               /\ Char = fork.device[Pos]
                               /\ AtMarker <=> Pos > FirstByte
                                           /\ MarkerAt(Pos - 1)
<1>1. UnpackTypeOK /\ Shape /\ Phase /\ BytesRight /\ Before
  BY DEF CopyInv
<1>2. /\ skipped = HeadSize /\ bytes_left > 0 /\ CacheHolds
  BY <1>1 DEF Phase, BytesRight
<1>3. /\ bytes_left \in 0 .. fork.size
      /\ fork.size \in Nat /\ fork.size >= 1 /\ fork.start \in Nat /\ fork.start >= 1
      /\ HeadSize \in Nat /\ HeadSize >= 1
      /\ Consumed \in Nat /\ Consumed = skipped + fork.size - bytes_left
      /\ Pos \in Nat /\ Pos = fork.start + Consumed
      /\ FirstByte \in Nat /\ FirstByte = fork.start + HeadSize
      /\ LastByte \in Nat /\ LastByte = FirstByte + fork.size - 1
  BY <1>1, Numbers
<1>4. /\ Pos >= FirstByte /\ Pos <= LastByte /\ FirstByte >= 1
      /\ Pos = LastByte <=> bytes_left = 1
  BY <1>2, <1>3
<1>5. fork \in Forks
  BY <1>1 DEF Shape
<1>6. Char \in Bytes
  BY <1>1, CharIs
<1>7. ASSUME ReadableTo(Pos)
      PROVE  /\ CanRead /\ Pos \in DOMAIN fork.device /\ Char = fork.device[Pos]
             /\ AtMarker <=> Pos > FirstByte /\ MarkerAt(Pos - 1)
  <2>1. CanRead
    <3>1. Pos - 1 \in Int /\ Pos \in Int /\ Pos - 1 <= Pos
      BY <1>3
    <3> QED
      BY <1>5, <1>7, <3>1, ReadsBefore DEF CanRead
  <2>2. Pos \in DOMAIN fork.device /\ Char = fork.device[Pos]
    BY <1>1, <1>2, <1>7, CharIs
  <2>3. AtMarker <=> Pos > FirstByte /\ MarkerAt(Pos - 1)
    BY <1>1, <1>2, <1>4, <1>7, AtMarkerIs
  <2> QED
    BY <2>1, <2>2, <2>3
<1>8. bytes_left \in Nat /\ bytes_left <= fork.size
  BY <1>3
<1> QED
  BY <1>2, <1>3, <1>4, <1>5, <1>6, <1>7, <1>8

LEMMA FirstIsSound ==
  ASSUME fork \in Forks, NEW i \in DOMAIN chunks, Sound(i)
  PROVE  1 \in DOMAIN chunks /\ Sound(1)
<1>1. DOMAIN chunks = 1 .. Len(chunks) /\ Len(chunks) \in Nat
  BY ForkOf
<1>2. 1 \in DOMAIN chunks
  BY <1>1
<1>3. CASE i = 1
  BY <1>2, <1>3
<1>4. CASE i # 1
  <2>1. 1 < i
    BY <1>1, <1>4
  <2> QED
    BY <1>2, <2>1, SoundBefore
<1> QED
  BY <1>3, <1>4

(* A sound first chunk is still in front of the search.                    *)
LEMMA FirstIsAhead ==
  ASSUME CopyInv, unpack_pc = "find", NEW i \in DOMAIN chunks, Sound(i)
  PROVE  /\ 1 \in DOMAIN chunks /\ Sound(1) /\ StartOf(1) \in Nat
         /\ CanRead /\ ReadableTo(Pos) /\ Pos < LastByte /\ Pos <= StartOf(1) + 1
         /\ \A a \in FirstByte .. StartOf(1) - 1 : ~MarkerAt(a)
<1>1. /\ fork \in Forks /\ Pos \in Nat /\ FirstByte \in Nat /\ LastByte \in Nat
      /\ Pos >= FirstByte
  BY InLoops
<1>2. 1 \in DOMAIN chunks /\ Sound(1)
  BY <1>1, FirstIsSound
<1>3. StartOf(1) >= FirstByte /\ StartOf(1) \in Nat /\ MarkerAt(StartOf(1))
  BY <1>1, <1>2, ChunkBehindHead
<1>4. /\ Inflated(1) \in Nat /\ ReadableTo(Inflated(1))
      /\ StartOf(1) + 2 <= Inflated(1)
      /\ Inflated(1) <= LastByte /\ Behind(1) = FirstByte
      /\ \A a \in Behind(1) .. StartOf(1) - 1 : ~MarkerAt(a)
  BY <1>1, <1>2, SoundIs
<1>5. CanRead
  BY DEF CopyInv, Kept
<1>6. \A m \in FirstByte .. Pos - 2 : ~MarkerAt(m)
  BY <1>5 DEF CopyInv, Searched
<1>7. ~(StartOf(1) <= Pos - 2)
  BY <1>1, <1>3, <1>6
<1>8. Pos <= StartOf(1) + 1 /\ Pos < Inflated(1)
  BY <1>1, <1>3, <1>4, <1>7
<1>9. ReadableTo(Pos)
  BY <1>1, <1>4, <1>8, ReadsBefore
<1> QED
  BY <1>1, <1>2, <1>3, <1>4, <1>5, <1>8, <1>9

(* What the buffer holds with the byte at hand.                            *)
LEMMA TakenIs ==
  ASSUME CopyInv, unpack_pc = "blocks"
  PROVE  /\ Taken \in Seq(Bytes) /\ Len(Taken) = Len(buffer_in) + 1
         /\ Len(buffer_in) \in 2 .. BufferMax /\ BufferMax \in Nat
         /\ Begun \in Int /\ Begun = Pos - Len(buffer_in) /\ Len(Taken) = Pos - Begun + 1
         /\ \A k \in 1 .. Len(buffer_in) : Taken[k] = buffer_in[k]
         /\ Taken[Len(buffer_in) + 1] = Char
<1>1. UnpackTypeOK /\ Shape /\ Phase
  BY DEF CopyInv
<1>2. Char \in Bytes
  BY InLoops
<1>3. buffer_in \in Seq(Bytes)
  BY <1>1 DEF Shape
<1>4. Len(buffer_in) \in 2 .. BufferMax /\ BufferMax \in Nat
  BY <1>1, CopySizes DEF Phase
<1>5. /\ Taken \in Seq(Bytes) /\ Len(Taken) = Len(buffer_in) + 1
      /\ \A k \in 1 .. Len(buffer_in) : Taken[k] = buffer_in[k]
      /\ Taken[Len(buffer_in) + 1] = Char
  BY <1>2, <1>3 DEF Taken
<1>6. Pos \in Nat /\ Begun \in Int /\ Begun = Pos - Len(buffer_in) /\ Len(buffer_in) \in Nat
  BY <1>1, Numbers
<1>7. Len(Taken) = Pos - Begun + 1
  BY <1>5, <1>6
<1> QED
  BY <1>4, <1>5, <1>6, <1>7

LEMMA TakenLies ==
  ASSUME CopyInv, unpack_pc = "blocks", ReadableTo(Pos)
  PROVE  /\ Begun \in Nat \ {0} /\ Begun >= FirstByte /\ Begun + Len(Taken) - 1 = Pos
         /\ Pos <= Len(fork.device)
         /\ \A k \in 1 .. Len(Taken) : Taken[k] = fork.device[Begun + k - 1]
         /\ \A s \in Streams : s \in Uncompress(Taken) <=> Lies(fork, s, Begun)
              /\ Len(s) <= Len(Taken)
         /\ OnChunk \/ Nowhere
<1>1. /\ fork \in Forks /\ Pos \in Nat /\ FirstByte \in Nat /\ FirstByte >= 1 /\ CanRead
      /\ Pos \in DOMAIN fork.device /\ Char = fork.device[Pos]
  BY InLoops
<1>2. /\ Taken \in Seq(Bytes) /\ Len(Taken) = Len(buffer_in) + 1
      /\ Len(buffer_in) \in 2 .. BufferMax /\ BufferMax \in Nat
      /\ Begun \in Int /\ Begun = Pos - Len(buffer_in) /\ Len(Taken) = Pos - Begun + 1
      /\ \A k \in 1 .. Len(buffer_in) : Taken[k] = buffer_in[k]
      /\ Taken[Len(buffer_in) + 1] = Char
  BY TakenIs
<1>3. /\ Begun >= FirstByte
      /\ \A k \in 1 .. Len(buffer_in) : buffer_in[k] = fork.device[Begun + k - 1]
      /\ OnChunk \/ Nowhere
  BY <1>1 DEF CopyInv, Collected
<1>4. Begun \in Nat \ {0} /\ Begun + Len(Taken) - 1 = Pos
  BY <1>1, <1>2, <1>3
<1>5. fork.device \in Seq(Bytes) /\ Len(fork.device) \in Nat
  BY <1>1, ForkOf
<1>6. Pos <= Len(fork.device)
  BY <1>1, <1>5
<1>7. ASSUME NEW k \in 1 .. Len(Taken) PROVE Taken[k] = fork.device[Begun + k - 1]
  <2>1. CASE k <= Len(buffer_in)
    <3>1. k \in 1 .. Len(buffer_in)
      BY <1>2, <2>1
    <3> QED
      BY <1>2, <1>3, <3>1
  <2>2. CASE ~(k <= Len(buffer_in))
    <3>1. k = Len(buffer_in) + 1 /\ Begun + k - 1 = Pos
      BY <1>1, <1>2, <2>2
    <3> QED
      BY <1>1, <1>2, <3>1
  <2> QED
    BY <2>1, <2>2
<1>8. ASSUME NEW s \in Streams
      PROVE  s \in Uncompress(Taken) <=> Lies(fork, s, Begun)
          /\ Len(s) <= Len(Taken)
  <2>1. s \in Uncompress(Taken) <=> IsPrefix(s, Taken)
    BY DEF Uncompress
  <2>2. Begun + Len(Taken) - 1 <= Len(fork.device)
    BY <1>4, <1>6
  <2>3. IsPrefix(s, Taken) <=> Lies(fork, s, Begun) /\ Len(s) <= Len(Taken)
    BY <1>1, <1>2, <1>4, <1>7, <2>2, InflatesWhatLies
  <2> QED
    BY <2>1, <2>3
<1> QED
  BY <1>3, <1>4, <1>6, <1>7, <1>8

(* As long as a sound chunk is not written, what is read is in front of    *)
(* its end.                                                                *)
LEMMA SoundIsAhead ==
  ASSUME CopyInv, unpack_pc = "blocks", NEW i \in DOMAIN chunks, Sound(i), ~Written(i)
  PROVE  \E k \in DOMAIN chunks :
           /\ k = Len(out) + 1 /\ k <= i /\ Sound(k) /\ OnChunk /\ CanRead
           /\ Pos <= Inflated(k) /\ ReadableTo(Pos) /\ Len(Taken) <= BufferMax
<1>1. /\ fork \in Forks /\ Pos \in Nat /\ FirstByte \in Nat /\ LastByte \in Nat
      /\ Pos >= FirstByte /\ Pos <= LastByte
  BY InLoops
<1>2. CanRead /\ OnChunk /\ Len(out) < i
  BY DEF CopyInv, Kept
<1>3. DOMAIN chunks = 1 .. Len(chunks) /\ Len(chunks) \in Nat /\ Len(out) \in Nat
    /\ i \in Nat
  <2>1. DOMAIN chunks = 1 .. Len(chunks) /\ Len(chunks) \in Nat
    BY <1>1, ForkOf
  <2>2. out \in Seq(Streams)
    BY DEF CopyInv, UnpackTypeOK
  <2> QED
    BY <2>1, <2>2
<1>4. PICK k \in DOMAIN chunks : k = Len(out) + 1
  BY <1>2, <1>3
<1>5. k <= i /\ k \in Nat
  BY <1>2, <1>3, <1>4
<1>6. Sound(k)
  <2>1. CASE k = i
    BY <2>1
  <2>2. CASE k < i
    BY <1>1, <2>2, SoundBefore
  <2> QED
    BY <1>3, <1>5, <2>1, <2>2
<1>7. /\ Inflated(k) \in Nat /\ ReadableTo(Inflated(k))
      /\ Inflated(k) <= LastByte
      /\ Inflated(k) - StartOf(k) + 1 <= BufferMax
      /\ Inflated(k) = LastByte
           \/ (k + 1 \in DOMAIN chunks /\ Inflated(k) = StartOf(k + 1) + 1)
  BY <1>1, <1>6, SoundIs
<1>8. Begun = StartOf(k) /\ \A m \in Begun + 1 .. Pos - 2 : MarkerAt(m) => m + 2 < EndOf(k)
  BY <1>2, <1>4 DEF OnChunk
<1>9. StartOf(k) \in Nat /\ EndOf(k) \in Nat /\ StartOf(k) < EndOf(k)
  BY <1>1, ChunkIs
<1>10. Pos <= Inflated(k)
  <2> SUFFICES ASSUME ~(Pos <= Inflated(k)) PROVE FALSE
    OBVIOUS
  <2>1. k + 1 \in DOMAIN chunks /\ Inflated(k) = StartOf(k + 1) + 1
    BY <1>1, <1>7
  <2>2. k < k + 1
    BY <1>5
  <2>3. StartOf(k + 1) \in Nat /\ MarkerAt(StartOf(k + 1)) /\ EndOf(k) <= StartOf(k + 1)
    BY <1>1, <2>1, <2>2, ChunkBehindHead, ChunksInOrder
  <2>4. StartOf(k + 1) \in Begun + 1 .. Pos - 2
    BY <1>1, <1>7, <1>8, <1>9, <2>1, <2>3
  <2>5. StartOf(k + 1) + 2 < EndOf(k)
    BY <1>8, <2>3, <2>4
  <2> QED
    BY <1>9, <2>3, <2>5
<1>11. ReadableTo(Pos)
  BY <1>1, <1>7, <1>10, ReadsBefore
<1>12. Len(Taken) <= BufferMax
  <2>1. Len(Taken) = Pos - Begun + 1 /\ BufferMax \in Nat
    BY TakenIs
  <2> QED
    BY <1>1, <1>7, <1>8, <1>9, <1>10, <2>1
<1> QED
  BY <1>2, <1>4, <1>5, <1>6, <1>10, <1>11, <1>12

(* A chunk of which the last byte has been read can be inflated.           *)
LEMMA WholeChunkInflates ==
  ASSUME CopyInv, unpack_pc = "blocks", ReadableTo(Pos), OnChunk, EndOf(Len(out) + 1) <= Pos + 1
  PROVE  chunks[Len(out) + 1].stream \in Uncompress(Taken)
<1>1. fork \in Forks /\ Pos \in Nat
  BY InLoops
<1>2. DOMAIN chunks = 1 .. Len(chunks) /\ Len(chunks) \in Nat /\ Len(out) \in Nat
  BY <1>1, ForkOf DEF CopyInv, UnpackTypeOK
<1>3. PICK k \in DOMAIN chunks : k = Len(out) + 1
  BY <1>2 DEF OnChunk
<1>4. Begun = StartOf(k)
  BY <1>3 DEF OnChunk
<1>5. /\ chunks[k].stream \in Streams /\ Len(chunks[k].stream) \in Nat /\ StartOf(k) \in Nat
      /\ EndOf(k) = StartOf(k) + Len(chunks[k].stream) /\ Lies(fork, chunks[k].stream, StartOf(k))
  BY <1>1, ChunkIs
<1>6. Len(Taken) = Pos - Begun + 1
  BY TakenIs
<1>7. Len(chunks[k].stream) <= Len(Taken)
  BY <1>1, <1>3, <1>4, <1>5, <1>6
<1> QED
  BY <1>3, <1>4, <1>5, <1>7, TakenLies

(* What can be inflated of bytes that could be read is the next chunk.     *)
LEMMA InflatedIsNext ==
  ASSUME CopyInv, unpack_pc = "blocks", ReadableTo(Pos), NEW s \in Uncompress(Taken)
  PROVE  /\ OnChunk /\ s = chunks[Len(out) + 1].stream
         /\ EndOf(Len(out) + 1) <= Pos + 1 /\ Begun < Pos - 1
<1>1. fork \in Forks /\ Pos \in Nat
  BY InLoops
<1>2. DOMAIN chunks = 1 .. Len(chunks) /\ Len(chunks) \in Nat /\ Len(out) \in Nat
  BY <1>1, ForkOf DEF CopyInv, UnpackTypeOK
<1>3. s \in Streams
  BY DEF Uncompress
<1>4. Lies(fork, s, Begun) /\ Len(s) <= Len(Taken) /\ Begun \in Nat \ {0}
    /\ (OnChunk \/ Nowhere)
  BY <1>3, TakenLies
<1>5. OnChunk
  BY <1>3, <1>4 DEF Nowhere
<1>6. PICK k \in DOMAIN chunks : k = Len(out) + 1
  BY <1>2, <1>5 DEF OnChunk
<1>7. Begun = StartOf(k)
  BY <1>5, <1>6 DEF OnChunk
<1>8. /\ chunks[k].stream \in Streams /\ Len(chunks[k].stream) \in Nat
      /\ Len(chunks[k].stream) > 2 /\ StartOf(k) \in Nat
      /\ EndOf(k) = StartOf(k) + Len(chunks[k].stream) /\ Lies(fork, chunks[k].stream, StartOf(k))
  BY <1>1, ChunkIs
<1>9. s = chunks[k].stream
  BY <1>1, <1>3, <1>4, <1>7, <1>8, OneStream
<1>10. Len(Taken) = Pos - Begun + 1
  BY TakenIs
<1>11. EndOf(k) <= Pos + 1 /\ Begun < Pos - 1
  BY <1>1, <1>4, <1>7, <1>8, <1>9, <1>10
<1> QED
  BY <1>5, <1>6, <1>9, <1>11
-----------------------------------------------------------------------------
(* The steps keep the invariant.                                           *)

LEMMA NotWriting ==
  ASSUME fork \in Forks, out = <<>>
  PROVE  FirstOnes /\ out \in Seq(Streams)
<1>1. Len(chunks) \in Nat
  BY ForkOf
<1> QED
  BY <1>1 DEF FirstOnes

LEMMA Starts ==
  UnpackInit => CopyInv
<1> SUFFICES ASSUME UnpackInit PROVE CopyInv
  OBVIOUS
<1>1. /\ fork \in Forks /\ unpack_pc = "open" /\ decompress_cache = fork.cache
      /\ decompress_cache_offset = 0
      /\ decompress_file_offset = fork.start /\ skipped = 0 /\ c2 = NoByte /\ bytes_left = fork.size
      /\ buffer_in = <<>> /\ out = <<>> /\ restored = FALSE
  BY DEF UnpackInit
<1>2. /\ fork.start \in Nat \ {0} /\ fork.size \in Nat \ {0} /\ Len(fork.device) \in Nat
      /\ fork.device \in Seq(Bytes) /\ fork.cache \in [0 .. CacheSize - 1 -> Bytes]
  BY <1>1, ForkOf
<1>3. /\ CacheSize \in Nat /\ CacheSize >= 1 /\ HeadSize \in Nat /\ HeadSize >= 1
      /\ BufferMax \in Nat
  BY CopySizes
<1>4. FirstOnes /\ out \in Seq(Streams) /\ Len(buffer_in) = 0 /\ buffer_in \in Seq(Bytes)
  BY <1>1, NotWriting
<1>5. UnpackTypeOK
  <2>1. /\ decompress_cache_offset \in 0 .. CacheSize - 1 /\ skipped \in 0 .. HeadSize
        /\ bytes_left \in 0 .. fork.size /\ Len(buffer_in) <= BufferMax + 1
    BY <1>1, <1>2, <1>3, <1>4
  <2>2. /\ decompress_file_offset \in Int
        /\ decompress_file_offset >= fork.start - 1 - (skipped + fork.size - bytes_left)
        /\ decompress_file_offset <= fork.start
    BY <1>1, <1>2
  <2> QED
    BY <1>1, <1>4, <2>1, <2>2 DEF UnpackTypeOK
<1>6. Shape
  BY <1>1, <1>2, <1>4 DEF Shape
<1>7. Phase
  BY <1>1 DEF Phase
<1>8. BytesRight /\ Before /\ Searched /\ Collected /\ Kept
  BY <1>1 DEF BytesRight, Before, Searched, Collected, Kept
<1>9. NoHole
  BY <1>4 DEF NoHole
<1> QED
  BY <1>5, <1>6, <1>7, <1>8, <1>9 DEF CopyInv

LEMMA Stutters ==
  CopyInv /\ UNCHANGED unpack_vars => CopyInv'
<1> SUFFICES ASSUME CopyInv, UNCHANGED unpack_vars PROVE CopyInv'
  OBVIOUS
<1>1. /\ fork' = fork /\ unpack_pc' = unpack_pc /\ decompress_cache' = decompress_cache
      /\ decompress_cache_offset' = decompress_cache_offset
      /\ decompress_file_offset' = decompress_file_offset /\ skipped' = skipped /\ c2' = c2
      /\ bytes_left' = bytes_left /\ buffer_in' = buffer_in /\ out' = out /\ restored' = restored
  BY DEF unpack_vars, reader
<1>2. /\ chunks' = chunks /\ FirstByte' = FirstByte
      /\ LastByte' = LastByte
      /\ \A i : StartOf(i)' = StartOf(i) /\ EndOf(i)' = EndOf(i) /\ (Sound(i)' <=> Sound(i))
      /\ \A a : (ReadableTo(a)' <=> ReadableTo(a))
           /\ (MarkerAt(a)' <=> MarkerAt(a))
      /\ \A s, a : Lies(fork, s, a)' <=> Lies(fork, s, a)
  BY <1>1, SameFork
<1>3. Pos' = Pos /\ Consumed' = Consumed /\ Base' = Base /\ Begun' = Begun
  BY <1>1 DEF Pos, Consumed, Base, Begun
<1>4. /\ CanRead' <=> CanRead
      /\ OnChunk' <=> OnChunk
      /\ FirstOnes' <=> FirstOnes
      /\ CacheHolds' <=> CacheHolds
      /\ \A i : Written(i)' <=> Written(i)
  <2>1. CanRead' <=> CanRead
    BY <1>2, <1>3 DEF CanRead
  <2>2. OnChunk' <=> OnChunk
    BY <1>1, <1>2, <1>3 DEF OnChunk
  <2>3. FirstOnes' <=> FirstOnes
    BY <1>1, <1>2 DEF FirstOnes
  <2>4. CacheHolds' <=> CacheHolds
    BY <1>1, <1>2, <1>3 DEF CacheHolds, Holds
  <2>5. \A i : Written(i)' <=> Written(i)
    BY <1>1, <1>2 DEF Written
  <2> QED
    BY <2>1, <2>2, <2>3, <2>4, <2>5
<1>5. Nowhere' <=> Nowhere
  BY <1>1, <1>2, <1>3 DEF Nowhere, Lies
<1>6. UnpackTypeOK' /\ Shape' /\ Phase'
  BY <1>1 DEF CopyInv, UnpackTypeOK, Shape, Phase
<1>7. BytesRight' /\ Before' /\ Searched' /\ NoHole'
  BY <1>1, <1>2, <1>3, <1>4 DEF CopyInv, BytesRight, Before, Searched, NoHole
<1>8. Collected'
  BY <1>1, <1>2, <1>3, <1>4, <1>5 DEF CopyInv, Collected
<1>9. Kept'
  BY <1>1, <1>2, <1>4 DEF CopyInv, Kept
<1> QED
  BY <1>6, <1>7, <1>8, <1>9 DEF CopyInv

(* A step that begins with GetChar, and counts.                            *)
LEMMA OffsetsKept ==
  ASSUME UnpackTypeOK, Shape, CacheHolds, GetChar, fork' = fork,
         skipped' \in Nat, bytes_left' \in Nat,
         skipped' - bytes_left' >= skipped - bytes_left + 1
  PROVE  /\ decompress_cache' \in [0 .. CacheSize - 1 -> Bytes]
         /\ decompress_cache_offset' \in 0 .. CacheSize - 1
         /\ decompress_file_offset' \in Int
         /\ decompress_file_offset' >= fork.start - 1 - (skipped' + fork.size - bytes_left')
         /\ decompress_file_offset' <= fork.start \/ decompress_file_offset' <= Len(fork.device) + 1
<1>1. /\ decompress_cache' \in [0 .. CacheSize - 1 -> Bytes]
      /\ decompress_cache_offset' \in 0 .. CacheSize - 1
      /\ decompress_file_offset' \in Int /\ decompress_file_offset' >= decompress_file_offset - 1
      /\ decompress_file_offset' <= decompress_file_offset
           \/ decompress_file_offset' <= Len(fork.device) + 1
  BY PosAdvances
<1>2. /\ decompress_file_offset \in Int /\ skipped \in Int /\ bytes_left \in Int
      /\ fork.start \in Int /\ fork.size \in Int /\ Len(fork.device) \in Int
  <2>1. /\ decompress_file_offset \in Int /\ skipped \in 0 .. HeadSize
        /\ bytes_left \in 0 .. fork.size
        /\ fork.start \in Nat /\ fork.size \in Nat /\ Len(fork.device) \in Nat /\ HeadSize \in Nat
    BY Numbers
  <2> QED
    BY <2>1
<1>3. /\ decompress_file_offset >= fork.start - 1 - (skipped + fork.size - bytes_left)
      /\ decompress_file_offset <= fork.start \/ decompress_file_offset <= Len(fork.device) + 1
  BY DEF UnpackTypeOK
<1>4. decompress_file_offset' >= fork.start - 1 - (skipped' + fork.size - bytes_left')
  <2>1. PICK o \in Int, s \in Int, l \in Int : o = decompress_file_offset' /\ s = skipped'
      /\ l = bytes_left'
    BY <1>1
  <2>2. o >= decompress_file_offset - 1 /\ s - l >= skipped - bytes_left + 1
    BY <1>1, <2>1
  <2>3. o >= fork.start - 1 - (s + fork.size - l)
    <3>1. \A f, k, n, x, y \in Int :
            /\ f >= x - 1 - (k + y - n) /\ o >= f - 1 /\ s - l >= k - n + 1
            => o >= x - 1 - (s + y - l)
      OBVIOUS
    <3> QED
      BY <1>2, <1>3, <2>2, <3>1
  <2> QED
    BY <2>1, <2>3
<1>5. decompress_file_offset' <= fork.start \/ decompress_file_offset' <= Len(fork.device) + 1
  <2>1. PICK o \in Int : o = decompress_file_offset'
    BY <1>1
  <2>2. o <= decompress_file_offset \/ o <= Len(fork.device) + 1
    BY <1>1, <2>1
  <2>3. o <= fork.start \/ o <= Len(fork.device) + 1
    BY <1>2, <1>3, <2>2
  <2> QED
    BY <2>1, <2>3
<1> QED
  BY <1>1, <1>4, <1>5

LEMMA OpenStep ==
  CopyInv /\ Open => CopyInv'
<1> SUFFICES ASSUME CopyInv, Open PROVE CopyInv'
  OBVIOUS
<1>1. UnpackTypeOK /\ Shape /\ Phase
  BY DEF CopyInv
<1>2. /\ unpack_pc = "open" /\ unpack_pc' = "head" /\ FillDecompressCache(decompress_file_offset)
      /\ fork' = fork /\ decompress_cache_offset' = decompress_cache_offset
      /\ skipped' = skipped /\ c2' = c2
      /\ bytes_left' = bytes_left /\ buffer_in' = buffer_in /\ out' = out /\ restored' = restored
  BY DEF Open
<1>3. /\ skipped = 0 /\ decompress_cache_offset = 0 /\ decompress_file_offset = fork.start
      /\ bytes_left = fork.size
      /\ c2 = NoByte /\ out = <<>> /\ buffer_in = <<>>
  BY <1>1, <1>2 DEF Phase
<1>4. /\ fork \in Forks /\ decompress_cache \in [0 .. CacheSize - 1 -> Bytes]
      /\ decompress_file_offset \in Int
      /\ fork.start \in Int /\ fork.size \in Nat /\ HeadSize \in Nat /\ HeadSize >= 1
      /\ Len(fork.device) \in Nat
  <2>1. fork \in Forks /\ decompress_cache \in [0 .. CacheSize - 1 -> Bytes]
    BY <1>1 DEF Shape
  <2>2. /\ decompress_file_offset \in Int /\ fork.start \in Nat /\ fork.size \in Nat
        /\ HeadSize \in Nat /\ HeadSize >= 1 /\ Len(fork.device) \in Nat
    BY <1>1, Numbers
  <2> QED
    BY <2>1, <2>2
<1>5. PICK b \in Int : b = fork.start
  BY <1>4
<1>6. b >= fork.start /\ (ReadableTo(b - 1) => decompress_file_offset = b)
    /\ decompress_cache_offset' = 0
  BY <1>2, <1>3, <1>4, <1>5
<1>7. /\ decompress_cache' \in [0 .. CacheSize - 1 -> Bytes]
      /\ decompress_file_offset' \in Int /\ decompress_file_offset' >= decompress_file_offset - 1
      /\ decompress_file_offset' <= decompress_file_offset
           \/ decompress_file_offset' <= Len(fork.device) + 1
      /\ Holds(b)'
  BY <1>2, <1>4, <1>6, CacheFilled
<1>8. UnpackTypeOK'
  <2>1. /\ decompress_file_offset' >= fork.start - 1 - (skipped' + fork.size - bytes_left')
        /\ decompress_file_offset' <= fork.start \/ decompress_file_offset' <= Len(fork.device) + 1
    BY <1>2, <1>3, <1>4, <1>7
  <2> QED
    BY <1>1, <1>2, <1>7, <2>1 DEF UnpackTypeOK
<1>9. Shape'
  BY <1>1, <1>2, <1>7 DEF Shape
<1>10. Phase'
  BY <1>2, <1>3, <1>4 DEF Phase
<1>11. BytesRight'
  <2>1. Base' = b
    BY <1>2, <1>3, <1>4, <1>5 DEF Base, Pos, Consumed
  <2> QED
    BY <1>7, <2>1 DEF BytesRight, CacheHolds
<1>12. Before' /\ Searched' /\ Collected' /\ Kept'
  BY <1>2 DEF Before, Searched, Collected, Kept
<1>13. NoHole'
  <2>1. FirstOnes
    BY <1>3, <1>4, NotWriting
  <2>2. FirstOnes'
    BY <1>2, <2>1, SameFork DEF FirstOnes
  <2> QED
    BY <2>2 DEF NoHole
<1> QED
  BY <1>8, <1>9, <1>10, <1>11, <1>12, <1>13 DEF CopyInv

LEMMA OpenFailsStep ==
  CopyInv /\ OpenFails => CopyInv'
<1> SUFFICES ASSUME CopyInv, OpenFails PROVE CopyInv'
  OBVIOUS
<1>1. UnpackTypeOK /\ Shape /\ Phase
  BY DEF CopyInv
<1>2. /\ unpack_pc = "open" /\ unpack_pc' = "done"
      /\ fork' = fork /\ decompress_cache' = decompress_cache
      /\ decompress_cache_offset' = decompress_cache_offset
      /\ decompress_file_offset' = decompress_file_offset /\ skipped' = skipped /\ c2' = c2
      /\ bytes_left' = bytes_left /\ buffer_in' = buffer_in /\ out' = out /\ restored' = restored
  BY DEF OpenFails, reader
<1>3. skipped = 0 /\ out = <<>> /\ HeadSize \in Nat /\ HeadSize >= 1 /\ fork \in Forks
  BY <1>1, <1>2, Numbers DEF Phase, Shape
<1>4. UnpackTypeOK' /\ Shape' /\ Phase'
  BY <1>1, <1>2 DEF UnpackTypeOK, Shape, Phase
<1>5. BytesRight' /\ Before' /\ Searched' /\ Collected'
  BY <1>2 DEF BytesRight, Before, Searched, Collected
<1>6. Kept'
  BY <1>2, <1>3 DEF Kept
<1>7. NoHole'
  <2>1. FirstOnes
    BY <1>3, NotWriting
  <2>2. FirstOnes'
    BY <1>2, <2>1, SameFork DEF FirstOnes
  <2> QED
    BY <2>2 DEF NoHole
<1> QED
  BY <1>4, <1>5, <1>6, <1>7 DEF CopyInv

LEMMA SkipHeadStep ==
  CopyInv /\ SkipHead => CopyInv'
<1> SUFFICES ASSUME CopyInv, SkipHead PROVE CopyInv'
  OBVIOUS
<1>1. UnpackTypeOK /\ Shape /\ Phase
  BY DEF CopyInv
<1>2. /\ unpack_pc = "head" /\ GetChar /\ skipped' = skipped + 1
      /\ unpack_pc' = IF skipped' = HeadSize THEN "find" ELSE "head"
      /\ fork' = fork /\ c2' = c2
      /\ bytes_left' = bytes_left /\ buffer_in' = buffer_in /\ out' = out /\ restored' = restored
  BY DEF SkipHead
<1>3. /\ skipped < HeadSize /\ bytes_left = fork.size /\ c2 = NoByte /\ out = <<>>
      /\ buffer_in = <<>> /\ CacheHolds
  BY <1>1, <1>2 DEF Phase, CopyInv, BytesRight
<1>4. /\ fork \in Forks /\ skipped \in Nat /\ bytes_left \in Nat /\ HeadSize \in Nat
      /\ fork.size \in Nat /\ fork.size >= 1 /\ fork.start \in Nat
      /\ Consumed = skipped + fork.size - bytes_left /\ Consumed \in Nat
      /\ FirstByte \in Nat /\ FirstByte = fork.start + HeadSize
  BY <1>1, Numbers DEF Shape
<1>5. /\ skipped' \in Nat /\ skipped' <= HeadSize /\ bytes_left' \in Nat
      /\ skipped' - bytes_left' >= skipped - bytes_left + 1
      /\ (unpack_pc' = "head" => skipped' < HeadSize)
  BY <1>2, <1>3, <1>4
<1>6. /\ decompress_cache' \in [0 .. CacheSize - 1 -> Bytes]
      /\ decompress_cache_offset' \in 0 .. CacheSize - 1
      /\ decompress_file_offset' \in Int
      /\ decompress_file_offset' >= fork.start - 1 - (skipped' + fork.size - bytes_left')
      /\ decompress_file_offset' <= fork.start \/ decompress_file_offset' <= Len(fork.device) + 1
  BY <1>1, <1>2, <1>3, <1>5, OffsetsKept
<1>7. Consumed' = Consumed + 1
  BY <1>2, <1>4 DEF Consumed
<1>8. CacheHolds'
  BY <1>1, <1>2, <1>3, <1>7, PosAdvances
<1>9. unpack_pc' \in {"head", "find"}
  BY <1>2
<1>10. UnpackTypeOK'
  <2>1. skipped' \in 0 .. HeadSize
    BY <1>4, <1>5
  <2> QED
    BY <1>1, <1>2, <1>6, <1>9, <2>1 DEF UnpackTypeOK
<1>11. Shape'
  BY <1>1, <1>2, <1>6 DEF Shape
<1>12. Phase'
  BY <1>2, <1>3, <1>4, <1>5, <1>9 DEF Phase
<1>13. BytesRight'
  BY <1>8 DEF BytesRight
<1>14. ASSUME unpack_pc' = "find" PROVE Pos' = FirstByte
  <2>1. skipped' = HeadSize
    BY <1>2, <1>14
  <2>2. Consumed' = HeadSize
    BY <1>2, <1>3, <1>4, <2>1 DEF Consumed
  <2> QED
    BY <1>2, <1>4, <2>2 DEF Pos
<1>15. /\ FirstByte' = FirstByte /\ chunks' = chunks
       /\ \A i : Sound(i)' <=> Sound(i)
       /\ \A a : ReadableTo(a)' <=> ReadableTo(a)
  BY <1>2, SameFork
<1>16. Before'
  BY <1>2, <1>3, <1>9, <1>14, <1>15 DEF Before
<1>17. Searched'
  <2> SUFFICES ASSUME unpack_pc' = "find" PROVE \A m \in FirstByte' .. Pos' - 2 : ~MarkerAt(m)'
    BY DEF Searched
  <2>1. Pos' = FirstByte /\ FirstByte' = FirstByte
    BY <1>14, <1>15
  <2> QED
    BY <1>4, <2>1
<1>18. Collected'
  BY <1>9 DEF Collected
<1>19. NoHole'
  <2>1. FirstOnes
    BY <1>3, <1>4, NotWriting
  <2>2. FirstOnes'
    BY <1>2, <2>1, SameFork DEF FirstOnes
  <2> QED
    BY <2>2 DEF NoHole
<1>20. Kept'
  <2> SUFFICES ASSUME NEW i \in DOMAIN chunks, Sound(i), unpack_pc' = "find" PROVE CanRead'
    BY <1>9, <1>15 DEF Kept
  <2>1. /\ Inflated(i) \in Nat /\ ReadableTo(Inflated(i))
        /\ StartOf(i) + 2 <= Inflated(i)
        /\ StartOf(i) >= FirstByte /\ StartOf(i) \in Nat
    BY <1>4, SoundIs, ChunkBehindHead
  <2>2. FirstByte - 1 \in Int /\ Inflated(i) \in Int
      /\ FirstByte - 1 <= Inflated(i)
    BY <1>4, <2>1
  <2>3. ReadableTo(FirstByte - 1)
    BY <1>4, <2>1, <2>2, ReadsBefore
  <2>4. Pos' = FirstByte
    BY <1>14
  <2> QED
    BY <1>15, <2>3, <2>4 DEF CanRead
<1> QED
  BY <1>10, <1>11, <1>12, <1>13, <1>16, <1>17, <1>18, <1>19, <1>20 DEF CopyInv
(* The head of the loops: what each turn of them does to the reader.       *)
LEMMA TurnOfLoop ==
  ASSUME CopyInv, unpack_pc \in {"find", "blocks"}, GetChar, fork' = fork, skipped' = skipped,
         c2' = Char, bytes_left' \in Nat, bytes_left' <= bytes_left - 1
  PROVE  /\ decompress_cache' \in [0 .. CacheSize - 1 -> Bytes]
         /\ decompress_cache_offset' \in 0 .. CacheSize - 1
         /\ decompress_file_offset' \in Int
         /\ decompress_file_offset' >= fork.start - 1 - (skipped' + fork.size - bytes_left')
         /\ decompress_file_offset' <= fork.start \/ decompress_file_offset' <= Len(fork.device) + 1
         /\ skipped' \in 0 .. HeadSize /\ bytes_left' \in 0 .. fork.size
         /\ bytes_left' = bytes_left - 1 =>
              /\ Pos' = Pos + 1 /\ CacheHolds'
              /\ CanRead' <=> ReadableTo(Pos)
              /\ CanRead' => c2' = IF Pos' = FirstByte' THEN NoByte ELSE fork'.device[Pos' - 1]
<1>1. UnpackTypeOK /\ Shape
  BY DEF CopyInv
<1>2. /\ fork \in Forks /\ Pos \in Nat /\ FirstByte \in Nat /\ Pos >= FirstByte
      /\ bytes_left \in Nat /\ bytes_left <= fork.size /\ fork.size \in Nat
      /\ skipped = HeadSize /\ CacheHolds
      /\ Consumed \in Nat /\ Consumed = HeadSize + fork.size - bytes_left
      /\ ReadableTo(Pos) => Char = fork.device[Pos]
  BY InLoops
<1>3. HeadSize \in Nat /\ fork.start \in Nat /\ Pos = fork.start + Consumed
  BY <1>1, Numbers
<1>4. /\ skipped' \in Nat /\ skipped' - bytes_left' >= skipped - bytes_left + 1
      /\ skipped' \in 0 .. HeadSize /\ bytes_left' \in 0 .. fork.size
  <2>1. PICK l \in Nat : l = bytes_left'
    OBVIOUS
  <2>2. l <= bytes_left - 1
    BY <2>1
  <2>3. /\ HeadSize - l >= skipped - bytes_left + 1 /\ HeadSize \in 0 .. HeadSize
        /\ l \in 0 .. fork.size
    BY <1>2, <1>3, <2>2
  <2> QED
    BY <1>2, <1>3, <2>1, <2>3
<1>5. /\ decompress_cache' \in [0 .. CacheSize - 1 -> Bytes]
      /\ decompress_cache_offset' \in 0 .. CacheSize - 1
      /\ decompress_file_offset' \in Int
      /\ decompress_file_offset' >= fork.start - 1 - (skipped' + fork.size - bytes_left')
      /\ decompress_file_offset' <= fork.start \/ decompress_file_offset' <= Len(fork.device) + 1
  BY <1>1, <1>2, <1>4, OffsetsKept
<1>6. ASSUME bytes_left' = bytes_left - 1
      PROVE  /\ Pos' = Pos + 1 /\ CacheHolds'
             /\ CanRead' <=> ReadableTo(Pos)
             /\ CanRead' => c2' = IF Pos' = FirstByte' THEN NoByte ELSE fork'.device[Pos' - 1]
  <2>1. Consumed' = Consumed + 1
    <3>1. Consumed' = skipped' + fork'.size - bytes_left'
      BY DEF Consumed
    <3> QED
      BY <1>2, <1>3, <1>6, <3>1
  <2>2. CacheHolds'
    BY <1>1, <1>2, <2>1, PosAdvances
  <2>3. Pos' = Pos + 1
    <3>1. Pos' = fork'.start + Consumed'
      BY DEF Pos
    <3> QED
      BY <1>2, <1>3, <2>1, <3>1
  <2>4. \A a : ReadableTo(a)' <=> ReadableTo(a)
    BY SameFork
  <2>5. Pos' - 1 = Pos
    BY <1>2, <2>3
  <2>6. CanRead' <=> ReadableTo(Pos)
    BY <2>4, <2>5 DEF CanRead
  <2>7. FirstByte' = FirstByte /\ Pos' # FirstByte'
    BY <1>2, <2>3, SameFork
  <2>8. CanRead' => c2' = fork'.device[Pos' - 1]
    BY <1>2, <2>5, <2>6
  <2> QED
    BY <2>2, <2>3, <2>6, <2>7, <2>8
<1> QED
  BY <1>4, <1>5, <1>6

(* A stream that is found with no marker in front of it is the first       *)
(* chunk.                                                                  *)
LEMMA FoundIsFirst ==
  ASSUME CopyInv, unpack_pc = "find", CanRead, Pos > FirstByte,
         NEW s \in Streams, Lies(fork, s, Pos - 1)
  PROVE  1 \in DOMAIN chunks /\ StartOf(1) = Pos - 1
<1>1. /\ fork \in Forks /\ Pos \in Nat /\ FirstByte \in Nat
  BY InLoops
<1>2. \A m \in FirstByte .. Pos - 2 : ~MarkerAt(m)
  BY DEF CopyInv, Searched
<1>3. Pos - 1 \in Nat /\ Pos - 1 >= FirstByte
  BY <1>1
<1>4. PICK i \in DOMAIN chunks : StartOf(i) = Pos - 1
    \/ (StartOf(i) < Pos - 1 /\ Pos - 1 + 2 < EndOf(i))
  BY <1>1, <1>3, StreamsAreChunks
<1>5. \A j \in DOMAIN chunks : StartOf(j) >= FirstByte /\ StartOf(j) \in Nat /\ MarkerAt(StartOf(j))
  BY <1>1, ChunkBehindHead
<1>6. \A j \in DOMAIN chunks : ~(StartOf(j) < Pos - 1)
  <2> SUFFICES ASSUME NEW j \in DOMAIN chunks, StartOf(j) < Pos - 1 PROVE FALSE
    OBVIOUS
  <2>1. StartOf(j) \in FirstByte .. Pos - 2
    BY <1>1, <1>5
  <2> QED
    BY <1>2, <1>5, <2>1
<1>7. StartOf(i) = Pos - 1
  BY <1>4, <1>6
<1>8. DOMAIN chunks = 1 .. Len(chunks) /\ Len(chunks) \in Nat
  BY <1>1, ForkOf
<1>9. 1 \in DOMAIN chunks
  BY <1>8
<1>10. CASE i = 1
  BY <1>7, <1>9, <1>10
<1>11. CASE i # 1
  <2>1. 1 < i
    BY <1>8, <1>11
  <2>2. EndOf(1) <= StartOf(i) /\ StartOf(1) \in Nat /\ EndOf(1) \in Nat /\ StartOf(1) < EndOf(1)
    BY <1>1, <1>9, <2>1, ChunksInOrder, ChunkIs
  <2>3. StartOf(1) < Pos - 1
    BY <1>1, <1>7, <2>2
  <2> QED
    BY <1>6, <1>9, <2>3
<1> QED
  BY <1>10, <1>11

(* The buffer holds the marker just read.                                  *)
LEMMA MarkerTaken ==
  ASSUME fork \in Forks, NEW p \in Nat \ {0}, MarkerAt(p)
  PROVE  \A k \in 1 .. Len(Marker) : Marker[k] = fork.device[p + k - 1]
<1>1. fork.device[p] = Marker[1] /\ fork.device[p + 1] = Marker[2] /\ Len(Marker) = 2
  BY MarkerIs, CopySizes
<1>2. p + 1 - 1 = p /\ p + 2 - 1 = p + 1
  OBVIOUS
<1> QED
  BY <1>1, <1>2

LEMMA FindFirstStep ==
  CopyInv /\ FindFirst => CopyInv'
<1> SUFFICES ASSUME CopyInv, FindFirst PROVE CopyInv'
  OBVIOUS
<1>1. UnpackTypeOK /\ Shape /\ Phase
  BY DEF CopyInv
<1>2. /\ unpack_pc = "find" /\ GetChar /\ c2' = Char /\ bytes_left' = bytes_left - 1
      /\ unpack_pc' = IF bytes_left' = 0 THEN "done" ELSE IF AtMarker THEN "blocks" ELSE "find"
      /\ buffer_in' = IF unpack_pc' = "blocks" THEN Marker ELSE buffer_in
      /\ fork' = fork /\ skipped' = skipped /\ out' = out /\ restored' = restored
  BY DEF FindFirst
<1>3. /\ fork \in Forks /\ Pos \in Nat /\ FirstByte \in Nat /\ LastByte \in Nat
      /\ FirstByte >= 1 /\ Pos >= FirstByte /\ Pos <= LastByte
      /\ Pos = LastByte <=> bytes_left = 1
      /\ bytes_left \in Nat /\ bytes_left > 0
      /\ skipped = HeadSize
      /\ ReadableTo(Pos) => /\ CanRead
                            /\ AtMarker <=> Pos > FirstByte /\ MarkerAt(Pos - 1)
  BY <1>2, InLoops
<1>4. bytes_left' \in Nat /\ bytes_left' <= bytes_left - 1
  BY <1>2, <1>3
<1>5. /\ decompress_cache' \in [0 .. CacheSize - 1 -> Bytes]
      /\ decompress_cache_offset' \in 0 .. CacheSize - 1
      /\ decompress_file_offset' \in Int
      /\ decompress_file_offset' >= fork.start - 1 - (skipped' + fork.size - bytes_left')
      /\ decompress_file_offset' <= fork.start \/ decompress_file_offset' <= Len(fork.device) + 1
      /\ skipped' \in 0 .. HeadSize /\ bytes_left' \in 0 .. fork.size
      /\ Pos' = Pos + 1 /\ CacheHolds'
      /\ CanRead' <=> ReadableTo(Pos)
      /\ CanRead' => c2' = IF Pos' = FirstByte' THEN NoByte ELSE fork'.device[Pos' - 1]
  BY <1>2, <1>4, TurnOfLoop
<1>6. /\ out = <<>> /\ buffer_in = <<>> /\ Len(out) = 0
  BY <1>1, <1>2 DEF Phase
<1>7. unpack_pc' \in {"done", "blocks", "find"} /\ (unpack_pc' # "done" => bytes_left' > 0)
  <2>1. unpack_pc' \in {"done", "blocks", "find"} /\ (unpack_pc' # "done" => bytes_left' # 0)
    BY <1>2
  <2>2. PICK l \in Nat : l = bytes_left'
    BY <1>4
  <2>3. l # 0 => l > 0
    OBVIOUS
  <2> QED
    BY <2>1, <2>2, <2>3
<1>8. buffer_in' \in Seq(Bytes) /\ Len(buffer_in') <= BufferMax + 1 /\ BufferMax \in Nat
  <2>1. Marker \in Seq(Bytes) /\ Len(Marker) = 2 /\ BufferMax \in Nat /\ BufferMax > 1
    BY CopySizes
  <2>2. <<>> \in Seq(Bytes) /\ Len(<<>>) = 0
    OBVIOUS
  <2>3. CASE unpack_pc' = "blocks"
    <3>1. buffer_in' = Marker
      BY <1>2, <2>3
    <3>2. Len(Marker) <= BufferMax + 1
      BY <2>1
    <3> QED
      BY <2>1, <3>1, <3>2
  <2>4. CASE unpack_pc' # "blocks"
    BY <1>2, <1>6, <2>1, <2>2, <2>4
  <2> QED
    BY <2>1, <2>3, <2>4
<1>9. UnpackTypeOK'
  BY <1>1, <1>2, <1>5, <1>7, <1>8 DEF UnpackTypeOK
<1>10. Shape'
  BY <1>1, <1>2, <1>5, <1>8 DEF Shape
<1>11. Phase'
  <2>1. Len(Marker) = 2 /\ BufferMax \in Nat /\ BufferMax > 1
    BY CopySizes
  <2>2. unpack_pc' = "blocks" => Len(buffer_in') \in 2 .. BufferMax
    <3>1. unpack_pc' = "blocks" => buffer_in' = Marker
      BY <1>2
    <3>2. Len(Marker) \in 2 .. BufferMax
      BY <2>1
    <3> QED
      BY <3>1, <3>2
  <2>3. unpack_pc' = "find" => out' = <<>> /\ buffer_in' = <<>>
    BY <1>2, <1>6
  <2> QED
    BY <1>2, <1>3, <1>7, <2>2, <2>3 DEF Phase
<1>12. BytesRight' /\ Before'
  BY <1>5 DEF BytesRight, Before
<1>13. /\ FirstByte' = FirstByte /\ chunks' = chunks
       /\ LastByte' = LastByte
       /\ \A i : StartOf(i)' = StartOf(i) /\ EndOf(i)' = EndOf(i) /\ (Sound(i)' <=> Sound(i))
       /\ \A a : (ReadableTo(a)' <=> ReadableTo(a))
            /\ (MarkerAt(a)' <=> MarkerAt(a))
       /\ \A s, a : Lies(fork, s, a)' <=> Lies(fork, s, a)
  BY <1>2, SameFork
<1>14. Searched'
  <2> SUFFICES ASSUME unpack_pc' = "find", ReadableTo(Pos), NEW m \in FirstByte .. Pos - 1
               PROVE  ~MarkerAt(m)
    <3>1. Pos' - 2 = Pos - 1
      BY <1>3, <1>5
    <3> QED
      BY <1>5, <1>13, <3>1 DEF Searched
  <2>1. ~AtMarker /\ CanRead
    BY <1>2, <1>3
  <2>2. \A n \in FirstByte .. Pos - 2 : ~MarkerAt(n)
    BY <1>2, <2>1 DEF CopyInv, Searched
  <2>3. CASE m = Pos - 1
    BY <1>3, <2>1, <2>3
  <2>4. CASE m # Pos - 1
    BY <1>3, <2>2, <2>4
  <2> QED
    BY <2>3, <2>4
<1>15. ASSUME unpack_pc' = "blocks"
       PROVE  /\ buffer_in' = Marker /\ Begun' = Pos - 1 /\ Pos' - 2 = Pos - 1
              /\ AtMarker
  <2>1. buffer_in' = Marker /\ Len(Marker) = 2 /\ AtMarker
    BY <1>2, <1>15, CopySizes
  <2>2. Begun' = Pos' - Len(buffer_in')
    BY DEF Begun
  <2>3. Begun' = Pos + 1 - 2 /\ Pos' - 2 = Pos + 1 - 2
    <3>1. Len(buffer_in') = 2
      BY <2>1
    <3>2. Pos' = Pos + 1
      BY <1>5
    <3>3. PICK p \in Nat : p = Pos + 1
      BY <1>3
    <3>4. Pos' = p /\ p \in Int
      BY <3>2, <3>3
    <3>5. Begun' = p - 2 /\ Pos' - 2 = p - 2
      BY <2>2, <3>1, <3>4
    <3>6. p - 2 = Pos + 1 - 2
      BY <1>3, <3>3
    <3> QED
      BY <3>5, <3>6
  <2>4. Pos + 1 - 2 = Pos - 1
    BY <1>3
  <2> QED
    BY <2>1, <2>3, <2>4
(* The search ends at the first chunk.                                     *)
<1>16. ASSUME unpack_pc' = "blocks", 1 \in DOMAIN chunks, StartOf(1) = Pos - 1 PROVE OnChunk'
  <2>1. Len(chunks) > 0 /\ Len(chunks) \in Nat
    BY <1>3, <1>16, ForkOf
  <2>2. Len(out') = 0 /\ Len(out') < Len(chunks') /\ Len(out') + 1 = 1
    BY <1>2, <1>6, <1>13, <2>1
  <2>3. Begun' = StartOf(1)'
    BY <1>13, <1>15, <1>16
  <2>4. Begun' + 1 .. Pos' - 2 = {}
    BY <1>3, <1>15, <1>16
  <2> QED
    BY <2>2, <2>3, <2>4 DEF OnChunk
<1>17. Collected'
  <2> SUFFICES ASSUME unpack_pc' = "blocks", ReadableTo(Pos)
               PROVE  /\ Begun' >= FirstByte
                      /\ \A k \in 1 .. Len(buffer_in') : buffer_in'[k] = fork.device[Begun' + k - 1]
                      /\ OnChunk' \/ Nowhere'
    BY <1>2, <1>5, <1>13 DEF Collected
  <2>1. /\ buffer_in' = Marker /\ Begun' = Pos - 1 /\ AtMarker
    BY <1>15
  <2>2. Pos > FirstByte /\ MarkerAt(Pos - 1) /\ CanRead
    BY <1>3, <2>1
  <2>3. Pos - 1 \in Nat \ {0} /\ Pos - 1 >= FirstByte
    BY <1>3, <2>2
  <2>4. \A k \in 1 .. Len(Marker) : Marker[k] = fork.device[Pos - 1 + k - 1]
    BY <1>3, <2>2, <2>3, MarkerTaken
  <2>5. ASSUME ~Nowhere' PROVE OnChunk'
    <3>1. PICK s \in Streams : Lies(fork, s, Pos - 1)
      BY <1>2, <2>1, <2>5 DEF Nowhere
    <3>2. 1 \in DOMAIN chunks /\ StartOf(1) = Pos - 1
      BY <1>2, <2>2, <3>1, FoundIsFirst
    <3> QED
      BY <1>16, <3>2
  <2> QED
    BY <2>1, <2>3, <2>4, <2>5
<1>18. NoHole'
  <2>1. FirstOnes
    BY <1>3, <1>6, NotWriting
  <2>2. FirstOnes'
    BY <1>2, <2>1, SameFork DEF FirstOnes
  <2> QED
    BY <2>2 DEF NoHole
<1>19. Kept'
  <2> SUFFICES ASSUME NEW i \in DOMAIN chunks, Sound(i)
               PROVE  /\ unpack_pc' = "find" => CanRead'
                      /\ unpack_pc' = "blocks" => CanRead' /\ OnChunk' /\ Len(out') < i
                      /\ unpack_pc' = "done" => FALSE
    BY <1>13 DEF Kept
  <2>1. /\ 1 \in DOMAIN chunks /\ Sound(1) /\ StartOf(1) \in Nat
        /\ CanRead /\ ReadableTo(Pos) /\ Pos < LastByte /\ Pos <= StartOf(1) + 1
        /\ \A a \in FirstByte .. StartOf(1) - 1 : ~MarkerAt(a)
    BY <1>2, FirstIsAhead
  <2>2. CanRead'
    BY <1>5, <2>1
  <2>3. unpack_pc' # "done"
    BY <1>2, <1>3, <2>1
  <2>4. ASSUME unpack_pc' = "blocks" PROVE OnChunk' /\ Len(out') < i
    <3>1. Pos > FirstByte /\ MarkerAt(Pos - 1)
      BY <1>3, <1>15, <2>1, <2>4
    <3>2. ~(Pos - 1 < StartOf(1))
      <4>1. Pos - 1 < StartOf(1) => Pos - 1 \in FirstByte .. StartOf(1) - 1
        BY <1>3, <2>1, <3>1
      <4> QED
        BY <2>1, <3>1, <4>1
    <3>3. StartOf(1) = Pos - 1
      BY <1>3, <2>1, <3>2
    <3>4. i > 0 /\ i \in Nat
      BY <1>3, ForkOf
    <3> QED
      BY <1>2, <1>6, <1>16, <2>1, <2>4, <3>3, <3>4
  <2> QED
    BY <2>2, <2>3, <2>4
<1> QED
  BY <1>9, <1>10, <1>11, <1>12, <1>14, <1>17, <1>18, <1>19 DEF CopyInv
(* What both steps of the blocks do.                                       *)
LEMMA Takes ==
  ASSUME CopyInv, TakeByte
  PROVE  /\ unpack_pc = "blocks" /\ unpack_pc' \in {"blocks", "done"}
         /\ fork' = fork /\ skipped' = skipped /\ skipped = HeadSize /\ c2' = Char
         /\ restored' = (unpack_pc' = "done")
         /\ decompress_cache' \in [0 .. CacheSize - 1 -> Bytes]
         /\ decompress_cache_offset' \in 0 .. CacheSize - 1
         /\ decompress_file_offset' \in Int
         /\ decompress_file_offset' >= fork.start - 1 - (skipped' + fork.size - bytes_left')
         /\ decompress_file_offset' <= fork.start \/ decompress_file_offset' <= Len(fork.device) + 1
         /\ skipped' \in 0 .. HeadSize /\ bytes_left' \in 0 .. fork.size
         /\ unpack_pc' = "done" <=> Len(Taken) > BufferMax \/ bytes_left = 1
         /\ unpack_pc' = "blocks" =>
              /\ bytes_left' > 0 /\ bytes_left # 1 /\ Len(Taken) <= BufferMax
              /\ Pos' = Pos + 1 /\ CacheHolds'
              /\ CanRead' <=> ReadableTo(Pos)
              /\ CanRead' => c2' = IF Pos' = FirstByte' THEN NoByte ELSE fork'.device[Pos' - 1]
<1>1. /\ unpack_pc = "blocks" /\ GetChar /\ c2' = Char /\ bytes_left' = BytesLeft
      /\ unpack_pc' = IF bytes_left' = 0 THEN "done" ELSE "blocks"
      /\ restored' = (unpack_pc' = "done")
      /\ fork' = fork /\ skipped' = skipped
  BY DEF TakeByte
<1>2. bytes_left \in Nat /\ bytes_left > 0 /\ skipped = HeadSize
  BY <1>1, InLoops
<1>3. Len(Taken) \in Nat /\ BufferMax \in Nat
  BY <1>1, TakenIs
<1>4. PICK l \in Nat : /\ l = bytes_left' /\ l <= bytes_left - 1
                       /\ l = 0 <=> Len(Taken) > BufferMax \/ bytes_left = 1
                       /\ l # 0 => l = bytes_left - 1
  <2>1. CASE Len(Taken) > BufferMax
    BY <1>1, <1>2, <2>1 DEF BytesLeft
  <2>2. CASE ~(Len(Taken) > BufferMax)
    <3>1. bytes_left' = bytes_left - 1
      BY <1>1, <2>2 DEF BytesLeft
    <3>2. PICK l \in Nat : l = bytes_left - 1
      BY <1>2
    <3>3. l = 0 <=> bytes_left = 1
      BY <1>2, <3>2
    <3>4. l <= bytes_left - 1 /\ (l # 0 => l = bytes_left - 1) /\ l = bytes_left'
      BY <1>2, <3>1, <3>2
    <3>5. l = 0 <=> Len(Taken) > BufferMax \/ bytes_left = 1
      BY <2>2, <3>3
    <3> QED
      BY <3>4, <3>5
  <2> QED
    BY <2>1, <2>2
<1>5. bytes_left' \in Nat /\ bytes_left' <= bytes_left - 1
  BY <1>4
<1>6. /\ decompress_cache' \in [0 .. CacheSize - 1 -> Bytes]
      /\ decompress_cache_offset' \in 0 .. CacheSize - 1
      /\ decompress_file_offset' \in Int
      /\ decompress_file_offset' >= fork.start - 1 - (skipped' + fork.size - bytes_left')
      /\ decompress_file_offset' <= fork.start \/ decompress_file_offset' <= Len(fork.device) + 1
      /\ skipped' \in 0 .. HeadSize /\ bytes_left' \in 0 .. fork.size
      /\ bytes_left' = bytes_left - 1 =>
           /\ Pos' = Pos + 1 /\ CacheHolds'
           /\ CanRead' <=> ReadableTo(Pos)
           /\ CanRead' => c2' = IF Pos' = FirstByte' THEN NoByte ELSE fork'.device[Pos' - 1]
  BY <1>1, <1>5, TurnOfLoop
<1>7. unpack_pc' \in {"blocks", "done"} /\ (unpack_pc' = "done" <=> l = 0)
  BY <1>1, <1>4
<1>8. unpack_pc' = "done" <=> Len(Taken) > BufferMax \/ bytes_left = 1
  BY <1>4, <1>7
<1>9. unpack_pc' = "blocks" => l # 0
  BY <1>1, <1>4
<1>10. unpack_pc' = "blocks" => /\ bytes_left' > 0 /\ bytes_left # 1 /\ Len(Taken) <= BufferMax
                                /\ bytes_left' = bytes_left - 1
  <2>1. l # 0 => l > 0 /\ l = bytes_left - 1 /\ bytes_left # 1 /\ ~(Len(Taken) > BufferMax)
    <3>1. l # 0 => l > 0
      OBVIOUS
    <3>2. (l # 0 => l = bytes_left - 1) /\ (l = 0 <=> Len(Taken) > BufferMax \/ bytes_left = 1)
      BY <1>4
    <3> QED
      BY <3>1, <3>2
  <2>2. ~(Len(Taken) > BufferMax) => Len(Taken) <= BufferMax
    BY <1>3
  <2> QED
    BY <1>4, <1>9, <2>1, <2>2
<1> QED
  BY <1>1, <1>2, <1>6, <1>7, <1>8, <1>10

LEMMA CollectStep ==
  CopyInv /\ Collect => CopyInv'
<1> SUFFICES ASSUME CopyInv, Collect PROVE CopyInv'
  OBVIOUS
<1>1. UnpackTypeOK /\ Shape /\ Phase
  BY DEF CopyInv
<1>2. TakeByte /\ (~Tried \/ Uncompress(Taken) = {})
    /\ buffer_in' = Taken /\ out' = out
  BY DEF Collect
<1>3. /\ unpack_pc = "blocks" /\ unpack_pc' \in {"blocks", "done"}
      /\ fork' = fork /\ skipped' = skipped /\ skipped = HeadSize
      /\ restored' = (unpack_pc' = "done")
      /\ decompress_cache' \in [0 .. CacheSize - 1 -> Bytes]
      /\ decompress_cache_offset' \in 0 .. CacheSize - 1
      /\ decompress_file_offset' \in Int
      /\ decompress_file_offset' >= fork.start - 1 - (skipped' + fork.size - bytes_left')
      /\ decompress_file_offset' <= fork.start \/ decompress_file_offset' <= Len(fork.device) + 1
      /\ skipped' \in 0 .. HeadSize /\ bytes_left' \in 0 .. fork.size
      /\ unpack_pc' = "done" <=> Len(Taken) > BufferMax \/ bytes_left = 1
      /\ unpack_pc' = "blocks" =>
           /\ bytes_left' > 0 /\ bytes_left # 1 /\ Len(Taken) <= BufferMax
           /\ Pos' = Pos + 1 /\ CacheHolds'
           /\ CanRead' <=> ReadableTo(Pos)
           /\ CanRead' => c2' = IF Pos' = FirstByte' THEN NoByte ELSE fork'.device[Pos' - 1]
  BY <1>2, Takes
<1>4. /\ fork \in Forks /\ Pos \in Nat /\ FirstByte \in Nat /\ LastByte \in Nat
      /\ Pos >= FirstByte /\ Pos <= LastByte
      /\ Pos = LastByte <=> bytes_left = 1
      /\ ReadableTo(Pos) => /\ CanRead
                            /\ AtMarker <=> Pos > FirstByte /\ MarkerAt(Pos - 1)
  BY <1>3, InLoops
<1>5. /\ Taken \in Seq(Bytes) /\ Len(Taken) = Len(buffer_in) + 1
      /\ Len(buffer_in) \in 2 .. BufferMax /\ BufferMax \in Nat
      /\ Begun \in Int /\ Begun = Pos - Len(buffer_in)
  BY <1>3, TakenIs
<1>6. /\ FirstByte' = FirstByte /\ chunks' = chunks
      /\ LastByte' = LastByte
      /\ \A i : StartOf(i)' = StartOf(i) /\ EndOf(i)' = EndOf(i) /\ (Sound(i)' <=> Sound(i))
      /\ \A a : (ReadableTo(a)' <=> ReadableTo(a))
           /\ (MarkerAt(a)' <=> MarkerAt(a))
      /\ \A s, a : Lies(fork, s, a)' <=> Lies(fork, s, a)
  BY <1>3, SameFork
<1>7. UnpackTypeOK'
  <2>1. Len(Taken) <= BufferMax + 1
    BY <1>5
  <2>2. restored' \in BOOLEAN
    BY <1>3
  <2> QED
    BY <1>1, <1>2, <1>3, <2>1, <2>2 DEF UnpackTypeOK
<1>8. Shape'
  BY <1>1, <1>2, <1>3, <1>5 DEF Shape
<1>9. Phase'
  <2>1. unpack_pc' = "blocks" => Len(buffer_in') \in 2 .. BufferMax
    <3>1. Len(Taken) <= BufferMax => Len(Taken) \in 2 .. BufferMax
      BY <1>5
    <3> QED
      BY <1>2, <1>3, <3>1
  <2> QED
    BY <1>3, <2>1 DEF Phase
<1>10. BytesRight' /\ Before' /\ Searched'
  BY <1>3 DEF BytesRight, Before, Searched
<1>11. unpack_pc' = "blocks" => Begun' = Begun
  <2>1. ASSUME unpack_pc' = "blocks" PROVE Begun' = Begun
    <3>1. Begun' = Pos' - Len(buffer_in')
      BY DEF Begun
    <3>2. Pos' = Pos + 1 /\ Len(buffer_in') = Len(buffer_in) + 1
      BY <1>2, <1>3, <1>5, <2>1
    <3>3. PICK p \in Nat, l \in Nat : p = Pos + 1 /\ l = Len(buffer_in) + 1
      <4>1. Pos + 1 \in Nat /\ Len(buffer_in) + 1 \in Nat
        BY <1>4, <1>5
      <4> QED
        BY <4>1
    <3>4. Pos' = p /\ Len(buffer_in') = l
      BY <3>2, <3>3
    <3>5. Begun' = p - l
      BY <3>1, <3>4
    <3>6. p - l = Begun
      BY <1>4, <1>5, <3>3
    <3> QED
      BY <3>5, <3>6
  <2> QED
    BY <2>1
(* A marker behind the chunk would have inflated it.                       *)
<1>12. ASSUME unpack_pc' = "blocks", OnChunk, ReadableTo(Pos) PROVE OnChunk'
  <2>1. ASSUME NEW m \in Begun + 1 .. Pos - 1, MarkerAt(m)
        PROVE  m + 2 < EndOf(Len(out) + 1)
    <3>1. CASE m = Pos - 1
      <4>1. Begun >= FirstByte
        BY <1>3, <1>12, TakenLies
      <4>2. AtMarker
        BY <1>4, <1>5, <1>12, <2>1, <3>1, <4>1
      <4>3. Uncompress(Taken) = {}
        BY <1>2, <4>2 DEF Tried
      <4>4. ~(EndOf(Len(out) + 1) <= Pos + 1)
        BY <1>3, <1>12, <4>3, WholeChunkInflates
      <4>5. Len(out) + 1 \in DOMAIN chunks
        <5>1. DOMAIN chunks = 1 .. Len(chunks) /\ Len(chunks) \in Nat
          BY <1>4, ForkOf
        <5>2. out \in Seq(Streams) /\ Len(out) < Len(chunks)
          BY <1>1, <1>12 DEF UnpackTypeOK, OnChunk
        <5> QED
          BY <5>1, <5>2
      <4>6. EndOf(Len(out) + 1) \in Nat
        BY <1>4, <4>5, ChunkIs
      <4> QED
        BY <1>4, <3>1, <4>4, <4>6
    <3>2. CASE m # Pos - 1
      <4>1. m \in Begun + 1 .. Pos - 2
        BY <1>4, <1>5, <3>2
      <4> QED
        BY <1>12, <2>1, <4>1 DEF OnChunk
    <3> QED
      BY <3>1, <3>2
  <2>2. Pos' - 2 = Pos - 1 /\ Begun' = Begun
    BY <1>3, <1>4, <1>11, <1>12
  <2>3. Len(out) < Len(chunks) /\ Begun = StartOf(Len(out) + 1)
    BY <1>12 DEF OnChunk
  <2>4. Len(out') < Len(chunks') /\ Begun' = StartOf(Len(out) + 1)' /\ Len(out') + 1 = Len(out) + 1
    BY <1>2, <1>6, <2>2, <2>3
  <2> QED
    BY <1>2, <1>6, <2>1, <2>2, <2>4 DEF OnChunk
<1>13. Collected'
  <2> SUFFICES ASSUME unpack_pc' = "blocks", ReadableTo(Pos)
               PROVE  /\ Begun >= FirstByte
                      /\ \A k \in 1 .. Len(Taken) : Taken[k] = fork.device[Begun + k - 1]
                      /\ OnChunk' \/ Nowhere'
    BY <1>2, <1>3, <1>6, <1>11 DEF Collected
  <2>1. /\ Begun >= FirstByte
        /\ \A k \in 1 .. Len(Taken) : Taken[k] = fork.device[Begun + k - 1]
        /\ OnChunk \/ Nowhere
    BY <1>3, TakenLies
  <2>2. Nowhere => Nowhere'
    BY <1>3, <1>6, <1>11 DEF Nowhere, Lies
  <2> QED
    BY <1>12, <2>1, <2>2
<1>14. NoHole'
  <2> SUFFICES ASSUME IF unpack_pc' = "done" THEN ReadableTo(LastByte) ELSE ReadableTo(Pos)
               PROVE  FirstOnes
    BY <1>2, <1>3, <1>6 DEF NoHole, FirstOnes
  <2>1. ReadableTo(Pos)
    BY <1>3, <1>4, ReadsBefore
  <2> QED
    BY <1>3, <1>4, <2>1 DEF CopyInv, NoHole
<1>15. Kept'
  <2> SUFFICES ASSUME NEW i \in DOMAIN chunks, Sound(i)
               PROVE  /\ unpack_pc' = "blocks" => Written(i)'
                           \/ (CanRead' /\ OnChunk' /\ Len(out') < i)
                      /\ unpack_pc' = "done" => restored' /\ Written(i)'
    BY <1>3, <1>6 DEF Kept
  <2>1. Written(i)' <=> Written(i)
    BY <1>2, <1>6 DEF Written
  <2>2. CASE Written(i)
    BY <1>3, <2>1, <2>2
  <2>3. CASE ~Written(i)
    <3>1. PICK k \in DOMAIN chunks :
            /\ k = Len(out) + 1 /\ k <= i /\ Sound(k) /\ OnChunk /\ CanRead
            /\ Pos <= Inflated(k) /\ ReadableTo(Pos) /\ Len(Taken) <= BufferMax
      BY <1>3, <2>3, SoundIsAhead
    <3>2. ASSUME unpack_pc' = "blocks" PROVE CanRead' /\ OnChunk' /\ Len(out') < i
      <4>1. CanRead' /\ OnChunk'
        BY <1>3, <1>12, <3>1, <3>2
      <4>2. Len(out) < i
        BY <1>3, <2>3 DEF CopyInv, Kept
      <4> QED
        BY <1>2, <4>1, <4>2
    <3>3. ASSUME unpack_pc' = "done" PROVE FALSE
      <4>1. bytes_left = 1
        BY <1>3, <1>5, <3>1, <3>3
      <4>2. Pos = LastByte /\ Uncompress(Taken) = {}
        BY <1>2, <1>4, <4>1 DEF Tried
      <4>3. EndOf(k) - 1 <= LastByte /\ EndOf(k) \in Nat
        BY <1>4, <3>1, SoundIs, ChunkIs
      <4>4. EndOf(Len(out) + 1) <= Pos + 1
        BY <1>4, <3>1, <4>2, <4>3
      <4> QED
        BY <1>3, <3>1, <4>2, <4>4, WholeChunkInflates
    <3> QED
      BY <3>2, <3>3
  <2> QED
    BY <2>2, <2>3
<1> QED
  BY <1>7, <1>8, <1>9, <1>10, <1>13, <1>14, <1>15 DEF CopyInv
LEMMA InflateStep ==
  CopyInv /\ Inflate => CopyInv'
<1> SUFFICES ASSUME CopyInv, Inflate PROVE CopyInv'
  OBVIOUS
<1>1. UnpackTypeOK /\ Shape /\ Phase
  BY DEF CopyInv
<1>2. PICK s \in Uncompress(Taken) : out' = Append(out, s)
  BY DEF Inflate
<1>3. TakeByte /\ Tried /\ buffer_in' = Marker /\ s \in Streams
  BY DEF Inflate, Uncompress
<1>4. /\ unpack_pc = "blocks" /\ unpack_pc' \in {"blocks", "done"}
      /\ fork' = fork /\ skipped' = skipped /\ skipped = HeadSize
      /\ restored' = (unpack_pc' = "done")
      /\ decompress_cache' \in [0 .. CacheSize - 1 -> Bytes]
      /\ decompress_cache_offset' \in 0 .. CacheSize - 1
      /\ decompress_file_offset' \in Int
      /\ decompress_file_offset' >= fork.start - 1 - (skipped' + fork.size - bytes_left')
      /\ decompress_file_offset' <= fork.start \/ decompress_file_offset' <= Len(fork.device) + 1
      /\ skipped' \in 0 .. HeadSize /\ bytes_left' \in 0 .. fork.size
      /\ unpack_pc' = "done" <=> Len(Taken) > BufferMax \/ bytes_left = 1
      /\ unpack_pc' = "blocks" =>
           /\ bytes_left' > 0 /\ bytes_left # 1 /\ Len(Taken) <= BufferMax
           /\ Pos' = Pos + 1 /\ CacheHolds'
           /\ CanRead' <=> ReadableTo(Pos)
           /\ CanRead' => c2' = IF Pos' = FirstByte' THEN NoByte ELSE fork'.device[Pos' - 1]
  BY <1>3, Takes
<1>5. /\ fork \in Forks /\ Pos \in Nat /\ FirstByte \in Nat /\ LastByte \in Nat
      /\ FirstByte >= 1
      /\ Pos >= FirstByte /\ Pos <= LastByte
      /\ Pos = LastByte <=> bytes_left = 1
      /\ ReadableTo(Pos) => /\ CanRead
                            /\ AtMarker <=> Pos > FirstByte /\ MarkerAt(Pos - 1)
  BY <1>4, InLoops
<1>6. /\ FirstByte' = FirstByte /\ chunks' = chunks
      /\ LastByte' = LastByte
      /\ \A i : StartOf(i)' = StartOf(i) /\ EndOf(i)' = EndOf(i) /\ (Sound(i)' <=> Sound(i))
      /\ \A a : (ReadableTo(a)' <=> ReadableTo(a))
           /\ (MarkerAt(a)' <=> MarkerAt(a))
      /\ \A t, a : Lies(fork, t, a)' <=> Lies(fork, t, a)
  BY <1>4, SameFork
<1>7. /\ Marker \in Seq(Bytes) /\ Len(Marker) = 2 /\ BufferMax \in Nat /\ BufferMax > 1
      /\ Len(Marker) <= BufferMax + 1 /\ Len(Marker) \in 2 .. BufferMax
  <2>1. Marker \in Seq(Bytes) /\ Len(Marker) = 2 /\ BufferMax \in Nat /\ BufferMax > 1
    BY CopySizes
  <2>2. 2 <= BufferMax + 1 /\ 2 \in 2 .. BufferMax
    BY <2>1
  <2> QED
    BY <2>1, <2>2
<1>8. /\ out \in Seq(Streams) /\ out' \in Seq(Streams) /\ Len(out) \in Nat
      /\ Len(out') = Len(out) + 1 /\ out'[Len(out) + 1] = s
      /\ \A k \in 1 .. Len(out) : out'[k] = out[k]
  <2>1. out \in Seq(Streams)
    BY <1>1 DEF UnpackTypeOK
  <2> QED
    BY <1>2, <1>3, <2>1
<1>9. /\ DOMAIN chunks = 1 .. Len(chunks) /\ Len(chunks) \in Nat
  BY <1>5, ForkOf
<1>10. UnpackTypeOK'
  <2>1. restored' \in BOOLEAN
    BY <1>4
  <2> QED
    BY <1>3, <1>4, <1>7, <1>8, <2>1 DEF UnpackTypeOK
<1>11. Shape'
  BY <1>1, <1>3, <1>4, <1>7 DEF Shape
<1>12. Phase'
  BY <1>3, <1>4, <1>7 DEF Phase
<1>13. BytesRight' /\ Before' /\ Searched'
  BY <1>4 DEF BytesRight, Before, Searched
<1>14. ASSUME unpack_pc' = "blocks" PROVE Begun' = Pos - 1 /\ Pos' - 2 = Pos - 1 /\ AtMarker
  <2>1. Begun' = Pos' - Len(buffer_in')
    BY DEF Begun
  <2>2. Pos' = Pos + 1 /\ Len(buffer_in') = 2
    BY <1>3, <1>4, <1>7, <1>14
  <2>3. PICK p \in Nat : p = Pos + 1
    BY <1>5
  <2>4. Begun' = p - 2 /\ Pos' - 2 = p - 2
    BY <2>1, <2>2, <2>3
  <2>5. p - 2 = Pos - 1
    BY <1>5, <2>3
  <2>6. AtMarker
    BY <1>3, <1>4, <1>14 DEF Tried
  <2> QED
    BY <2>4, <2>5, <2>6
(* What has been inflated of readable bytes is the next chunk, k.          *)
<1>15. ASSUME ReadableTo(Pos)
       PROVE  \E k \in DOMAIN chunks :
                /\ k = Len(out) + 1 /\ s = chunks[k].stream /\ Begun = StartOf(k)
                /\ EndOf(k) <= Pos + 1 /\ Begun < Pos - 1
                /\ \A m \in Begun + 1 .. Pos - 2 : MarkerAt(m) => m + 2 < EndOf(k)
  <2>1. /\ OnChunk /\ s = chunks[Len(out) + 1].stream
        /\ EndOf(Len(out) + 1) <= Pos + 1 /\ Begun < Pos - 1
    BY <1>4, <1>15, InflatedIsNext
  <2>2. PICK k \in DOMAIN chunks : k = Len(out) + 1
    BY <1>8, <1>9, <2>1 DEF OnChunk
  <2> QED
    BY <2>1, <2>2 DEF OnChunk
(* No chunk behind it begins in front of the marker.                       *)
<1>16. ASSUME ReadableTo(Pos), NEW j \in DOMAIN chunks, j > Len(out) + 1
       PROVE  ~(StartOf(j) < Pos - 1)
  <2>1. PICK k \in DOMAIN chunks :
                /\ k = Len(out) + 1 /\ s = chunks[k].stream /\ Begun = StartOf(k)
                /\ EndOf(k) <= Pos + 1 /\ Begun < Pos - 1
                /\ \A m \in Begun + 1 .. Pos - 2 : MarkerAt(m) => m + 2 < EndOf(k)
    BY <1>15, <1>16
  <2>2. /\ StartOf(k) \in Nat /\ EndOf(k) \in Nat /\ StartOf(k) < EndOf(k)
        /\ StartOf(j) \in Nat /\ MarkerAt(StartOf(j)) /\ EndOf(k) <= StartOf(j)
    BY <1>5, <1>16, <2>1, ChunkIs, ChunkBehindHead, ChunksInOrder
  <2>3. StartOf(j) < Pos - 1 => StartOf(j) \in Begun + 1 .. Pos - 2
    BY <1>5, <2>1, <2>2
  <2>4. ~(StartOf(j) + 2 < EndOf(k))
    BY <2>2
  <2> QED
    BY <2>1, <2>2, <2>3, <2>4
<1>17. ASSUME unpack_pc' = "blocks", Len(out) + 2 \in DOMAIN chunks, StartOf(Len(out) + 2) = Pos - 1
       PROVE  OnChunk'
  <2> PICK n \in DOMAIN chunks : n = Len(out) + 2
    BY <1>17
  <2>1. Len(out') < Len(chunks') /\ Len(out') + 1 = n
    BY <1>6, <1>8, <1>9
  <2>2. Begun' = StartOf(n)' /\ Begun' = Pos - 1 /\ Pos' - 2 = Pos - 1
    BY <1>6, <1>14, <1>17
  <2>3. Begun' + 1 .. Pos' - 2 = {}
    BY <1>5, <2>2
  <2> QED
    BY <2>1, <2>2, <2>3 DEF OnChunk
<1>18. Collected'
  <2> SUFFICES ASSUME unpack_pc' = "blocks", ReadableTo(Pos)
               PROVE  /\ Begun' >= FirstByte
                      /\ \A k \in 1 .. Len(buffer_in') : buffer_in'[k] = fork.device[Begun' + k - 1]
                      /\ OnChunk' \/ Nowhere'
    BY <1>4, <1>6 DEF Collected
  <2>1. Begun' = Pos - 1 /\ AtMarker
    BY <1>14
  <2>2. Pos > FirstByte /\ MarkerAt(Pos - 1)
    BY <1>5, <2>1
  <2>3. Pos - 1 \in Nat \ {0} /\ Pos - 1 >= FirstByte /\ Pos - 1 \in Nat
    BY <1>5, <2>2
  <2>4. \A k \in 1 .. Len(Marker) : Marker[k] = fork.device[Pos - 1 + k - 1]
    BY <1>5, <2>2, <2>3, MarkerTaken
  <2>5. ASSUME ~Nowhere' PROVE OnChunk'
    <3>1. PICK t \in Streams : Lies(fork, t, Pos - 1)
      BY <1>4, <2>1, <2>5 DEF Nowhere
    <3>2. PICK j \in DOMAIN chunks : StartOf(j) = Pos - 1
        \/ (StartOf(j) < Pos - 1 /\ Pos - 1 + 2 < EndOf(j))
      BY <1>5, <2>3, <3>1, StreamsAreChunks
    <3>3. PICK k \in DOMAIN chunks :
                /\ k = Len(out) + 1 /\ Begun = StartOf(k)
                /\ EndOf(k) <= Pos + 1 /\ Begun < Pos - 1
      BY <1>15
    <3>4. StartOf(j) \in Nat /\ EndOf(j) \in Nat /\ StartOf(j) < EndOf(j) /\ StartOf(k) \in Nat
        /\ EndOf(k) \in Nat
      BY <1>5, ChunkIs
    <3>5. k < j
      <4>1. CASE j = k
        BY <1>5, <3>2, <3>3, <3>4, <4>1
      <4>2. CASE j < k
        <5>1. EndOf(j) <= StartOf(k)
          BY <1>5, <4>2, ChunksInOrder
        <5> QED
          BY <1>5, <3>2, <3>3, <3>4, <5>1
      <4> QED
        BY <1>9, <4>1, <4>2
    <3>6. StartOf(j) = Pos - 1
      BY <1>16, <3>2, <3>3, <3>5
    <3>7. k + 1 \in DOMAIN chunks /\ k + 1 > Len(out) + 1 /\ k + 1 = Len(out) + 2
      BY <1>8, <1>9, <3>3, <3>5
    <3>8. j = k + 1
      <4>1. CASE k + 1 < j
        <5>1. EndOf(k + 1) <= StartOf(j) /\ StartOf(k + 1) \in Nat /\ EndOf(k + 1) \in Nat
            /\ StartOf(k + 1) < EndOf(k + 1)
          <6>1. PICK n \in DOMAIN chunks : n = k + 1
            BY <3>7
          <6>2. EndOf(n) <= StartOf(j)
            BY <1>5, <4>1, <6>1, ChunksInOrder
          <6>3. /\ StartOf(n) \in Nat /\ EndOf(n) \in Nat
                /\ EndOf(n) = StartOf(n) + Len(chunks[n].stream)
                /\ Len(chunks[n].stream) \in Nat /\ Len(chunks[n].stream) > 2
            BY <1>5, ChunkIs
          <6>4. StartOf(n) < EndOf(n)
            BY <6>3
          <6> QED
            BY <6>1, <6>2, <6>3, <6>4
        <5>2. StartOf(k + 1) < Pos - 1
          BY <1>5, <3>6, <5>1
        <5> QED
          BY <1>16, <3>7, <5>2
      <4> QED
        BY <1>9, <3>5, <4>1
    <3> QED
      BY <1>17, <3>6, <3>7, <3>8
  <2> QED
    BY <1>3, <2>1, <2>3, <2>4, <2>5
<1>19. NoHole'
  <2> SUFFICES ASSUME IF unpack_pc' = "done" THEN ReadableTo(LastByte) ELSE ReadableTo(Pos)
               PROVE  FirstOnes'
    BY <1>4, <1>6 DEF NoHole
  <2>1. ReadableTo(Pos)
    <3>1. CASE unpack_pc' = "done"
      <4>1. ReadableTo(LastByte)
        BY <3>1
      <4>2. PICK a \in Int, b \in Int : a = LastByte /\ b = Pos /\ b <= a
        BY <1>5
      <4>3. ReadableTo(b)
        BY <1>5, <4>1, <4>2, ReadsBefore
      <4> QED
        BY <4>2, <4>3
    <3>2. CASE unpack_pc' # "done"
      BY <3>2
    <3> QED
      BY <3>1, <3>2
  <2>2. FirstOnes
    BY <1>4, <1>5, <2>1 DEF CopyInv, NoHole
  <2>3. PICK k \in DOMAIN chunks : k = Len(out) + 1 /\ s = chunks[k].stream
    BY <1>15, <2>1
  <2>4. Len(out') <= Len(chunks)
    BY <1>8, <1>9, <2>3
  <2>5. \A n \in 1 .. Len(out') : out'[n] = chunks[n].stream
    <3> SUFFICES ASSUME NEW n \in 1 .. Len(out') PROVE out'[n] = chunks[n].stream
      OBVIOUS
    <3>1. n \in 1 .. Len(out) \/ n = Len(out) + 1
      BY <1>8
    <3> QED
      BY <1>8, <2>2, <2>3, <3>1 DEF FirstOnes
  <2> QED
    BY <1>6, <2>4, <2>5 DEF FirstOnes
<1>20. Kept'
  <2> SUFFICES ASSUME NEW i \in DOMAIN chunks, Sound(i)
               PROVE  /\ unpack_pc' = "blocks" => Written(i)'
                           \/ (CanRead' /\ OnChunk' /\ Len(out') < i)
                      /\ unpack_pc' = "done" => restored' /\ Written(i)'
    BY <1>4, <1>6 DEF Kept
  <2>1. Written(i) => Written(i)'
    <3>1. ASSUME Written(i) PROVE Written(i)'
      <4>1. i \in 1 .. Len(out) /\ out[i] = chunks[i].stream
        BY <1>9, <3>1 DEF Written
      <4>2. i <= Len(out') /\ out'[i] = chunks[i].stream
        BY <1>8, <4>1
      <4> QED
        BY <1>6, <4>2 DEF Written
    <3> QED
      BY <3>1
  <2>2. CASE Written(i)
    BY <1>4, <2>1, <2>2
  <2>3. CASE ~Written(i)
    <3>1. PICK k \in DOMAIN chunks :
            /\ k = Len(out) + 1 /\ k <= i /\ Sound(k) /\ OnChunk /\ CanRead
            /\ Pos <= Inflated(k) /\ ReadableTo(Pos) /\ Len(Taken) <= BufferMax
      BY <1>4, <2>3, SoundIsAhead
    <3>2. s = chunks[k].stream /\ EndOf(k) <= Pos + 1
      BY <1>15, <3>1
    <3>3. CASE i = k
      <4>1. i <= Len(out') /\ out'[i] = chunks[i].stream
        BY <1>8, <3>1, <3>2, <3>3
      <4>2. Written(i)'
        BY <1>6, <4>1 DEF Written
      <4> QED
        BY <1>4, <4>2
    <3>4. CASE i # k
      <4>1. k < i
        BY <1>9, <3>1, <3>4
      <4>2. /\ k + 1 \in DOMAIN chunks /\ Inflated(k) = StartOf(k + 1) + 1
            /\ StartOf(k + 1) + 2 <= LastByte
        BY <1>5, <4>1, SoundBefore
      <4>3. Sound(k + 1)
        <5>1. CASE k + 1 = i
          BY <5>1
        <5>2. CASE k + 1 < i
          BY <1>5, <4>2, <5>2, SoundBefore
        <5> QED
          BY <1>9, <4>1, <5>1, <5>2
      <4>4. StartOf(k + 1) \in Nat /\ EndOf(k) \in Nat
        BY <1>5, <4>2, ChunkIs
      <4>5. Pos <= StartOf(k + 1) + 1 /\ bytes_left # 1
        BY <1>5, <3>1, <4>2, <4>4
      <4>6. unpack_pc' = "blocks"
        BY <1>4, <1>7, <3>1, <4>5, TakenIs
      <4>7. MarkerAt(Pos - 1)
        BY <1>5, <1>14, <3>1, <4>6
      <4>8. Behind(k + 1) = EndOf(k) - 2
          /\ \A a \in Behind(k + 1) .. StartOf(k + 1) - 1 : ~MarkerAt(a)
        <5> PICK n \in DOMAIN chunks : n = k + 1
          BY <4>2
        <5>1. /\ \A a \in Behind(n) .. StartOf(n) - 1 : ~MarkerAt(a)
              /\ Behind(n) = IF n = 1 THEN FirstByte ELSE EndOf(n - 1) - 2
          BY <1>5, <4>3, SoundIs
        <5>2. n # 1 /\ n - 1 = k
          BY <1>9
        <5> QED
          BY <5>1, <5>2
      <4>9. ~(Pos - 1 < StartOf(k + 1))
        <5>1. Pos - 1 < StartOf(k + 1) => Pos - 1 \in Behind(k + 1) .. StartOf(k + 1) - 1
          BY <1>5, <3>2, <4>4, <4>8
        <5> QED
          BY <4>7, <4>8, <5>1
      <4>10. StartOf(k + 1) = Pos - 1 /\ k + 1 = Len(out) + 2
        <5>1. StartOf(k + 1) = Pos - 1
          BY <1>5, <4>4, <4>5, <4>9
        <5>2. k + 1 = Len(out) + 2
          BY <1>8, <3>1
        <5> QED
          BY <5>1, <5>2
      <4>11. OnChunk'
        BY <1>17, <4>2, <4>6, <4>10
      <4>12. CanRead' /\ Len(out') < i
        BY <1>4, <1>8, <1>9, <3>1, <4>1, <4>6
      <4> QED
        BY <4>6, <4>11, <4>12
    <3> QED
      BY <3>3, <3>4
  <2> QED
    BY <2>2, <2>3
<1> QED
  BY <1>10, <1>11, <1>12, <1>13, <1>18, <1>19, <1>20 DEF CopyInv

-----------------------------------------------------------------------------
LEMMA CopyInvHolds ==
  UnpackSpec => []CopyInv
<1>1. CopyInv /\ [UnpackNext]_unpack_vars => CopyInv'
  BY Stutters, OpenStep, OpenFailsStep, SkipHeadStep, FindFirstStep, CollectStep, InflateStep
  DEF UnpackNext
<1> QED
  BY Starts, <1>1, PTL DEF UnpackSpec

(* Shape and bounds of the variables of RestoreCompressedFile, with        *)
(* however many failed reads of FillDecompressCache.                       *)
THEOREM UnpackTypeCorrect ==
  UnpackSpec => []UnpackTypeOK
<1>1. CopyInv => UnpackTypeOK
  BY DEF CopyInv
<1> QED
  BY CopyInvHolds, <1>1, PTL

(* The first chunks, each once and in order, leave no compressed one out.  *)
LEMMA FirstOnesLeaveNoneOut ==
  ASSUME fork \in Forks, out \in Seq(Streams), FirstOnes
  PROVE  NoneLeftOut(Compressed)
<1>1. DOMAIN chunks = 1 .. Len(chunks) /\ Len(chunks) \in Nat
  BY ForkOf
<1>2. DOMAIN out = 1 .. Len(out) /\ Len(out) \in Nat
  OBVIOUS
<1>3. \A k \in DOMAIN out : k \in Nat /\ k \in DOMAIN chunks /\ out[k] = chunks[k].stream
  BY <1>1, <1>2 DEF FirstOnes
<1>4. \A k \in DOMAIN chunks : chunks[k].at \in Nat
  BY ChunkIs DEF StartOf
<1>5. ASSUME NEW i \in DOMAIN chunks, NEW j \in DOMAIN chunks, i < j
      PROVE  chunks[i].at < chunks[j].at
  <2>1. EndOf(i) <= StartOf(j)
    BY <1>5, ChunksInOrder
  <2>2. /\ EndOf(i) = StartOf(i) + Len(chunks[i].stream)
        /\ Len(chunks[i].stream) \in Nat /\ Len(chunks[i].stream) > 2
        /\ StartOf(i) \in Nat /\ StartOf(j) \in Nat
    BY ChunkIs
  <2>3. StartOf(i) < StartOf(j)
    BY <2>1, <2>2
  <2> QED
    BY <2>3 DEF StartOf
<1> DEFINE place == [k \in DOMAIN out |-> chunks[k].at]
<1>6. place \in [DOMAIN out -> { p.at : p \in Pieces }]
  <2> SUFFICES ASSUME NEW k \in DOMAIN out PROVE \E p \in Pieces : p.at = chunks[k].at
    OBVIOUS
  <2>1. [at |-> chunks[k].at, bytes |-> chunks[k].stream] \in Pieces
    BY <1>3 DEF Pieces, Compressed
  <2> QED
    BY <2>1
<1>7. \A k \in DOMAIN out : [at |-> place[k], bytes |-> out[k]] \in Pieces
  <2> SUFFICES ASSUME NEW k \in DOMAIN out PROVE [at |-> chunks[k].at, bytes |-> out[k]] \in Pieces
    OBVIOUS
  <2> QED
    BY <1>3 DEF Pieces, Compressed
<1>8. \A k \in DOMAIN out : \A l \in 1 .. k - 1 : place[l] < place[k]
  <2> SUFFICES ASSUME NEW k \in DOMAIN out, NEW l \in 1 .. k - 1 PROVE place[l] < place[k]
    OBVIOUS
  <2>1. k \in 1 .. Len(out) /\ l \in DOMAIN out /\ l < k
    BY <1>2
  <2>2. place[l] = chunks[l].at /\ place[k] = chunks[k].at
    BY <2>1
  <2>3. chunks[l].at < chunks[k].at
    BY <1>3, <1>5, <2>1
  <2> QED
    BY <2>2, <2>3
<1>9. ASSUME NEW p \in Compressed, NEW k \in DOMAIN out, p.at <= place[k]
      PROVE  \E l \in DOMAIN out : place[l] = p.at
  <2>1. PICK i \in DOMAIN chunks : p = [at |-> chunks[i].at, bytes |-> chunks[i].stream]
    BY DEF Compressed
  <2>2. p.at = chunks[i].at /\ place[k] = chunks[k].at
    BY <2>1
  <2>3. ~(k < i)
    <3> SUFFICES ASSUME k < i PROVE FALSE
      OBVIOUS
    <3>1. chunks[k].at < chunks[i].at
      BY <1>3, <1>5
    <3> QED
      BY <1>3, <1>4, <1>9, <2>2, <3>1
  <2>4. i \in DOMAIN out
    BY <1>1, <1>2, <2>3
  <2>5. place[i] = p.at
    BY <2>2, <2>4
  <2> QED
    BY <2>4, <2>5
<1> HIDE DEF place
<1> QED
  BY <1>6, <1>7, <1>8, <1>9 DEF NoneLeftOut

(* RestoreCompressedFile leaves no compressed chunk of a readable fork out *)
(* in front of one it writes, and writes none twice or out of order.  (Of  *)
(* stored chunks the theorem says nothing.)                                *)
THEOREM NoChunkSkipped ==
  UnpackSpec => []NothingSkipped
<1>1. CopyInv => NothingSkipped
  <2> SUFFICES ASSUME CopyInv, ReadableTo(LastByte)
               PROVE  NoneLeftOut(Compressed)
    BY DEF NothingSkipped
  <2>1. UnpackTypeOK /\ Shape /\ fork \in Forks
    BY DEF CopyInv, Shape
  <2>2. FirstOnes
    <3>1. CASE unpack_pc = "done"
      BY <3>1 DEF CopyInv, NoHole
    <3>2. CASE unpack_pc # "done"
      <4>1. /\ skipped \in 0 .. HeadSize /\ bytes_left \in 0 .. fork.size /\ HeadSize \in Nat
            /\ fork.size \in Nat /\ fork.start \in Nat
            /\ Consumed = skipped + fork.size - bytes_left
            /\ Pos \in Nat /\ Pos = fork.start + Consumed
            /\ FirstByte = fork.start + HeadSize
            /\ LastByte \in Nat /\ LastByte = FirstByte + fork.size - 1
        BY <2>1, Numbers
      <4>2. Pos - 1 \in Int /\ LastByte \in Int /\ Pos - 1 <= LastByte
        BY <4>1
      <4>3. CanRead
        BY <2>1, <4>2, ReadsBefore DEF CanRead
      <4> QED
        BY <3>2, <4>3 DEF CopyInv, NoHole
    <3> QED
      BY <3>1, <3>2
  <2>3. out \in Seq(Streams)
    BY <2>1 DEF UnpackTypeOK
  <2> QED
    BY <2>1, <2>2, <2>3, FirstOnesLeaveNoneOut
<1> QED
  BY CopyInvHolds, <1>1, PTL

(* RestoreCompressedFile writes every compressed chunk of the fork in      *)
(* front of the first damage, marker in a wrong place or chunk that is too *)
(* long, in order, and returns TRUE if that is every chunk of the fork.    *)
THEOREM EverySoundChunk ==
  UnpackSpec => []SoundChunksWritten
<1>1. CopyInv => SoundChunksWritten
  <2> DEFINE ours == { i \in DOMAIN chunks : InFork(i) }
             sound == { i \in ours : Sound(i) }
             where == [i \in sound |-> i]
  <2> SUFFICES ASSUME CopyInv, unpack_pc = "done", skipped = HeadSize
               PROVE  /\ \E w \in [sound -> DOMAIN out] :
                           \A i \in sound :
                             /\ out[w[i]] = chunks[i].stream
                             /\ \A j \in sound : j < i => w[j] < w[i]
                      /\ fork.stored = {} /\ sound = ours /\ ours # {} => restored
    BY DEF SoundChunksWritten
  <2>1. \A i \in sound : restored /\ Written(i)
    BY DEF CopyInv, Kept
  <2>2. out \in Seq(Streams)
    BY DEF CopyInv, UnpackTypeOK
  <2>3. DOMAIN chunks = 1 .. Len(chunks) /\ Len(chunks) \in Nat
    BY ForkOf DEF CopyInv, Shape
  <2>4. DOMAIN out = 1 .. Len(out) /\ Len(out) \in Nat
    BY <2>2
  <2>5. \A i \in sound : i \in DOMAIN out /\ out[i] = chunks[i].stream
    BY <2>1, <2>3, <2>4 DEF Written
  <2>6. where \in [sound -> DOMAIN out]
    BY <2>5
  <2>7. \A i \in sound : out[where[i]] = chunks[i].stream
    BY <2>5
  <2>8. \A i \in sound : \A j \in sound : j < i => where[j] < where[i]
    OBVIOUS
  <2>9. sound = ours /\ ours # {} => restored
    BY <2>1
  <2> HIDE DEF where, sound, ours
  <2> QED
    BY <2>6, <2>7, <2>8, <2>9
<1> QED
  BY CopyInvHolds, <1>1, PTL
=============================================================================
