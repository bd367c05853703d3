------------------------ MODULE RestoreExtents_proof ------------------------
(***************************************************************************)
(* Proofs that hold for every block size, buffer size, number of extents   *)
(* and every set of inputs that meets InputsAssumption; AnswersTrue also   *)
(* rests on VolumeAssumption.                                              *)
(***************************************************************************)
EXTENDS RestoreExtents, WellFoundedInduction, TLAPS

(* The inductive invariant.  TypeOK and CopyFaithful say nothing of what   *)
(* is about to be read; for them to survive a step, the device cells a     *)
(* call of WriteFileBytes is about to read must be the cells of the file   *)
(* at the position it is about to write (Aim), which in turn needs the     *)
(* position to be the first block of the extent whose turn it is (Place).  *)
Aim ==
  \A k \in Offsets :
    (Pos <= k /\ k < Pos + bytes) => input.content[k] = file_offset + (k - Pos)

AtBlock(b) == bytes_left = 0 \/ file.file_size - bytes_left = b * BlockSize

Place ==
  /\ pc = "check" => i = 1 /\ bytes_left = file.file_size
  /\ pc = "extents" =>
       AtBlock(input.first[i]) /\ \A j \in 1 .. i - 1 : LiveExtent(file, j)
  /\ pc = "overflow" => AtBlock(file_block)
  /\ pc \in {"check", "close", "done"} => bytes = 0

(* Why a file may be left short, from the moment the loops are left.       *)
ShortBecause ==
  /\ file.has_extents_overflow
  /\ \/ input.options.ignore_eof
     \/ ~input.eof_available
     \/ i <= NumExtents
     \/ ~Lookup.found

Verdict ==
  /\ pc = "done" <=> result # "none"
  /\ pc = "overflow" => file.has_extents_overflow
  /\ restored => result = "returned" /\ bytes_left = 0
  /\ (pc = "close" /\ bytes_left > 0) => ShortBecause
  /\ (result = "returned" /\ ~restored /\ file.file_size > 0) => ShortBecause

IInv ==
  /\ input \in Inputs
  /\ TypeOK
  /\ Aim
  /\ Place
  /\ CopyFaithful
  /\ Verdict

-----------------------------------------------------------------------------
(* Arithmetic of blocks and cells.                                         *)

LEMMA BlockArithmetic ==
  ASSUME NEW a \in Nat, NEW n \in Nat
  PROVE  /\ a * BlockSize \in Nat
         /\ BlockSize * n \in Nat
         /\ (a + n) * BlockSize = a * BlockSize + BlockSize * n
         /\ a <= a * BlockSize
  <1>1. BlockSize \in Nat /\ BlockSize >= 1
    BY SizesAssumption
  <1>2. PICK b \in Nat : BlockSize = b + 1
    BY <1>1
  <1>3. a * BlockSize = a * b + a /\ a * b \in Nat
    BY <1>2
  <1> QED
    BY <1>1, <1>2, <1>3

LEMMA DeviceCellNat ==
  ASSUME NEW b \in Nat
  PROVE  DeviceCell(b) \in Nat
  BY BlockArithmetic, SizesAssumption DEF DeviceCell

(* A call of WriteFileBytes for num blocks from block, made when the copy  *)
(* has reached file block a and the file has these blocks there: it will   *)
(* read the file's cells, and leaves the copy at file block a + num.       *)
LEMMA CopyBlocksAims ==
  ASSUME TypeOK, bytes = 0, input' = input,
         NEW a \in Nat, NEW block \in Nat, NEW num \in Nat,
         AtBlock(a),
         \A k \in Offsets :
           (a * BlockSize <= k /\ k < (a + num) * BlockSize)
             => input.content[k] = DeviceCell(block) + (k - a * BlockSize),
         CopyBlocks(block, num)
  PROVE  /\ bytes_left' \in 0 .. file.file_size
         /\ bytes' \in 0 .. file.file_size - bytes_left'
         /\ file_offset' \in Nat
         /\ Pos' = Pos
         /\ Aim'
         /\ AtBlock(a + num)'
  <1> DEFINE S == file.file_size
             n == Min2(BlockSize * num, bytes_left)
  <1>1. /\ S \in Nat
        /\ bytes_left \in 0 .. S
        /\ bytes = 0
    BY DEF TypeOK, InputOK, File, file
  <1>2. S' = S /\ Offsets' = Offsets
    BY DEF file, Offsets
  <1>3. /\ a * BlockSize \in Nat
        /\ BlockSize * num \in Nat
        /\ (a + num) * BlockSize = a * BlockSize + BlockSize * num
    BY BlockArithmetic
  <1>4. /\ file_offset' = DeviceCell(block)
        /\ bytes' = n
        /\ bytes_left' = bytes_left - n
    BY DEF CopyBlocks
  <1>5. /\ n \in 0 .. bytes_left
        /\ n <= BlockSize * num
        /\ n = bytes_left \/ n = BlockSize * num
    BY <1>1, <1>3 DEF Min2
  <1> HIDE DEF n
  <1>6. bytes_left' \in 0 .. S /\ bytes' \in 0 .. S - bytes_left'
    BY <1>1, <1>4, <1>5
  <1>7. Pos = S - bytes_left /\ Pos' = Pos
    BY <1>1, <1>2, <1>4, <1>5 DEF Pos
  <1>8. file_offset' \in Nat
    BY <1>4, DeviceCellNat
  <1>9. Aim'
    <2> SUFFICES ASSUME NEW k \in Offsets, Pos <= k, k < Pos + n
                 PROVE  input.content[k] = file_offset' + (k - Pos)
      BY <1>2, <1>4, <1>7 DEF Aim
    <2>1. k \in Nat
      BY <1>1 DEF Offsets
    <2>2. bytes_left # 0
      BY <1>1, <1>5, <1>7, <2>1
    <2>3. Pos = a * BlockSize
      BY <1>7, <2>2 DEF AtBlock
    <2>4. k < (a + num) * BlockSize
      BY <1>3, <1>5, <2>1, <2>3
    <2> QED
      BY <1>4, <2>3, <2>4
  <1>10. AtBlock(a + num)'
    <2>1. CASE n = bytes_left
      <3>1. bytes_left' = 0
        BY <1>1, <1>4, <2>1
      <3> QED
        BY <3>1 DEF AtBlock
    <2>2. CASE bytes_left = 0
      BY <1>5, <2>1, <2>2
    <2>3. CASE bytes_left # 0 /\ n = BlockSize * num
      <3>1. S - bytes_left = a * BlockSize
        BY <2>3 DEF AtBlock
      <3>2. S - bytes_left' = (a + num) * BlockSize
        BY <1>1, <1>3, <1>4, <2>3, <3>1
      <3> QED
        BY <1>2, <3>2 DEF AtBlock
    <2> QED
      BY <1>5, <2>1, <2>2, <2>3
  <1> QED
    BY <1>6, <1>7, <1>8, <1>9, <1>10
-----------------------------------------------------------------------------
(* The lookup.                                                             *)

LEMMA LessWellFounded == IsWellFoundedOn({p \in Nat \X Nat : p[1] < p[2]}, Nat)
  <1>1. {p \in Nat \X Nat : p[1] < p[2]} = OpToRel(<, Nat)
    BY DEF OpToRel
  <1> QED
    BY <1>1, NatLessThanWellFounded

LEMMA SmallestOf ==
  ASSUME NEW S, S \subseteq Nat, S # {}
  PROVE  \E m \in S : \A n \in S : m <= n
  <1> DEFINE R == {p \in Nat \X Nat : p[1] < p[2]}
  <1>1. IsWellFoundedOn(R, Nat)
    BY LessWellFounded
  <1> HIDE DEF R
  <1>2. PICK m \in S : \A y \in S : ~(<<y, m>> \in R)
    BY <1>1, WFMin
  <1>3. ASSUME NEW n \in S, n < m
        PROVE  FALSE
    <2>1. m \in Nat /\ n \in Nat /\ <<n, m>>[1] = n /\ <<n, m>>[2] = m
      OBVIOUS
    <2>2. <<n, m>> \in R
      BY <1>3, <2>1 DEF R
    <2> QED
      BY <1>2, <2>2
  <1> QED
    BY <1>3

(* The start blocks of the first m extents of a slot.                      *)
IsStarts(f, slot, m) ==
  f = [e \in 1 .. m |-> IF e = 1 THEN slot.start ELSE f[e - 1] + slot.data[e - 1].num]

(* The recursive definition of StartBlock defines something: by taking the *)
(* smallest number of extents for which there would be no such function.   *)
LEMMA StartsExist ==
  ASSUME NEW slot \in Slot
  PROVE  \E f : IsStarts(f, slot, EOF_DATA_ENTRIES)
  <1>0. EOF_DATA_ENTRIES \in Nat \ {0}
    BY EntriesAssumption
  <1> DEFINE Bad == {m \in 1 .. EOF_DATA_ENTRIES : ~\E f : IsStarts(f, slot, m)}
  <1> SUFFICES ASSUME Bad # {}
               PROVE  FALSE
    BY <1>0
  <1>1. Bad \subseteq Nat
    OBVIOUS
  <1>2. PICK m \in Bad : \A n \in Bad : m <= n
    BY <1>1, SmallestOf
  <1>3. m \in 1 .. EOF_DATA_ENTRIES /\ ~\E f : IsStarts(f, slot, m)
    OBVIOUS
  <1>4. CASE m = 1
    <2> DEFINE f == [e \in 1 .. 1 |-> slot.start]
    <2>1. f = [e \in 1 .. 1 |->
                 IF e = 1 THEN slot.start ELSE f[e - 1] + slot.data[e - 1].num]
      OBVIOUS
    <2>2. IsStarts(f, slot, 1)
      BY <2>1 DEF IsStarts
    <2> QED
      BY <1>3, <1>4, <2>2
  <1>5. CASE m # 1
    <2>1. m - 1 \in 1 .. EOF_DATA_ENTRIES /\ m - 1 < m /\ m \in Nat
      BY <1>0, <1>3, <1>5
    <2>2. m - 1 \notin Bad
      BY <1>2, <2>1
    <2>3. PICK r : IsStarts(r, slot, m - 1)
      BY <2>1, <2>2
    <2> DEFINE f == [e \in 1 .. m |->
                       IF e = m THEN r[m - 1] + slot.data[m - 1].num ELSE r[e]]
    <2>4. ASSUME NEW e \in 1 .. m
          PROVE  f[e] = IF e = 1 THEN slot.start ELSE f[e - 1] + slot.data[e - 1].num
      <3>1. CASE e = m
        <4>1. f[m - 1] = r[m - 1]
          BY <2>1
        <4> QED
          BY <1>5, <3>1, <4>1
      <3>2. CASE e # m /\ e # 1
        <4>1. e \in 1 .. m - 1 /\ e - 1 \in 1 .. m /\ e - 1 # m
          BY <2>1, <3>2
        <4>2. r[e] = r[e - 1] + slot.data[e - 1].num
          BY <2>3, <3>2, <4>1 DEF IsStarts
        <4> QED
          BY <3>2, <4>1, <4>2
      <3>3. CASE e # m /\ e = 1
        <4>1. 1 \in 1 .. m - 1
          BY <2>1
        <4>2. r[1] = slot.start
          BY <2>3, <4>1 DEF IsStarts
        <4> QED
          BY <3>3, <4>2
      <3> QED
        BY <3>1, <3>2, <3>3
    <2>5. f = [e \in 1 .. m |->
                 IF e = 1 THEN slot.start ELSE f[e - 1] + slot.data[e - 1].num]
      BY <2>4
    <2>6. IsStarts(f, slot, m)
      BY <2>5 DEF IsStarts
    <2> QED
      BY <1>3, <2>6
  <1> QED
    BY <1>4, <1>5

(* Every extent of a slot has a first block.                               *)
LEMMA StartsAreNat ==
  ASSUME NEW slot \in Slot, NEW x \in Entries
  PROVE  StartBlock(slot)[x] \in Nat
  <1>0. EOF_DATA_ENTRIES \in Nat \ {0}
    BY EntriesAssumption
  <1> DEFINE f == CHOOSE f : IsStarts(f, slot, EOF_DATA_ENTRIES)
  <1>1. StartBlock(slot) = f
    BY DEF StartBlock, IsStarts, Entries
  <1>2. IsStarts(f, slot, EOF_DATA_ENTRIES)
    BY StartsExist
  <1> HIDE DEF f
  <1> DEFINE Bad == {m \in Entries : f[m] \notin Nat}
  <1> SUFFICES ASSUME Bad # {}
               PROVE  FALSE
    BY <1>1
  <1>3. Bad \subseteq Nat
    BY <1>0 DEF Entries
  <1>4. PICK m \in Bad : \A n \in Bad : m <= n
    BY <1>3, SmallestOf
  <1>5. m \in 1 .. EOF_DATA_ENTRIES /\ f[m] \notin Nat
    BY DEF Entries
  <1>6. f[m] = IF m = 1 THEN slot.start ELSE f[m - 1] + slot.data[m - 1].num
    BY <1>2, <1>5 DEF IsStarts
  <1>7. m # 1
    BY <1>5, <1>6 DEF Slot
  <1>8. m - 1 \in Entries /\ m - 1 < m
    BY <1>0, <1>5, <1>7 DEF Entries
  <1>9. f[m - 1] \in Nat
    BY <1>4, <1>5, <1>8
  <1>10. slot.data[m - 1].num \in Nat
    BY <1>8 DEF Slot, Extent
  <1> QED
    BY <1>5, <1>6, <1>7, <1>9, <1>10

(* Of the places where the loops can return there is one they reach first. *)
LEMMA FirstHit ==
  ASSUME NEW L \in Nat, NEW H, H \subseteq (1 .. L) \X Entries, H # {}
  PROVE  \E h \in H : \A g \in H : Before(h, g)
  <1> DEFINE Rows == {n \in 1 .. L : \E h \in H : h[1] = n}
  <1>1. Rows \subseteq Nat /\ Rows # {}
    OBVIOUS
  <1>2. PICK n \in Rows : \A k \in Rows : n <= k
    BY <1>1, SmallestOf
  <1> DEFINE Columns == {e \in Entries : \E h \in H : h[1] = n /\ h[2] = e}
  <1>3. Columns \subseteq Nat /\ Columns # {}
    BY EntriesAssumption DEF Entries
  <1>4. PICK e \in Columns : \A k \in Columns : e <= k
    BY <1>3, SmallestOf
  <1>5. PICK h \in H : h[1] = n /\ h[2] = e
    OBVIOUS
  <1>6. ASSUME NEW g \in H
        PROVE  Before(h, g)
    <2>1. g[1] \in 1 .. L /\ g[2] \in Entries /\ g[1] \in Rows
      OBVIOUS
    <2>2. n \in Nat /\ n <= g[1] /\ g[1] \in Nat
      BY <1>2, <2>1
    <2>3. CASE g[1] = n
      <3>1. g[2] \in Columns
        BY <2>1, <2>3
      <3> QED
        BY <1>4, <1>5, <2>3, <3>1 DEF Before
    <2>4. CASE g[1] # n
      BY <1>5, <2>2, <2>4 DEF Before
    <2> QED
      BY <2>3, <2>4
  <1> QED
    BY <1>6

(* What the lookup returns: nothing when no record has the block, else the *)
(* rest of an extent that has it.                                          *)
LEMMA AnswerIsHit ==
  ASSUME NEW eof \in Seq(Slot), NEW id, NEW b,
         Hits(eof, id, b) # {}
  PROVE  \E h \in Hits(eof, id, b) :
           EOF_GetRemainingBlocks(eof, id, b) =
             [found |-> TRUE,
              block |-> eof[h[1]].data[h[2]].block + (b - StartBlock(eof[h[1]])[h[2]]),
              num |-> eof[h[1]].data[h[2]].num - (b - StartBlock(eof[h[1]])[h[2]])]
  <1> DEFINE H == Hits(eof, id, b)
             h == CHOOSE h \in H : \A g \in H : Before(h, g)
  <1>1. H \subseteq (1 .. Len(eof)) \X Entries /\ Len(eof) \in Nat /\ H # {}
    BY DEF Hits
  <1>2. \E x \in H : \A g \in H : Before(x, g)
    <2>1. PICK L \in Nat : L = Len(eof)
      BY <1>1
    <2> HIDE DEF H
    <2>2. H \subseteq (1 .. L) \X Entries /\ H # {}
      BY <1>1, <2>1
    <2> QED
      BY <2>2, FirstHit
  <1>3. h \in H
    <2> HIDE DEF H
    <2> QED
      BY <1>2
  <1> QED
    BY <1>3 DEF EOF_GetRemainingBlocks

LEMMA NoHitNoAnswer ==
  ASSUME NEW eof, NEW id, NEW b, Hits(eof, id, b) = {}
  PROVE  EOF_GetRemainingBlocks(eof, id, b) = NotFound
  BY DEF EOF_GetRemainingBlocks

(* The parts of a hit.                                                     *)
LEMMA HitParts ==
  ASSUME NEW eof \in Seq(Slot), NEW id, NEW b, NEW h \in Hits(eof, id, b)
  PROVE  /\ h[1] \in 1 .. Len(eof) /\ h[2] \in Entries
         /\ eof[h[1]] \in Slot
         /\ Matches(eof[h[1]], id)
         /\ \A e \in 1 .. h[2] : Live(eof[h[1]].data[e])
         /\ eof[h[1]].data[h[2]] \in Extent
         /\ StartBlock(eof[h[1]])[h[2]] \in Nat
         /\ b >= StartBlock(eof[h[1]])[h[2]]
         /\ b < StartBlock(eof[h[1]])[h[2]] + eof[h[1]].data[h[2]].num
  <1>1. h[1] \in 1 .. Len(eof) /\ h[2] \in Entries
    BY DEF Hits
  <1>2. eof[h[1]] \in Slot
    BY <1>1
  <1>3. StartBlock(eof[h[1]])[h[2]] \in Nat
    BY <1>1, <1>2, StartsAreNat
  <1>4. eof[h[1]].data[h[2]] \in Extent
    BY <1>1, <1>2 DEF Slot
  <1> QED
    BY <1>1, <1>2, <1>3, <1>4 DEF Hits

-----------------------------------------------------------------------------
(* The block a cell of the file lies in, and its place in it.              *)
LEMMA BlockOf ==
  ASSUME NEW k \in Nat
  PROVE  /\ k \div BlockSize \in Nat
         /\ k % BlockSize \in Nat /\ k % BlockSize < BlockSize
         /\ k = (k \div BlockSize) * BlockSize + (k % BlockSize)
  BY SizesAssumption

(* Numbers of blocks compare as the cells they begin with.                 *)
LEMMA CellsCompare ==
  ASSUME NEW a \in Nat, NEW b \in Nat, NEW r \in Nat, r < BlockSize
  PROVE  /\ a <= b <=> a * BlockSize <= b * BlockSize + r
         /\ b < a <=> b * BlockSize + r < a * BlockSize
  <1>0. BlockSize \in Nat /\ BlockSize >= 1
    BY SizesAssumption
  <1>1. ASSUME a <= b
        PROVE  a * BlockSize <= b * BlockSize
    <2>1. PICK d \in Nat : b = a + d
      BY <1>1
    <2>2. b * BlockSize = a * BlockSize + BlockSize * d /\ BlockSize * d \in Nat
      BY <2>1, BlockArithmetic
    <2> QED
      BY <2>2, BlockArithmetic
  <1>2. ASSUME b < a
        PROVE  b * BlockSize + BlockSize <= a * BlockSize
    <2>1. PICK d \in Nat : a = (b + 1) + d
      BY <1>2
    <2>2. a * BlockSize = (b + 1) * BlockSize + BlockSize * d /\ BlockSize * d \in Nat
      <3>1. b + 1 \in Nat
        OBVIOUS
      <3> QED
        BY <2>1, <3>1, BlockArithmetic
    <2>3. (b + 1) * BlockSize = b * BlockSize + BlockSize * 1
      BY BlockArithmetic
    <2>4. PICK x \in Nat, y \in Nat, z \in Nat :
            x = a * BlockSize /\ y = b * BlockSize /\ z = BlockSize * d
      BY <2>2, BlockArithmetic
    <2>5. BlockSize * 1 = BlockSize
      BY <1>0
    <2> QED
      BY <1>0, <2>2, <2>3, <2>4, <2>5
  <1>3. PICK x \in Nat, y \in Nat : x = a * BlockSize /\ y = b * BlockSize
    BY BlockArithmetic
  <1>4. a <= b => x <= y
    BY <1>1, <1>3
  <1>5. b < a => y + BlockSize <= x
    BY <1>2, <1>3
  <1>6. a <= b <=> x <= y + r
    BY <1>0, <1>4, <1>5
  <1>7. b < a <=> y + r < x
    BY <1>0, <1>4, <1>5
  <1> QED
    BY <1>3, <1>6, <1>7

(* A record that has block b of the file has the file's cells from there   *)
(* to the end of its extent.                                               *)
LEMMA HitSound ==
  ASSUME NEW s, InputOK(s), OverflowSound(s), NEW b \in Nat,
         NEW h \in Hits(s.eof, s.file.catalog_id, b),
         NEW first, first = StartBlock(s.eof[h[1]])[h[2]],
         NEW extent, extent = s.eof[h[1]].data[h[2]]
  PROVE  \A k \in 0 .. s.file.file_size - 1 :
           (b * BlockSize <= k /\ k < (first + extent.num) * BlockSize)
             => /\ first * BlockSize <= k
                /\ s.content[k] = DeviceCell(extent.block) + (k - first * BlockSize)
  <1>1. s.eof \in Seq(Slot) /\ s.file.file_size \in Nat
    BY DEF InputOK, File
  <1>2. /\ h[1] \in 1 .. Len(s.eof) /\ h[2] \in Entries
        /\ Matches(s.eof[h[1]], s.file.catalog_id)
        /\ \A e \in 1 .. h[2] : Live(s.eof[h[1]].data[e])
        /\ b >= first
        /\ first \in Nat
    BY <1>1, HitParts
  <1>3. \A k \in 0 .. s.file.file_size - 1 :
           (first * BlockSize <= k /\ k < (first + extent.num) * BlockSize)
             => s.content[k] = DeviceCell(extent.block) + (k - first * BlockSize)
    BY <1>2 DEF OverflowSound
  <1>4. ASSUME NEW k \in 0 .. s.file.file_size - 1, b * BlockSize <= k
        PROVE  first * BlockSize <= k
    <2>1. first * BlockSize <= b * BlockSize + 0
      BY <1>2, CellsCompare, SizesAssumption
    <2>2. first * BlockSize \in Nat /\ b * BlockSize \in Nat
      BY <1>2, BlockArithmetic
    <2>3. PICK x \in Nat, y \in Nat : x = first * BlockSize /\ y = b * BlockSize
      BY <2>2
    <2>4. x <= y + 0 /\ y <= k /\ k \in Nat
      BY <1>1, <1>4, <2>1, <2>3
    <2> QED
      BY <2>3, <2>4
  <1> QED
    BY <1>3, <1>4

(* Every answer of the overflow file is a piece of the file.               *)
LEMMA AnswersSound ==
  ASSUME NEW s, InputOK(s), OverflowSound(s), NEW b \in Nat,
         NEW hit, hit = EOF_GetRemainingBlocks(s.eof, s.file.catalog_id, b),
         hit.found
  PROVE  /\ hit.block \in Nat
         /\ hit.num \in Nat
         /\ \A k \in 0 .. s.file.file_size - 1 :
              (b * BlockSize <= k /\ k < (b + hit.num) * BlockSize)
                => s.content[k] = DeviceCell(hit.block) + (k - b * BlockSize)
  <1>1. s.eof \in Seq(Slot) /\ s.file.file_size \in Nat
    BY DEF InputOK, File
  <1>2. Hits(s.eof, s.file.catalog_id, b) # {}
    BY NoHitNoAnswer DEF NotFound
  <1>3. PICK h \in Hits(s.eof, s.file.catalog_id, b) :
          hit = [found |-> TRUE,
                 block |-> s.eof[h[1]].data[h[2]].block
                             + (b - StartBlock(s.eof[h[1]])[h[2]]),
                 num |-> s.eof[h[1]].data[h[2]].num
                           - (b - StartBlock(s.eof[h[1]])[h[2]])]
    BY <1>1, <1>2, AnswerIsHit
  <1>4. /\ s.eof[h[1]].data[h[2]] \in Extent
        /\ StartBlock(s.eof[h[1]])[h[2]] \in Nat
        /\ b >= StartBlock(s.eof[h[1]])[h[2]]
        /\ b < StartBlock(s.eof[h[1]])[h[2]] + s.eof[h[1]].data[h[2]].num
    BY <1>1, HitParts
  <1>5. PICK first \in Nat, block \in Nat, num \in Nat :
          /\ first = StartBlock(s.eof[h[1]])[h[2]]
          /\ block = s.eof[h[1]].data[h[2]].block
          /\ num = s.eof[h[1]].data[h[2]].num
    BY <1>4 DEF Extent
  <1>6. PICK diff \in Nat : b = first + diff /\ diff < num
    <2>1. b >= first /\ b < first + num
      BY <1>4, <1>5
    <2>2. b - first \in Nat /\ b = first + (b - first) /\ b - first < num
      BY <2>1
    <2> QED
      BY <2>2
  <1>7. hit.block = block + diff /\ hit.num = num - diff
    BY <1>3, <1>5, <1>6
  <1>8. hit.block \in Nat /\ hit.num \in Nat /\ b + hit.num = first + num
    BY <1>6, <1>7
  <1>9. ASSUME NEW k \in 0 .. s.file.file_size - 1,
               b * BlockSize <= k, k < (b + hit.num) * BlockSize
        PROVE  s.content[k] = DeviceCell(hit.block) + (k - b * BlockSize)
    <2>1. s.content[k] = DeviceCell(block) + (k - first * BlockSize)
      <3>1. PICK extent : extent = s.eof[h[1]].data[h[2]]
        OBVIOUS
      <3>2. \A j \in 0 .. s.file.file_size - 1 :
              (b * BlockSize <= j /\ j < (first + extent.num) * BlockSize)
                => /\ first * BlockSize <= j
                   /\ s.content[j] = DeviceCell(extent.block) + (j - first * BlockSize)
        BY <1>5, <3>1, HitSound
      <3>3. block = extent.block /\ num = extent.num
        BY <1>5, <3>1
      <3>4. k < (first + num) * BlockSize
        BY <1>8, <1>9
      <3> QED
        BY <1>9, <3>2, <3>3, <3>4
    <2>2. /\ b * BlockSize = first * BlockSize + BlockSize * diff
          /\ (block + diff) * BlockSize = block * BlockSize + BlockSize * diff
          /\ first * BlockSize \in Nat /\ block * BlockSize \in Nat
          /\ BlockSize * diff \in Nat
      BY <1>6, BlockArithmetic
    <2>3. PICK x \in Nat, y \in Nat, z \in Nat :
            x = first * BlockSize /\ y = block * BlockSize /\ z = BlockSize * diff
      BY <2>2
    <2>4. DeviceCell(block) = y + Offset /\ DeviceCell(hit.block) = (y + z) + Offset
      BY <1>7, <2>2, <2>3 DEF DeviceCell
    <2>5. b * BlockSize = x + z /\ k \in Nat
      BY <1>1, <2>2, <2>3
    <2> QED
      BY <2>1, <2>3, <2>4, <2>5, SizesAssumption
  <1> QED
    BY <1>8, <1>9

-----------------------------------------------------------------------------
(* The device cell behind an extent.                                       *)
LEMMA ExtentEnds ==
  ASSUME NEW block \in Nat, NEW num \in Nat
  PROVE  DeviceCell(block + num) = DeviceCell(block) + BlockSize * num
  <1>1. PICK x \in Nat, y \in Nat : x = block * BlockSize /\ y = BlockSize * num
    BY BlockArithmetic
  <1>2. (block + num) * BlockSize = x + y
    BY <1>1, BlockArithmetic
  <1> QED
    BY <1>1, <1>2, SizesAssumption DEF DeviceCell

(* The extent of a hit for the block of cell k lies around that cell on    *)
(* the device, and the cell is where the answer puts it.                   *)
LEMMA HitAround ==
  ASSUME InputOK(input), OverflowSound(input), NEW k \in Offsets,
         NEW b \in Nat, NEW r \in Nat, r < BlockSize, k = b * BlockSize + r,
         NEW h \in Hits(input.eof, file.catalog_id, b),
         NEW extent, extent = input.eof[h[1]].data[h[2]],
         NEW diff, diff = b - StartBlock(input.eof[h[1]])[h[2]]
  PROVE  /\ extent \in Around(input.content[k])
         /\ diff \in Nat
         /\ extent.block \in Nat /\ extent.num \in Nat /\ diff < extent.num
         /\ input.content[k] = DeviceCell(extent.block + diff) + r
  <1>1. input.eof \in Seq(Slot) /\ file.file_size \in Nat /\ k \in Nat
    BY DEF InputOK, File, file, Offsets
  <1>2. /\ h[1] \in 1 .. Len(input.eof) /\ h[2] \in Entries
        /\ Matches(input.eof[h[1]], file.catalog_id)
        /\ extent \in Extent
        /\ StartBlock(input.eof[h[1]])[h[2]] \in Nat
        /\ b >= StartBlock(input.eof[h[1]])[h[2]]
        /\ b < StartBlock(input.eof[h[1]])[h[2]] + extent.num
    BY <1>1, HitParts
  <1>3. PICK first \in Nat, block \in Nat, num \in Nat :
          /\ first = StartBlock(input.eof[h[1]])[h[2]]
          /\ block = extent.block
          /\ num = extent.num
    BY <1>2 DEF Extent
  <1>4. diff \in Nat /\ diff < num /\ b = first + diff
    <2>1. b >= first /\ b < first + num /\ diff = b - first
      BY <1>2, <1>3
    <2> QED
      BY <2>1
  <1>5. \A j \in Offsets :
          (b * BlockSize <= j /\ j < (first + num) * BlockSize)
            => input.content[j] = DeviceCell(block) + (j - first * BlockSize)
    BY <1>3, HitSound DEF file, Offsets
  <1>6. PICK x \in Nat, y \in Nat, z \in Nat :
          x = first * BlockSize /\ y = BlockSize * diff /\ z = BlockSize * num
    BY <1>4, BlockArithmetic
  <1>7. b * BlockSize = x + y
    <2>1. (first + diff) * BlockSize = first * BlockSize + BlockSize * diff
      BY <1>4, BlockArithmetic
    <2> QED
      BY <1>4, <1>6, <2>1
  <1>8. k = x + y + r
    BY <1>7
  <1>9. k < (first + num) * BlockSize
    <2>1. b < first + num /\ first + num \in Nat
      BY <1>4
    <2>2. b * BlockSize + r < (first + num) * BlockSize
      BY <2>1, CellsCompare
    <2> QED
      BY <2>2
  <1>10. PICK c \in Nat : c = DeviceCell(block)
    BY DeviceCellNat
  <1>11. input.content[k] = c + (k - x)
    <2>1. b * BlockSize <= k
      BY <1>1, <1>7, <1>8
    <2> QED
      BY <1>5, <1>6, <1>9, <1>10, <2>1
  <1>12. input.content[k] = c + y + r
    BY <1>8, <1>11
  <1>13. DeviceCell(block + diff) = c + y
    BY <1>4, <1>6, <1>10, ExtentEnds
  <1>14. DeviceCell(block + num) = c + z
    BY <1>6, <1>10, ExtentEnds
  <1>15. y + r < z
    <2>1. diff * BlockSize + r < num * BlockSize
      BY <1>4, CellsCompare
    <2>2. diff * BlockSize = BlockSize * diff /\ num * BlockSize = BlockSize * num
      BY <1>4, SizesAssumption
    <2> QED
      BY <1>6, <2>1, <2>2
  <1>16. DeviceCell(block) <= input.content[k] /\ input.content[k] < DeviceCell(block + num)
    BY <1>10, <1>12, <1>14, <1>15
  <1>17. extent \in Held
    <2>1. h \in (1 .. Len(input.eof)) \X Entries
      BY DEF Hits
    <2> QED
      BY <1>2, <2>1 DEF Held
  <1>18. extent \in Around(input.content[k])
    BY <1>3, <1>16, <1>17 DEF Around
  <1> QED
    BY <1>3, <1>4, <1>12, <1>13, <1>18

(* An extent around a cell on the device is a hit for the cell's block.    *)
LEMMA AroundHit ==
  ASSUME InputOK(input), AllocatedOnce(input), NEW k \in Offsets,
         NEW b \in Nat, NEW r \in Nat, r < BlockSize, k = b * BlockSize + r,
         Around(input.content[k]) # {}
  PROVE  Hits(input.eof, file.catalog_id, b) # {}
  <1>1. input.eof \in Seq(Slot) /\ Offsets = 0 .. file.file_size - 1
    BY DEF InputOK, Offsets
  <1>2. PICK g \in (1 .. Len(input.eof)) \X Entries :
          /\ Matches(input.eof[g[1]], file.catalog_id)
          /\ DeviceCell(input.eof[g[1]].data[g[2]].block) <= input.content[k]
          /\ input.content[k] < DeviceCell(input.eof[g[1]].data[g[2]].block
                                             + input.eof[g[1]].data[g[2]].num)
    BY DEF Around, Held
  <1>3. PICK n \in 1 .. Len(input.eof), e \in Entries : g = <<n, e>>
    OBVIOUS
  <1>4. PICK slot \in Slot : slot = input.eof[n]
    BY <1>1
  <1>5. StartBlock(slot)[e] \in Nat /\ slot.data[e] \in Extent
    BY StartsAreNat DEF Slot
  <1>6. PICK first \in Nat, num \in Nat :
          first = StartBlock(slot)[e] /\ num = slot.data[e].num
    BY <1>5 DEF Extent
  <1>7. /\ \A j \in 1 .. e : Live(slot.data[j])
        /\ first * BlockSize <= k
        /\ k < (first + num) * BlockSize
    BY <1>1, <1>2, <1>3, <1>4, <1>6 DEF AllocatedOnce, file
  <1>8. first <= b
    BY <1>7, CellsCompare
  <1>9. b < first + num
    <2>1. first + num \in Nat
      OBVIOUS
    <2> QED
      BY <1>7, <2>1, CellsCompare
  <1>10. <<n, e>> \in Hits(input.eof, file.catalog_id, b)
    BY <1>2, <1>3, <1>4, <1>6, <1>7, <1>8, <1>9 DEF Hits
  <1> QED
    BY <1>10

(* What AnswerRight says of a sound input.                                 *)
LEMMA AnswersAreRight ==
  ASSUME InputOK(input), OverflowSound(input), AllocatedOnce(input), NEW k \in Offsets,
         NEW hit, hit = EOF_GetRemainingBlocks(input.eof, file.catalog_id, k \div BlockSize),
         NEW cell, cell = input.content[k]
  PROVE  IF Around(cell) = {} THEN hit = NotFound
         ELSE \E e \in Around(cell) :
                /\ hit.found
                /\ DeviceCell(hit.block) = cell - (k % BlockSize)
                /\ hit.block + hit.num = e.block + e.num
  <1>1. input.eof \in Seq(Slot) /\ k \in Nat
    BY DEF InputOK, File, file, Offsets
  <1>2. PICK b \in Nat, r \in Nat :
          b = k \div BlockSize /\ r = k % BlockSize /\ r < BlockSize
          /\ k = b * BlockSize + r
    BY <1>1, BlockOf
  <1>3. CASE Hits(input.eof, file.catalog_id, b) = {}
    <2>1. hit = NotFound
      BY <1>2, <1>3, NoHitNoAnswer
    <2>2. Around(cell) = {}
      BY <1>2, <1>3, AroundHit
    <2> QED
      BY <2>1, <2>2
  <1>4. CASE Hits(input.eof, file.catalog_id, b) # {}
    <2>1. PICK h \in Hits(input.eof, file.catalog_id, b) :
            hit = [found |-> TRUE,
                   block |-> input.eof[h[1]].data[h[2]].block
                               + (b - StartBlock(input.eof[h[1]])[h[2]]),
                   num |-> input.eof[h[1]].data[h[2]].num
                             - (b - StartBlock(input.eof[h[1]])[h[2]])]
      BY <1>1, <1>2, <1>4, AnswerIsHit
    <2>2. PICK e, diff : /\ e = input.eof[h[1]].data[h[2]]
                         /\ diff = b - StartBlock(input.eof[h[1]])[h[2]]
      OBVIOUS
    <2>3. /\ hit.found
          /\ hit.block = e.block + diff
          /\ hit.num = e.num - diff
      BY <2>1, <2>2
    <2>4. /\ e \in Around(cell)
          /\ diff \in Nat
          /\ e.block \in Nat /\ e.num \in Nat /\ diff < e.num
          /\ cell = DeviceCell(e.block + diff) + r
      <3>1. r < BlockSize /\ k = b * BlockSize + r
        BY <1>2
      <3>2. /\ e \in Around(input.content[k])
            /\ diff \in Nat
            /\ e.block \in Nat /\ e.num \in Nat /\ diff < e.num
            /\ input.content[k] = DeviceCell(e.block + diff) + r
        BY <2>2, <3>1, HitAround
      <3> QED
        BY <3>2
    <2>5. DeviceCell(hit.block) = cell - r
      <3>1. PICK c \in Nat : c = DeviceCell(e.block + diff)
        <4>1. e.block + diff \in Nat
          BY <2>4
        <4> QED
          BY <4>1, DeviceCellNat
      <3> QED
        BY <2>3, <2>4, <3>1
    <2>6. hit.block + hit.num = e.block + e.num
      BY <2>3, <2>4
    <2> QED
      BY <1>2, <2>3, <2>4, <2>5, <2>6
  <1> QED
    BY <1>3, <1>4
-----------------------------------------------------------------------------
LEMMA SoundInput ==
  ASSUME input \in Inputs
  PROVE  InputOK(input) /\ CatalogSound(input) /\ OverflowSound(input)
  BY InputsAssumption

LEMMA InitIInv ==
  ASSUME Init
  PROVE  IInv
  <1>1. input \in Inputs /\ InputOK(input) /\ CatalogSound(input)
    BY SoundInput DEF Init
  <1>2. file.file_size \in Nat
    BY <1>1 DEF InputOK, File, file
  <1>3. Pos = 0
    BY <1>2 DEF Init, Pos
  <1>4. TypeOK
    <2>1. i \in 1 .. NumExtents + 1
      BY SizesAssumption DEF Init
    <2>2. buf \in [0 .. ChunkSize - 1 -> Cell]
      BY DEF Init, Cell
    <2>3. out \in [Offsets -> Cell \cup {Hole}]
      BY DEF Init
    <2>4. bytes_left \in 0 .. file.file_size /\ bytes \in 0 .. file.file_size - bytes_left
      BY <1>2 DEF Init
    <2> QED
      BY <1>1, <2>1, <2>2, <2>3, <2>4 DEF Init, TypeOK, Results
  <1>5. Aim
    BY <1>2, <1>3 DEF Init, Aim, Offsets
  <1>6. Place
    BY <1>2 DEF Init, Place
  <1>7. CopyFaithful
    BY <1>2, <1>3 DEF Init, CopyFaithful, Written, Offsets
  <1>8. Verdict
    BY DEF Init, Verdict
  <1> QED
    BY <1>1, <1>4, <1>5, <1>6, <1>7, <1>8 DEF IInv

-----------------------------------------------------------------------------
(* One turn of WriteFileBytes.                                             *)
LEMMA WriteChunkKeeps ==
  ASSUME IInv, WriteChunk
  PROVE  TypeOK' /\ Aim' /\ CopyFaithful'
  <1> DEFINE n == Min2(bytes, ChunkSize)
             S == file.file_size
  <1>1. /\ S \in Nat
        /\ bytes_left \in 0 .. S
        /\ bytes \in 0 .. S - bytes_left
        /\ bytes > 0
        /\ file_offset \in Nat
        /\ ChunkSize \in Nat \ {0}
    BY SizesAssumption DEF IInv, TypeOK, InputOK, File, file, WriteChunk
  <1>2. n \in 1 .. bytes /\ n <= ChunkSize
    BY <1>1 DEF Min2
  <1>3. PICK got \in 0 .. n :
          /\ ReadsUpTo(n, got)
          /\ buf' = [c \in 0 .. ChunkSize - 1 |->
                       IF c < got THEN file_offset + c ELSE buf[c]]
          /\ out' = [k \in Offsets |->
                       IF Pos <= k /\ k < Pos + n /\ k < input.space
                       THEN buf'[k - Pos] ELSE out[k]]
          /\ bytes' = bytes - n
          /\ file_offset' = file_offset + n
    BY DEF WriteChunk
  <1>4. /\ UNCHANGED <<input, pc, i, bytes_left, file_block, restored, result>>
        /\ S' = S
        /\ Offsets' = Offsets
    BY DEF WriteChunk, file, Offsets
  <1> HIDE DEF n
  <1>5. Pos \in Nat /\ Pos + n <= S /\ Pos = S - bytes_left - bytes
    BY <1>1, <1>2 DEF Pos
  <1>6. Pos' = Pos + n
    BY <1>1, <1>2, <1>3, <1>4 DEF Pos
  <1>7. \A c \in 0 .. ChunkSize - 1 : buf[c] \in Cell /\ buf'[c] \in Cell
    <2> SUFFICES ASSUME NEW c \in 0 .. ChunkSize - 1
                 PROVE  buf[c] \in Cell /\ buf'[c] \in Cell
      OBVIOUS
    <2>1. buf[c] \in Cell
      BY DEF IInv, TypeOK
    <2>2. buf'[c] = IF c < got THEN file_offset + c ELSE buf[c]
      BY <1>3
    <2> QED
      BY <1>1, <2>1, <2>2 DEF Cell
  <1>8. TypeOK'
    <2>1. buf' \in [0 .. ChunkSize - 1 -> Cell]
      BY <1>3, <1>7
    <2>2. \A k \in Offsets : out'[k] \in Cell \cup {Hole}
      <3> SUFFICES ASSUME NEW k \in Offsets
                   PROVE  out'[k] \in Cell \cup {Hole}
        OBVIOUS
      <3>1. k \in Nat /\ out[k] \in Cell \cup {Hole}
        BY <1>1 DEF IInv, TypeOK, Offsets
      <3>2. out'[k] = IF Pos <= k /\ k < Pos + n /\ k < input.space
                      THEN buf'[k - Pos] ELSE out[k]
        BY <1>3
      <3>3. CASE Pos <= k /\ k < Pos + n
        <4>1. k - Pos \in 0 .. ChunkSize - 1
          BY <1>1, <1>2, <1>5, <3>1, <3>3
        <4> QED
          BY <1>7, <3>1, <3>2, <4>1
      <3> QED
        BY <3>1, <3>2, <3>3
    <2>3. out' \in [Offsets -> Cell \cup {Hole}]
      BY <1>3, <2>2
    <2>4. /\ bytes' \in 0 .. S - bytes_left
          /\ file_offset' \in Nat
      BY <1>1, <1>2, <1>3
    <2> QED
      BY <1>4, <2>1, <2>3, <2>4 DEF IInv, TypeOK
  <1>9. Aim'
    <2> SUFFICES ASSUME NEW k \in Offsets,
                        Pos + n <= k, k < Pos + n + (bytes - n)
                 PROVE  input.content[k] = (file_offset + n) + (k - (Pos + n))
      BY <1>3, <1>4, <1>6 DEF Aim
    <2>1. k \in Nat
      BY <1>1 DEF Offsets
    <2>2. Pos <= k /\ k < Pos + bytes
      BY <1>1, <1>2, <1>5, <2>1
    <2>3. input.content[k] = file_offset + (k - Pos)
      BY <2>2 DEF IInv, Aim
    <2> QED
      BY <1>1, <1>2, <1>5, <2>1, <2>3
  <1>10. CopyFaithful'
    <2> DEFINE Right(k) ==
          \/ out'[k] = input.content[k]
          \/ \E j \in 0 .. k : k - j < ChunkSize /\ input.content[j] \in input.bad
    <2> SUFFICES ASSUME NEW k \in Offsets
                 PROVE  /\ (k < Pos + n /\ k < input.space) <=> out'[k] # Hole
                        /\ (k < Pos + n /\ k < input.space) => Right(k)
      BY <1>4, <1>6 DEF CopyFaithful, Written
    <2>1. k \in Nat /\ input.space \in Nat
      BY <1>1 DEF Offsets, IInv, TypeOK, InputOK
    <2>2. out'[k] = IF Pos <= k /\ k < Pos + n /\ k < input.space
                    THEN buf'[k - Pos] ELSE out[k]
      BY <1>3
    <2>3. CASE k < Pos
      <3>1. out'[k] = out[k] /\ k < Pos + n
        BY <1>2, <1>5, <2>1, <2>2, <2>3
      <3> QED
        BY <2>3, <3>1 DEF IInv, CopyFaithful, Written
    <2>4. CASE Pos <= k /\ k < Pos + n /\ k < input.space
      <3> DEFINE c == k - Pos
      <3>1. c \in 0 .. ChunkSize - 1 /\ c < n /\ k = Pos + c /\ c \in Nat
        BY <1>1, <1>2, <1>5, <2>1, <2>4
      <3>2. out'[k] = buf'[c]
        BY <2>2, <2>4
      <3>3. buf'[c] = IF c < got THEN file_offset + c ELSE buf[c]
        BY <1>3, <3>1
      <3>4. out'[k] # Hole
        BY <1>7, <3>1, <3>2 DEF Cell, Hole, Old
      <3>5. Right(k)
        <4>1. \A j \in Offsets : (Pos <= j /\ j < Pos + bytes) =>
                                    input.content[j] = file_offset + (j - Pos)
          BY DEF IInv, Aim
        <4>2. CASE c < got
          <5>1. k < Pos + bytes
            BY <1>1, <1>2, <1>5, <2>1, <2>4
          <5> QED
            BY <2>4, <3>2, <3>3, <4>1, <4>2, <5>1
        <4>3. CASE ~(c < got)
          <5>1. got < n /\ got <= c /\ got \in Nat
            BY <1>1, <1>2, <3>1, <4>3
          <5>2. file_offset + got \in input.bad
            BY <1>3, <5>1 DEF ReadsUpTo
          <5>3. /\ Pos + got \in Offsets
                /\ Pos <= Pos + got
                /\ Pos + got < Pos + bytes
                /\ (Pos + got) - Pos = got
            BY <1>1, <1>2, <1>5, <5>1 DEF Offsets
          <5>4. input.content[Pos + got] = file_offset + got
            BY <4>1, <5>3
          <5>5. Pos + got \in 0 .. k /\ k - (Pos + got) < ChunkSize
            BY <1>1, <1>2, <1>5, <3>1, <5>1
          <5> QED
            BY <5>2, <5>4, <5>5
        <4> QED
          BY <4>2, <4>3
      <3> QED
        BY <2>4, <3>4, <3>5
    <2>5. CASE Pos <= k /\ ~(k < Pos + n /\ k < input.space)
      <3>1. out'[k] = out[k] /\ ~(k < Pos)
        BY <1>5, <2>1, <2>2, <2>5
      <3>2. out[k] = Hole
        BY <3>1 DEF IInv, CopyFaithful, Written
      <3> QED
        BY <2>5, <3>1, <3>2
    <2> QED
      BY <1>5, <2>1, <2>3, <2>4, <2>5
  <1> QED
    BY <1>8, <1>9, <1>10
-----------------------------------------------------------------------------
LEMMA StartExtentKeeps ==
  ASSUME IInv, StartExtent
  PROVE  IInv'
  <1> DEFINE S == file.file_size
  <1>1. /\ i \in CatalogExtents
        /\ LiveExtent(file, i)
        /\ pc = "extents" /\ bytes = 0
        /\ CopyBlocks(file.blocks[i], file.num_blocks[i])
        /\ i' = i + 1
        /\ input' = input
        /\ UNCHANGED <<pc, file_block, buf, out, restored, result>>
    BY DEF StartExtent, IInv, TypeOK, CatalogExtents
  <1>2. input \in Inputs /\ InputOK(input) /\ CatalogSound(input) /\ TypeOK
    BY SoundInput DEF IInv
  <1>3. /\ S \in Nat
        /\ file.num_blocks[i] \in Nat /\ file.blocks[i] \in Nat
    BY <1>1, <1>2 DEF InputOK, File, file
  <1>4. NumExtents \in Nat /\ i \in 1 .. NumExtents + 1
    BY SizesAssumption, <1>2 DEF TypeOK
  <1>5. input.first[i] \in Nat
    BY <1>2, <1>4 DEF InputOK
  <1>6. PICK a \in Nat, num \in Nat, block \in Nat :
          a = input.first[i] /\ num = file.num_blocks[i] /\ block = file.blocks[i]
    BY <1>3, <1>5
  <1>7. AtBlock(a) /\ \A j \in 1 .. i - 1 : LiveExtent(file, j)
    BY <1>1, <1>6 DEF IInv, Place
  <1>8. /\ input.first[i + 1] = a + num
        /\ \A k \in Offsets :
             (a * BlockSize <= k /\ k < (a + num) * BlockSize)
             => input.content[k] = DeviceCell(block) + (k - a * BlockSize)
    BY <1>1, <1>2, <1>6 DEF CatalogSound, file, Offsets
  <1>9. CopyBlocks(block, num)
    BY <1>1, <1>6
  <1>10. /\ bytes_left' \in 0 .. S
         /\ bytes' \in 0 .. S - bytes_left'
         /\ file_offset' \in Nat
         /\ Pos' = Pos
         /\ Aim'
         /\ AtBlock(a + num)'
    BY <1>1, <1>2, <1>7, <1>8, <1>9, CopyBlocksAims
  <1>11. S' = S /\ Offsets' = Offsets
    BY <1>1 DEF file, Offsets
  <1>12. TypeOK'
    <2>1. i' \in 1 .. NumExtents + 1
      BY <1>1, <1>4 DEF CatalogExtents
    <2> QED
      BY <1>1, <1>2, <1>10, <1>11, <2>1 DEF TypeOK
  <1>13. Place'
    <2>1. AtBlock(input.first[i])'
      BY <1>1, <1>8, <1>10 DEF AtBlock
    <2>2. (\A j \in 1 .. i - 1 : LiveExtent(file, j))'
      BY <1>1, <1>4, <1>7 DEF file, CatalogExtents, LiveExtent
    <2> QED
      BY <1>1, <2>1, <2>2 DEF Place
  <1>14. CopyFaithful'
    BY <1>1, <1>10, <1>11 DEF IInv, CopyFaithful, Written
  <1>15. Verdict'
    BY <1>1 DEF IInv, Verdict
  <1> QED
    BY <1>1, <1>2, <1>10, <1>12, <1>13, <1>14, <1>15 DEF IInv

LEMMA StartOverflowExtentKeeps ==
  ASSUME IInv, StartOverflowExtent
  PROVE  IInv'
  <1> DEFINE S == file.file_size
  <1>1. /\ pc = "overflow" /\ bytes = 0 /\ bytes_left > 0
        /\ Lookup.found
        /\ CopyBlocks(Lookup.block, Lookup.num)
        /\ file_block' = file_block + Lookup.num
        /\ input' = input
        /\ UNCHANGED <<pc, i, buf, out, restored, result>>
    BY DEF StartOverflowExtent
  <1>2. input \in Inputs /\ InputOK(input) /\ OverflowSound(input) /\ TypeOK
    BY SoundInput DEF IInv
  <1>3. S \in Nat /\ bytes_left \in 0 .. S
    BY <1>2 DEF TypeOK, InputOK, File, file
  <1>4. PICK a \in Nat : a = file_block
    BY <1>2 DEF TypeOK
  <1>5. AtBlock(a)
    BY <1>1, <1>4 DEF IInv, Place
  <1>7. /\ Lookup.block \in Nat
        /\ Lookup.num \in Nat
        /\ \A k \in Offsets :
             (a * BlockSize <= k /\ k < (a + Lookup.num) * BlockSize)
             => input.content[k] = DeviceCell(Lookup.block) + (k - a * BlockSize)
    BY <1>1, <1>2, <1>4, AnswersSound DEF Lookup, file, Offsets
  <1>8. PICK num \in Nat, block \in Nat : num = Lookup.num /\ block = Lookup.block
    BY <1>7
  <1>9. CopyBlocks(block, num)
    BY <1>1, <1>8
  <1>10. \A k \in Offsets :
           (a * BlockSize <= k /\ k < (a + num) * BlockSize)
           => input.content[k] = DeviceCell(block) + (k - a * BlockSize)
    BY <1>7, <1>8
  <1>11. /\ bytes_left' \in 0 .. S
         /\ bytes' \in 0 .. S - bytes_left'
         /\ file_offset' \in Nat
         /\ Pos' = Pos
         /\ Aim'
         /\ AtBlock(a + num)'
    BY <1>1, <1>2, <1>5, <1>9, <1>10, CopyBlocksAims
  <1>12. S' = S /\ Offsets' = Offsets
    BY <1>1 DEF file, Offsets
  <1>13. file_block' = a + num /\ file_block' \in Nat
    BY <1>1, <1>4, <1>8
  <1>14. TypeOK'
    BY <1>1, <1>2, <1>11, <1>12, <1>13 DEF TypeOK
  <1>15. Place'
    <2>1. AtBlock(file_block)'
      BY <1>11, <1>13 DEF AtBlock
    <2> QED
      BY <1>1, <2>1 DEF Place
  <1>16. CopyFaithful'
    BY <1>1, <1>11, <1>12 DEF IInv, CopyFaithful, Written
  <1>17. Verdict'
    BY <1>1 DEF IInv, Verdict, file
  <1> QED
    BY <1>1, <1>2, <1>11, <1>14, <1>15, <1>16, <1>17 DEF IInv
(* A step that neither moves nor writes keeps what is said of the copy.    *)
LEMMA StandingStep ==
  ASSUME IInv, UNCHANGED <<input, bytes_left, bytes, file_offset, buf, out>>
  PROVE  input' \in Inputs /\ Aim' /\ CopyFaithful'
  <1>1. Pos' = Pos /\ Offsets' = Offsets /\ file' = file
    BY DEF Pos, Offsets, file
  <1>2. Aim'
    BY <1>1 DEF IInv, Aim
  <1>3. CopyFaithful'
    BY <1>1 DEF IInv, CopyFaithful, Written
  <1> QED
    BY <1>2, <1>3 DEF IInv

(* Where the catalog extents end, the copy has reached the block number    *)
(* catalog_num_blocks: the overflow file is asked for the right block, and *)
(* a file that is still short has has_extents_overflow set.                *)
LEMMA EndExtentsKeeps ==
  ASSUME IInv, EndExtents
  PROVE  IInv'
  <1> DEFINE S == file.file_size
  <1>1. /\ pc = "extents" /\ bytes = 0
        /\ i <= NumExtents => ~LiveExtent(file, i)
        /\ pc' = IF /\ ~input.options.ignore_eof
                   /\ file.has_extents_overflow
                   /\ i > NumExtents
                   /\ input.eof_available
                THEN "overflow" ELSE "close"
        /\ file_block' = file.catalog_num_blocks
        /\ UNCHANGED <<input, i, bytes_left, bytes, file_offset, buf, out,
                       restored, result>>
    BY DEF EndExtents
  <1>2. input' \in Inputs /\ Aim' /\ CopyFaithful'
    BY <1>1, StandingStep
  <1>3. CatalogSound(input) /\ InputOK(input) /\ TypeOK
    BY SoundInput DEF IInv
  <1>4. /\ S \in Nat /\ bytes_left \in 0 .. S
        /\ i \in 1 .. NumExtents + 1
        /\ file.catalog_num_blocks \in Nat
    BY <1>3 DEF TypeOK, InputOK, File, file
  <1>5. /\ AtBlock(input.first[i])
        /\ \A j \in 1 .. i - 1 : LiveExtent(file, j)
    BY <1>1 DEF IInv, Place
  <1>6. file.catalog_num_blocks = input.first[i]
    BY <1>1, <1>3, <1>4, <1>5 DEF CatalogSound, file
  <1>7. AtBlock(file.catalog_num_blocks)
    BY <1>5, <1>6
  <1>8. bytes_left > 0 => file.has_extents_overflow
    <2> SUFFICES ASSUME bytes_left > 0
                 PROVE  file.has_extents_overflow
      OBVIOUS
    <2>1. PICK c \in Nat : c = file.catalog_num_blocks * BlockSize
      BY <1>4, BlockArithmetic
    <2>2. S - bytes_left = c
      BY <1>4, <1>7, <2>1 DEF AtBlock
    <2>3. c < S
      BY <1>4, <2>2
    <2> QED
      BY <1>3, <2>1, <2>3 DEF CatalogSound, file
  <1>9. TypeOK'
    BY <1>1, <1>3, <1>4 DEF TypeOK, file, Offsets
  <1>10. Place'
    <2>1. AtBlock(file_block)'
      BY <1>1, <1>7 DEF AtBlock, file
    <2> QED
      BY <1>1, <2>1 DEF Place
  <1>11. Verdict'
    <2>1. pc' = "close" \/ (pc' = "overflow" /\ file.has_extents_overflow)
      BY <1>1
    <2>2. (pc' = "close" /\ bytes_left > 0) =>
            /\ file.has_extents_overflow
            /\ \/ input.options.ignore_eof
               \/ ~input.eof_available
               \/ i <= NumExtents
      <3> SUFFICES ASSUME pc' = "close", bytes_left > 0
                   PROVE  /\ file.has_extents_overflow
                          /\ \/ input.options.ignore_eof
                             \/ ~input.eof_available
                             \/ i <= NumExtents
        OBVIOUS
      <3>1. file.has_extents_overflow
        BY <1>8
      <3>2. i \in Int /\ NumExtents \in Nat
        BY <1>4, SizesAssumption
      <3> QED
        BY <1>1, <3>1, <3>2
    <2>3. result = "none"
      BY <1>1 DEF IInv, Verdict
    <2> QED
      BY <1>1, <2>1, <2>2, <2>3 DEF IInv, Verdict, ShortBecause, file
  <1> QED
    BY <1>2, <1>9, <1>10, <1>11 DEF IInv

LEMMA EndOverflowKeeps ==
  ASSUME IInv, EndOverflow
  PROVE  IInv'
  <1>1. /\ pc = "overflow" /\ bytes = 0 /\ pc' = "close"
        /\ bytes_left > 0 => ~Lookup.found
        /\ UNCHANGED <<input, i, bytes_left, bytes, file_offset, file_block, buf,
                       out, restored, result>>
    BY DEF EndOverflow
  <1>2. input' \in Inputs /\ Aim' /\ CopyFaithful'
    BY <1>1, StandingStep
  <1>3. Lookup' = Lookup /\ file' = file
    BY <1>1 DEF Lookup, file
  <1>4. TypeOK'
    BY <1>1, <1>3 DEF IInv, TypeOK, Offsets
  <1>5. Place'
    BY <1>1 DEF Place
  <1>6. Verdict'
    BY <1>1, <1>3 DEF IInv, Verdict, ShortBecause
  <1> QED
    BY <1>2, <1>4, <1>5, <1>6 DEF IInv

(* The two early returns, fopen's success and its failure.                 *)
LEMMA CheckKeeps ==
  ASSUME IInv, Refuse \/ CreateFile \/ CreateFails
  PROVE  IInv'
  <1>1. /\ pc = "check"
        /\ UNCHANGED <<input, i, bytes_left, bytes, file_offset, file_block, buf,
                       out, restored>>
    BY DEF Refuse, CreateFile, CreateFails
  <1>2. \/ pc' = "extents" /\ result' = result
        \/ /\ pc' = "done"
           /\ result' \in Results \ {"none"}
           /\ result' = "returned" => bytes_left = 0
    BY DEF Refuse, CreateFile, CreateFails, Return, Results
  <1>3. input' \in Inputs /\ Aim' /\ CopyFaithful'
    BY <1>1, StandingStep
  <1>4. Lookup' = Lookup /\ file' = file
    BY <1>1 DEF Lookup, file
  <1>5. /\ i = 1 /\ bytes = 0
        /\ bytes_left = file.file_size
        /\ file.file_size \in Nat
        /\ input.first[1] = 0
    BY <1>1, SoundInput
    DEF IInv, Place, TypeOK, InputOK, File, file, CatalogSound
  <1>6. TypeOK'
    BY <1>1, <1>2, <1>4 DEF IInv, TypeOK, Offsets
  <1>7. Place'
    <2>1. AtBlock(input.first[i])'
      <3>1. 0 * BlockSize = 0
        BY SizesAssumption
      <3> QED
        BY <1>1, <1>4, <1>5, <3>1 DEF AtBlock
    <2>2. (\A j \in 1 .. i - 1 : LiveExtent(file, j))'
      BY <1>1, <1>5
    <2> QED
      BY <1>1, <1>2, <1>5, <2>1, <2>2 DEF Place
  <1>8. Verdict'
    BY <1>1, <1>2, <1>4, <1>5 DEF IInv, Verdict, ShortBecause
  <1> QED
    BY <1>3, <1>6, <1>7, <1>8 DEF IInv

LEMMA CloseKeeps ==
  ASSUME IInv, Close
  PROVE  IInv'
  <1>1. /\ pc = "close" /\ pc' = "done" /\ result' = "returned"
        /\ restored' = (bytes_left = 0)
        /\ UNCHANGED <<input, i, bytes_left, bytes, file_offset, file_block, buf,
                       out>>
    BY DEF Close, Return
  <1>2. input' \in Inputs /\ Aim' /\ CopyFaithful'
    BY <1>1, StandingStep
  <1>3. Lookup' = Lookup /\ file' = file
    BY <1>1 DEF Lookup, file
  <1>4. TypeOK'
    BY <1>1, <1>3 DEF IInv, TypeOK, Offsets, Results
  <1>5. Place'
    BY <1>1 DEF IInv, Place
  <1>6. bytes_left \in Nat
    BY DEF IInv, TypeOK, InputOK, File, file
  <1>7. Verdict'
    <2>1. ShortBecause' <=> ShortBecause
      BY <1>1, <1>3 DEF ShortBecause
    <2>2. restored' => bytes_left = 0
      BY <1>1
    <2>3. ~restored' => bytes_left > 0
      <3>1. ~restored' => bytes_left # 0
        BY <1>1
      <3>2. bytes_left # 0 => bytes_left > 0
        BY <1>6
      <3> QED
        BY <3>1, <3>2
    <2>4. bytes_left > 0 => ShortBecause
      BY <1>1 DEF IInv, Verdict
    <2> QED
      BY <1>1, <2>1, <2>2, <2>3, <2>4 DEF Verdict
  <1> QED
    BY <1>2, <1>4, <1>5, <1>7 DEF IInv

-----------------------------------------------------------------------------
LEMMA NextKeeps ==
  ASSUME IInv, [Next]_vars
  PROVE  IInv'
  <1>1. CASE Refuse \/ CreateFile \/ CreateFails
    BY <1>1, CheckKeeps
  <1>2. CASE StartExtent
    BY <1>2, StartExtentKeeps
  <1>3. CASE EndExtents
    BY <1>3, EndExtentsKeeps
  <1>4. CASE StartOverflowExtent
    BY <1>4, StartOverflowExtentKeeps
  <1>5. CASE EndOverflow
    BY <1>5, EndOverflowKeeps
  <1>6. CASE WriteChunk
    <2>1. TypeOK' /\ Aim' /\ CopyFaithful'
      BY <1>6, WriteChunkKeeps
    <2>2. /\ bytes > 0
          /\ UNCHANGED <<input, pc, i, bytes_left, file_block, restored, result>>
      BY <1>6 DEF WriteChunk
    <2>3. Lookup' = Lookup /\ file' = file
      BY <2>2 DEF Lookup, file
    <2>4. bytes # 0
      BY <2>2
    <2>5. Place'
      BY <2>2, <2>3, <2>4 DEF IInv, Place, AtBlock
    <2>6. Verdict'
      BY <2>2, <2>3 DEF IInv, Verdict, ShortBecause
    <2> QED
      BY <2>1, <2>2, <2>5, <2>6 DEF IInv
  <1>7. CASE Close
    BY <1>7, CloseKeeps
  <1>8. CASE UNCHANGED vars
    <2>1. input' \in Inputs /\ Aim' /\ CopyFaithful'
      BY <1>8, StandingStep DEF vars
    <2>2. Lookup' = Lookup /\ file' = file
      BY <1>8 DEF vars, Lookup, file
    <2>3. TypeOK'
      BY <1>8, <2>2 DEF vars, IInv, TypeOK, Offsets
    <2>4. Place'
      BY <1>8, <2>2 DEF vars, IInv, Place, AtBlock
    <2>5. Verdict'
      BY <1>8, <2>2 DEF vars, IInv, Verdict, ShortBecause
    <2> QED
      BY <2>1, <2>3, <2>4, <2>5 DEF IInv
  <1> QED
    BY <1>1, <1>2, <1>3, <1>4, <1>5, <1>6, <1>7, <1>8 DEF Next
-----------------------------------------------------------------------------
(* The theorems.                                                           *)

LEMMA Invariance == Spec => []IInv
  <1>1. Init => IInv
    BY InitIInv
  <1>2. IInv /\ [Next]_vars => IInv'
    BY NextKeeps
  <1> QED
    BY <1>1, <1>2, PTL DEF Spec

(* All variables keep their types and the loop counters their bounds:      *)
(* bytes_left never wraps below 0, whatever the extents claim.             *)
THEOREM TypeCorrect == Spec => []TypeOK
  <1>1. IInv => TypeOK
    BY DEF IInv
  <1> QED
    BY <1>1, Invariance, PTL

(* RestoreUncompressedFile writes the file's cells in order, for every     *)
(* layout; only an unreadable cell, and only within one buffer, spoils it. *)
THEOREM Faithful == Spec => []CopyFaithful
  <1>1. IInv => CopyFaithful
    BY DEF IInv
  <1> QED
    BY <1>1, Invariance, PTL

(* file_info.restored is set only when the whole file has been written.    *)
THEOREM Whole == Spec => []RestoredIsWhole
  <1>1. ASSUME IInv
        PROVE  RestoredIsWhole
    <2> SUFFICES ASSUME restored, NEW k \in Offsets, k < input.space
                 PROVE  result = "returned" /\ out[k] # Hole
      BY <1>1 DEF RestoredIsWhole, IInv, Verdict
    <2>1. result = "returned" /\ bytes_left = 0 /\ pc = "done"
      BY <1>1 DEF IInv, Verdict
    <2>2. bytes = 0 /\ file.file_size \in Nat
      BY <1>1, <2>1 DEF IInv, Place, TypeOK, InputOK, File, file
    <2>3. k < Pos
      BY <2>1, <2>2 DEF Pos, Offsets
    <2> QED
      BY <1>1, <2>1, <2>3 DEF IInv, CopyFaithful, Written
  <1> QED
    BY <1>1, Invariance, PTL

(* A run that returns TRUE leaves a file short only when its extents are   *)
(* in an overflow file that cannot be had.                                 *)
THEOREM ShortExplained == Spec => []ShortOnlyWithoutOverflow
  <1>1. IInv => ShortOnlyWithoutOverflow
    BY DEF IInv, Verdict, ShortBecause, ShortOnlyWithoutOverflow
  <1> QED
    BY <1>1, Invariance, PTL

(* EOF_GetRemainingBlocks finds each block of the file that the overflow   *)
(* file holds, where it lies on the device, with the rest of its extent,   *)
(* and no other, whatever order and company the records have.              *)
THEOREM AnswersTrue == Spec => []AnswerRight
  <1>1. ASSUME IInv
        PROVE  AnswerRight
    <2>1. InputOK(input) /\ OverflowSound(input) /\ AllocatedOnce(input)
      BY <1>1, InputsAssumption, VolumeAssumption DEF IInv
    <2> QED
      BY <2>1, AnswersAreRight DEF AnswerRight
  <1> QED
    BY <1>1, Invariance, PTL
-----------------------------------------------------------------------------
(* The refinement of FileCopy.                                             *)

Healthy ==
  /\ input.space >= file.file_size
  /\ \A k \in Offsets : input.content[k] \notin input.bad

(* On a healthy device the copy is the prefix of the content up to Pos.    *)
LEMMA HealthyPrefix ==
  ASSUME IInv, Healthy
  PROVE  out = [k \in Offsets |-> IF k < Pos THEN input.content[k] ELSE Hole]
  <1>1. out \in [Offsets -> Cell \cup {Hole}]
    BY DEF IInv, TypeOK
  <1>2. file.file_size \in Nat /\ input.space \in Nat
    BY DEF IInv, TypeOK, InputOK, File, file
  <1>3. ASSUME NEW k \in Offsets
        PROVE  out[k] = IF k < Pos THEN input.content[k] ELSE Hole
    <2>1. k \in Nat /\ k < input.space
      BY <1>2 DEF Offsets, Healthy
    <2>2. \A j \in 0 .. k : j \in Offsets
      BY <1>2 DEF Offsets
    <2>3. \A j \in 0 .. k : input.content[j] \notin input.bad
      BY <2>2 DEF Healthy
    <2> QED
      BY <2>1, <2>3 DEF IInv, CopyFaithful, Written
  <1> QED
    BY <1>1, <1>3

(* One turn of WriteFileBytes is a write of the abstract copy, or, when    *)
(* the target is full, no step at all.                                     *)
LEMMA WriteChunkExtends ==
  ASSUME IInv, WriteChunk
  PROVE  Copy!Extend \/ UNCHANGED Copy!vars
  <1> DEFINE S == file.file_size
             D == DOMAIN input.content
  <1>1. PICK n \in 1 .. bytes :
          /\ bytes' = bytes - n
          /\ DOMAIN out' = Offsets
          /\ \A k \in Offsets : (k < Pos \/ k >= Pos + n) => out'[k] = out[k]
    <2>1. bytes \in Nat /\ bytes > 0 /\ ChunkSize \in Nat \ {0}
      BY SizesAssumption DEF IInv, TypeOK, InputOK, File, file, WriteChunk
    <2>2. PICK n \in 1 .. bytes : n = Min2(bytes, ChunkSize)
      BY <2>1 DEF Min2
    <2>3. S \in Nat /\ Pos \in Int
      BY DEF IInv, TypeOK, InputOK, File, file, Pos
    <2>4. \A k \in Offsets : k \in Int
      BY <2>3 DEF Offsets
    <2>5. /\ bytes' = bytes - n
          /\ \E val : out' = [k \in Offsets |->
                  IF Pos <= k /\ k < Pos + n /\ k < input.space
                  THEN val[k - Pos] ELSE out[k]]
      BY <2>2 DEF WriteChunk
    <2>6. PICK val : out' = [k \in Offsets |->
                  IF Pos <= k /\ k < Pos + n /\ k < input.space
                  THEN val[k - Pos] ELSE out[k]]
      BY <2>5
    <2>7. \A k \in Offsets : (k < Pos \/ k >= Pos + n) => out'[k] = out[k]
      BY <2>3, <2>4, <2>6
    <2> QED
      BY <2>5, <2>6, <2>7
  <1>2. /\ S \in Nat
        /\ bytes_left \in 0 .. S
        /\ bytes \in 0 .. S - bytes_left
        /\ D = Offsets
        /\ out \in [Offsets -> Cell \cup {Hole}]
    BY DEF IInv, TypeOK, InputOK, File, file, Offsets
  <1>3. Pos \in Nat /\ Pos + n <= S
    BY <1>1, <1>2 DEF Pos
  <1>4. /\ UNCHANGED <<input, pc, bytes_left, restored>>
        /\ file' = file /\ Offsets' = Offsets
        /\ Healthy' <=> Healthy
    BY DEF WriteChunk, file, Offsets, Healthy
  <1>5. Pos' = Pos + n
    BY <1>1, <1>2, <1>4 DEF Pos
  <1>6. ~restored
    BY DEF IInv, Verdict, Place, WriteChunk
  <1>7. Pos \in D /\ Pos + n \in { k + 1 : k \in D } /\ Pos < Pos + n
    <2>1. Pos \in Offsets /\ (Pos + n) - 1 \in Offsets
      BY <1>1, <1>2, <1>3 DEF Offsets
    <2>2. Pos + n = ((Pos + n) - 1) + 1
      BY <1>1, <1>3
    <2> QED
      BY <1>1, <1>2, <1>3, <2>1, <2>2
  <1>8. \A k \in D : k >= Pos => out[k] = Hole
    <2> SUFFICES ASSUME NEW k \in Offsets, k >= Pos
                 PROVE  out[k] = Hole
      BY <1>2
    <2>1. ~(k < Pos)
      BY <1>2, <1>3 DEF Offsets
    <2> QED
      BY <2>1 DEF IInv, CopyFaithful, Written
  <1>9. Healthy => /\ out = Copy!Prefix(Pos)
                   /\ out' = [k \in D |-> IF k < Pos + n THEN input.content[k]
                                          ELSE Hole]
    <2>1. ASSUME Healthy PROVE out = Copy!Prefix(Pos)
      BY <1>2, <2>1, HealthyPrefix DEF Copy!Prefix, Copy!Offsets
    <2>2. ASSUME Healthy
          PROVE  out' = [k \in D |-> IF k < Pos + n THEN input.content[k] ELSE Hole]
      <3>1. CopyFaithful'
        BY WriteChunkKeeps
      <3>2. ASSUME NEW k \in Offsets
            PROVE  out'[k] = IF k < Pos + n THEN input.content[k] ELSE Hole
        <4>1. k \in Nat /\ k < input.space
          BY <1>2, <2>2 DEF Offsets, Healthy, IInv, TypeOK, InputOK
        <4>2. \A j \in 0 .. k : input.content[j] \notin input.bad
          BY <1>2, <2>2 DEF Offsets, Healthy
        <4> QED
          BY <1>4, <1>5, <3>1, <4>1, <4>2 DEF CopyFaithful, Written
      <3>3. out' \in [Offsets -> Cell \cup {Hole}]
        BY <1>4, WriteChunkKeeps DEF TypeOK
      <3> QED
        BY <1>2, <3>2, <3>3
    <2> QED
      BY <2>1, <2>2
  <1>10. Copy!Extend
    BY <1>1, <1>2, <1>4, <1>6, <1>7, <1>8, <1>9
    DEF Copy!Extend, Copy!Offsets, Copy!Prefix, Healthy
  <1> QED
    BY <1>10
LEMMA CloseCompletes ==
  ASSUME IInv, Close
  PROVE  Copy!Complete \/ UNCHANGED Copy!vars
  <1>1. /\ pc = "close" /\ restored' = (bytes_left = 0)
        /\ UNCHANGED <<input, out>>
    BY DEF Close
  <1>2. ~restored /\ bytes = 0
    BY <1>1 DEF IInv, Verdict, Place
  <1>3. file' = file /\ Offsets' = Offsets /\ (Healthy' <=> Healthy)
    BY <1>1 DEF file, Offsets, Healthy
  <1>4. CASE bytes_left # 0
    <2>1. restored' = restored
      BY <1>1, <1>2, <1>4 DEF IInv, TypeOK
    <2> QED
      BY <1>1, <1>3, <2>1 DEF Copy!vars, Healthy
  <1>5. CASE bytes_left = 0
    <2>1. restored' = TRUE
      BY <1>1, <1>5
    <2>2. file.file_size \in Nat /\ input.content \in [Offsets -> Nat]
      BY DEF IInv, TypeOK, InputOK, File, file, Offsets
    <2>3. Pos = file.file_size
      BY <1>2, <1>5, <2>2 DEF Pos
    <2>4. \A k \in Offsets : k < Pos
      BY <2>2, <2>3 DEF Offsets
    <2>5. Healthy => out = input.content
      BY <2>2, <2>4, HealthyPrefix
    <2> QED
      BY <1>1, <1>2, <1>3, <2>1, <2>5 DEF Copy!Complete, Healthy
  <1> QED
    BY <1>4, <1>5

LEMMA NextRefines ==
  ASSUME IInv, [Next]_vars
  PROVE  [Copy!Next]_(Copy!vars)
  <1>1. CASE WriteChunk
    BY <1>1, WriteChunkExtends DEF Copy!Next
  <1>2. CASE Close
    BY <1>2, CloseCompletes DEF Copy!Next
  <1>3. CASE UNCHANGED <<input, out, restored>>
    <2>1. file' = file /\ Offsets' = Offsets
      BY <1>3 DEF file, Offsets
    <2> QED
      BY <1>3, <2>1 DEF Copy!vars
  <1> QED
    BY <1>1, <1>2, <1>3
    DEF Next, vars, Refuse, CreateFile, CreateFails, StartExtent, EndExtents,
        StartOverflowExtent, EndOverflow

(* RestoreUncompressedFile implements FileCopy for every layout: seen from *)
(* the target, extents, chunks and overflow records do not matter.         *)
THEOREM Implements == Spec => CopiesInOrder
  <1>1. Init => Copy!Init
    <2> SUFFICES ASSUME Init
                 PROVE  Copy!Init
      OBVIOUS
    <2>1. DOMAIN input.content = Offsets
      BY SoundInput DEF Init, InputOK, Offsets, file
    <2> QED
      BY <2>1 DEF Init, Copy!Init, Copy!Empty, Copy!Offsets
  <1>2. IInv /\ [Next]_vars => [Copy!Next]_(Copy!vars)
    BY NextRefines
  <1> QED
    BY <1>1, <1>2, Invariance, PTL DEF Spec, Copy!Spec, CopiesInOrder
=============================================================================
