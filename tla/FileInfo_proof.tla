--------------------------- MODULE FileInfo_proof ---------------------------
(***************************************************************************)
(* Proofs that hold for every database and every number of extents.        *)
(***************************************************************************)
EXTENDS FileInfo, WellFoundedInduction, TLAPS

(* Each file_info the loop saw comes from its own entry: whole, or from    *)
(* the wrong lines when the name was taken for a comment.                  *)
ReadFrom(n) ==
  \E old \in Info :
    loaded[n] = IF db[n].name = "plain" THEN LoadEntry(db[n], old)
                                        ELSE LoadShifted(db[n], old)

(* A name line is only skipped in front of an entry.                       *)
Read ==
  /\ \A n \in DOMAIN loaded : ReadFrom(n)
  /\ shifted => at < Len(db) /\ db[at + 1].name = "comment"

IInv == TypeOK /\ Read
-----------------------------------------------------------------------------
LEMMA Sizes ==
  /\ NumExtents \in Nat /\ NumExtents > 0 /\ Modulus \in Nat /\ Modulus > 0
  /\ BlockSize \in Nat /\ FsSize \in Nat
  BY FileInfoAssumption

LEMMA LessWellFounded == IsWellFoundedOn({p \in Nat \X Nat : p[1] < p[2]}, Nat)
  <1>1. OpToRel(<, Nat) = {p \in Nat \X Nat : p[1] < p[2]}
    BY DEF OpToRel
  <1> QED
    BY <1>1, NatLessThanWellFounded

LEMMA SmallestOf ==
  ASSUME NEW S, S \subseteq Nat, S # {}
  PROVE  \E m \in S : \A n \in S : m <= n
  <1> DEFINE R == {p \in Nat \X Nat : p[1] < p[2]}
  <1>1. IsWellFoundedOn(R, Nat)
    BY LessWellFounded
  <1> HIDE DEF R
  <1>2. PICK m \in S : \A y \in S : ~(<<y, m>> \in R)
    BY <1>1, WFMin
  <1>3. ASSUME NEW n \in S, n < m
        PROVE  FALSE
    <2>1. m \in Nat /\ n \in Nat /\ <<n, m>>[1] = n /\ <<n, m>>[2] = m
      OBVIOUS
    <2>2. <<n, m>> \in R
      BY <1>3, <2>1 DEF R
    <2> QED
      BY <1>2, <2>2
  <1>4. \A n \in S : m <= n
    BY <1>3
  <1> QED
    BY <1>4
-----------------------------------------------------------------------------
(* The sums of the first blocks of f, as a function of their number.       *)
IsSums(s, f, m) == s = [n \in 0 .. m |-> IF n = 0 THEN 0 ELSE s[n - 1] + f[n]]

(* The recursive definition of Sum defines something: by taking the        *)
(* smallest number of extents for which there would be no such function.   *)
LEMMA SumsExist ==
  ASSUME NEW f \in [Extents -> Nat]
  PROVE  \E s : IsSums(s, f, NumExtents)
  <1> DEFINE Bad == {m \in 0 .. NumExtents : ~\E s : IsSums(s, f, m)}
  <1> SUFFICES ASSUME Bad # {}
               PROVE  FALSE
    BY Sizes
  <1>1. Bad \subseteq Nat
    OBVIOUS
  <1>2. PICK m \in Bad : \A n \in Bad : m <= n
    BY <1>1, SmallestOf
  <1>3. m \in 0 .. NumExtents /\ ~\E s : IsSums(s, f, m)
    OBVIOUS
  <1>4. CASE m = 0
    <2> DEFINE s == [n \in 0 .. 0 |-> 0]
    <2>1. s = [n \in 0 .. 0 |-> IF n = 0 THEN 0 ELSE s[n - 1] + f[n]]
      OBVIOUS
    <2> QED
      BY <1>3, <1>4, <2>1 DEF IsSums
  <1>5. CASE m # 0
    <2>1. m - 1 \in 0 .. NumExtents /\ m - 1 < m /\ m \in Nat
      BY <1>3, <1>5, Sizes
    <2>2. m - 1 \notin Bad
      BY <1>2, <2>1
    <2>3. PICK r : IsSums(r, f, m - 1)
      BY <2>1, <2>2
    <2> DEFINE s == [n \in 0 .. m |-> IF n = m THEN r[m - 1] + f[m] ELSE r[n]]
    <2>4. ASSUME NEW n \in 0 .. m
          PROVE  s[n] = IF n = 0 THEN 0 ELSE s[n - 1] + f[n]
      <3>1. CASE n = m
        <4>1. s[m - 1] = r[m - 1]
          BY <2>1
        <4> QED
          BY <1>5, <3>1, <4>1
      <3>2. CASE n # m /\ n # 0
        <4>1. n \in 0 .. m - 1 /\ n - 1 \in 0 .. m /\ n - 1 # m
          BY <2>1, <3>2
        <4>2. r[n] = r[n - 1] + f[n]
          BY <2>3, <3>2, <4>1 DEF IsSums
        <4> QED
          BY <3>2, <4>1, <4>2
      <3>3. CASE n # m /\ n = 0
        <4>1. 0 \in 0 .. m - 1
          BY <2>1
        <4>2. r[0] = 0
          BY <2>3, <4>1 DEF IsSums
        <4> QED
          BY <3>3, <4>2
      <3> QED
        BY <3>1, <3>2, <3>3
    <2>5. s = [n \in 0 .. m |-> IF n = 0 THEN 0 ELSE s[n - 1] + f[n]]
      BY <2>4
    <2>6. IsSums(s, f, m)
      BY <2>5 DEF IsSums
    <2> QED
      BY <1>3, <2>6
  <1> QED
    BY <1>4, <1>5

(* all_blocks, before it is cut to 32 bits, is a number.                   *)
LEMMA SumIsNat ==
  ASSUME NEW f \in [Extents -> Nat]
  PROVE  Sum(f) \in Nat
  <1> DEFINE s == CHOOSE s : IsSums(s, f, NumExtents)
  <1>1. Sum(f) = s[NumExtents]
    BY DEF Sum, IsSums
  <1>2. IsSums(s, f, NumExtents)
    BY SumsExist
  <1> HIDE DEF s
  <1> DEFINE Bad == {m \in 0 .. NumExtents : s[m] \notin Nat}
  <1> SUFFICES ASSUME Bad # {}
               PROVE  FALSE
    BY <1>1, Sizes
  <1>3. Bad \subseteq Nat
    OBVIOUS
  <1>4. PICK m \in Bad : \A n \in Bad : m <= n
    BY <1>3, SmallestOf
  <1>5. m \in 0 .. NumExtents /\ s[m] \notin Nat
    OBVIOUS
  <1>6. m # 0
    <2>1. 0 \in 0 .. NumExtents
      BY Sizes
    <2>2. s[0] = 0
      BY <1>2, <2>1 DEF IsSums
    <2> QED
      BY <1>5, <2>2
  <1>7. m \in Extents /\ m - 1 \in 0 .. NumExtents /\ m - 1 < m
    BY <1>5, <1>6, Sizes DEF Extents
  <1>8. s[m - 1] \in Nat
    BY <1>4, <1>7
  <1>9. s[m] = s[m - 1] + f[m]
    BY <1>2, <1>5, <1>6 DEF IsSums
  <1> QED
    BY <1>5, <1>7, <1>8, <1>9

-----------------------------------------------------------------------------
LEMMA EntryType ==
  ASSUME NEW e \in Entry
  PROVE  /\ e.file_size \in Nat /\ e.compressed \in BOOLEAN
         /\ e.blocks \in [Extents -> Nat] /\ e.num_blocks \in [Extents -> Nat]
         /\ e.name \in {"plain", "comment"}
  BY DEF Entry

LEMMA EntryFields ==
  ASSUME NEW e \in Entry, NEW old \in Info, NEW f, f = LoadEntry(e, old)
  PROVE  /\ f.number = e.number /\ f.file_size = e.file_size
         /\ f.blocks = e.blocks /\ f.num_blocks = e.num_blocks
         /\ f.compressed = e.compressed
         /\ f.valid => /\ ExtentsValid(e)
                       /\ e.compressed => ~HasBlocks(e)
         /\ f.valid /\ ~e.compressed =>
              /\ f.catalog_num_blocks = AllBlocks(e)
              /\ f.has_extents_overflow <=> Overflows(e)
              /\ ~TooBig(e)
  <1>1. /\ f.number = e.number /\ f.file_size = e.file_size
        /\ f.blocks = e.blocks /\ f.num_blocks = e.num_blocks
        /\ f.compressed = e.compressed
    BY DEF LoadEntry
  <1> DEFINE parsed == e.file_size <= FsSize /\ ExtentsValid(e)
             plain == parsed /\ ~e.compressed
  <1>2. f.valid <=> /\ parsed
                    /\ e.compressed => /\ ~HasBlocks(e)
                                       /\ e.fork_size <= e.fork_num_blocks * BlockSize
                    /\ plain => ~TooBig(e)
    BY DEF LoadEntry
  <1>3. f.has_extents_overflow <=> plain /\ Overflows(e)
    BY DEF LoadEntry
  <1>4. f.catalog_num_blocks = IF plain THEN AllBlocks(e) ELSE old.catalog_num_blocks
    BY DEF LoadEntry
  <1> QED
    BY <1>1, <1>2, <1>3, <1>4

LEMMA ShiftedFields ==
  ASSUME NEW e, NEW old
  PROVE  /\ LoadShifted(e, old).valid = FALSE
         /\ LoadShifted(e, old).catalog_num_blocks = old.catalog_num_blocks
  BY DEF LoadShifted, LoadEntry

(* The remainder is one of 32 bits.                                        *)
LEMMA AllBlocksType ==
  ASSUME NEW e \in Entry
  PROVE  AllBlocks(e) \in 0 .. Modulus - 1
  <1>1. Sum(e.num_blocks) \in Nat
    BY EntryType, SumIsNat
  <1> QED
    BY <1>1, Sizes DEF AllBlocks

LEMMA InfoStays ==
  ASSUME NEW e \in Entry, NEW old \in Info
  PROVE  LoadEntry(e, old) \in Info /\ LoadShifted(e, old) \in Info
  <1>1. AllBlocks(e) \in 0 .. Modulus - 1
    BY AllBlocksType
  <1>2. old.catalog_num_blocks \in 0 .. Modulus - 1 /\ old.num_blocks \in [Extents -> Nat]
    BY DEF Info
  <1>3. /\ e.number \in Nat /\ e.catalog_id \in Nat /\ e.file_size \in Nat
        /\ e.file_time \in Nat /\ e.compressed \in BOOLEAN /\ e.fork_size \in Nat
        /\ e.fork_num_blocks \in Nat
        /\ e.blocks \in [Extents -> Nat] /\ e.num_blocks \in [Extents -> Nat]
    BY DEF Entry
  <1>4. LoadEntry(e, old) \in Info
    BY <1>1, <1>2, <1>3 DEF LoadEntry, Info
  <1>5. LoadShifted(e, old) \in Info
    BY <1>2, <1>3, <1>4 DEF LoadShifted, Info
  <1> QED
    BY <1>4, <1>5
-----------------------------------------------------------------------------
LEMMA InitIInv == Init => IInv
  <1> SUFFICES ASSUME Init
               PROVE  IInv
    OBVIOUS
  <1>1. db \in Seq(Entry)
    BY FileInfoAssumption DEF Init
  <1>2. NoInfo \in Info
    BY Sizes DEF NoInfo, Info
  <1>3. TypeOK
    <2>1. Len(db) \in Nat
      BY <1>1
    <2>2. at \in 0 .. Len(db) /\ loaded \in Seq(Info) /\ Len(loaded) = at
      BY <2>1 DEF Init
    <2> QED
      BY <1>1, <1>2, <2>2 DEF Init, TypeOK
  <1>4. Read
    BY DEF Init, Read
  <1> QED
    BY <1>3, <1>4 DEF IInv

LEMMA SkipNameIInv == IInv /\ SkipName => IInv'
  <1> SUFFICES ASSUME IInv, SkipName
               PROVE  IInv'
    OBVIOUS
  <1>1. /\ at < Len(db) /\ db[at + 1].name = "comment" /\ shifted' = TRUE
        /\ UNCHANGED <<db, at, info, loaded>>
    BY DEF SkipName
  <1>2. TypeOK'
    BY <1>1 DEF IInv, TypeOK
  <1>3. Read'
    BY <1>1 DEF IInv, Read, ReadFrom
  <1> QED
    BY <1>2, <1>3 DEF IInv

LEMMA ReadEntryIInv == IInv /\ ReadEntry => IInv'
  <1> SUFFICES ASSUME IInv, ReadEntry
               PROVE  IInv'
    OBVIOUS
  <1>1. /\ at < Len(db) /\ (shifted \/ db[at + 1].name = "plain")
        /\ info' = IF shifted THEN LoadShifted(db[at + 1], info)
                              ELSE LoadEntry(db[at + 1], info)
        /\ loaded' = Append(loaded, info') /\ at' = at + 1
        /\ shifted' = FALSE /\ UNCHANGED db
    BY DEF ReadEntry
  <1>2. /\ db \in Seq(Entry) /\ at \in 0 .. Len(db) /\ info \in Info
        /\ loaded \in Seq(Info) /\ Len(loaded) = at
    BY DEF IInv, TypeOK
  <1>3. db[at + 1] \in Entry /\ at + 1 \in 0 .. Len(db)
    BY <1>1, <1>2
  <1>4. info' \in Info
    BY <1>1, <1>2, <1>3, InfoStays
  <1>5. /\ loaded' \in Seq(Info) /\ Len(loaded') = at + 1
        /\ DOMAIN loaded = 1 .. at /\ DOMAIN loaded' = 1 .. at + 1
        /\ loaded'[at + 1] = info' /\ \A n \in 1 .. at : loaded'[n] = loaded[n]
    BY <1>1, <1>2, <1>4
  <1>6. TypeOK'
    BY <1>1, <1>2, <1>3, <1>4, <1>5 DEF TypeOK
  <1>7. shifted => db[at + 1].name # "plain"
    BY DEF IInv, Read
  <1>8. ASSUME NEW n \in 1 .. at + 1
        PROVE  ReadFrom(n)'
    <2>1. CASE n = at + 1
      BY <1>1, <1>2, <1>5, <1>7, <2>1 DEF ReadFrom
    <2>2. CASE n # at + 1
      <3>1. n \in 1 .. at
        BY <1>2, <2>2
      <3>2. ReadFrom(n)
        BY <1>5, <3>1 DEF IInv, Read
      <3> QED
        BY <1>1, <1>5, <3>1, <3>2 DEF ReadFrom
    <2> QED
      BY <2>1, <2>2
  <1>9. Read'
    BY <1>1, <1>5, <1>8 DEF Read
  <1> QED
    BY <1>6, <1>9 DEF IInv

LEMMA Invariance == Spec => []IInv
  <1>1. IInv /\ [Next]_vars => IInv'
    <2>1. IInv /\ UNCHANGED vars => IInv'
      BY DEF IInv, TypeOK, Read, ReadFrom, vars
    <2> QED
      BY <2>1, SkipNameIInv, ReadEntryIInv DEF Next
  <1> QED
    BY <1>1, InitIInv, PTL DEF Spec

(* What a valid file_info was made of.                                     *)
LEMMA ValidFrom ==
  ASSUME IInv, NEW n \in DOMAIN loaded
  PROVE  /\ db[n] \in Entry
         /\ db[n].name = "plain" => \E old \in Info : loaded[n] = LoadEntry(db[n], old)
         /\ db[n].name # "plain" => loaded[n].valid = FALSE
  <1>1. n \in 1 .. Len(db) /\ db \in Seq(Entry)
    BY DEF IInv, TypeOK
  <1>2. PICK old \in Info :
          loaded[n] = IF db[n].name = "plain" THEN LoadEntry(db[n], old)
                                              ELSE LoadShifted(db[n], old)
    BY DEF IInv, Read, ReadFrom
  <1>3. db[n].name # "plain" => loaded[n].valid = FALSE
    BY <1>2, ShiftedFields
  <1> QED
    BY <1>1, <1>2, <1>3
-----------------------------------------------------------------------------
(* The tests of num_blocks[0] are enough: extents that pass them are a run *)
(* of live ones followed by dead ones.                                     *)
LEMMA RunOfExtents ==
  ASSUME NEW e \in Entry, ExtentsValid(e)
  PROVE  \E m \in 0 .. NumExtents :
           /\ \A k \in 1 .. m : LiveAt(e, k)
           /\ \A k \in m + 1 .. NumExtents : DeadAt(e, k)
  <1>1. \A k \in Extents : /\ (\E j \in 1 .. k : Ended(e, j)) => DeadAt(e, k)
                           /\ LiveAt(e, k) \/ DeadAt(e, k)
    BY DEF ExtentsValid, LiveAt, DeadAt
  <1> DEFINE S == {k \in Extents : e.blocks[k] = 0}
  <1>2. CASE S = {}
    <2>1. \A k \in 1 .. NumExtents : LiveAt(e, k)
      BY <1>1, <1>2 DEF Extents, DeadAt
    <2> QED
      BY <2>1, Sizes
  <1>3. CASE S # {}
    <2>1. S \subseteq Nat
      BY DEF Extents
    <2>2. PICK f \in S : \A k \in S : f <= k
      BY <1>3, <2>1, SmallestOf
    <2>3. f \in 1 .. NumExtents /\ Ended(e, f)
      BY DEF Extents, Ended
    <2>4. ASSUME NEW k \in 1 .. f - 1
          PROVE  LiveAt(e, k)
      <3>1. k \in Extents /\ k \notin S
        BY <2>2, <2>3, Sizes DEF Extents
      <3> QED
        BY <1>1, <3>1 DEF DeadAt
    <2>5. ASSUME NEW k \in f .. NumExtents
          PROVE  DeadAt(e, k)
      <3>1. k \in Extents /\ f \in 1 .. k
        BY <2>3, Sizes DEF Extents
      <3> QED
        BY <1>1, <2>3, <3>1
    <2>6. f - 1 \in 0 .. NumExtents /\ (f - 1) + 1 = f
      BY <2>3, Sizes
    <2> QED
      BY <2>4, <2>5, <2>6
  <1> QED
    BY <1>2, <1>3

(* The fields of file_info stay in their ranges, and one is made for each  *)
(* entry, whatever names and numbers the database has.                     *)
THEOREM TypeCorrect == Spec => []TypeOK
  <1>1. IInv => TypeOK
    BY DEF IInv
  <1> QED
    BY <1>1, Invariance, PTL

(* The extents of an entry LoadFileInfo calls valid are a run of live ones *)
(* and then none, although its tests look at num_blocks[0] for each.       *)
THEOREM ExtentsAreValid == Spec => []ValidExtents
  <1>1. IInv => ValidExtents
    <2> SUFFICES ASSUME IInv, NEW n \in DOMAIN loaded, loaded[n].valid
                 PROVE  \E m \in 0 .. NumExtents :
                          /\ \A k \in 1 .. m : LiveAt(loaded[n], k)
                          /\ \A k \in m + 1 .. NumExtents : DeadAt(loaded[n], k)
      BY DEF ValidExtents
    <2>1. db[n] \in Entry /\ db[n].name = "plain"
      BY ValidFrom
    <2> DEFINE e == db[n]
    <2>2. PICK old \in Info : loaded[n] = LoadEntry(e, old)
      BY <2>1, ValidFrom
    <2>3. /\ loaded[n].blocks = e.blocks /\ loaded[n].num_blocks = e.num_blocks
          /\ ExtentsValid(e)
      BY <2>1, <2>2, EntryFields
    <2>4. PICK m \in 0 .. NumExtents :
            /\ \A k \in 1 .. m : LiveAt(e, k)
            /\ \A k \in m + 1 .. NumExtents : DeadAt(e, k)
      BY <2>1, <2>3, RunOfExtents
    <2> QED
      BY <2>3, <2>4 DEF LiveAt, DeadAt
  <1> QED
    BY <1>1, Invariance, PTL

(* A name that begins with '#' costs its own entry and no other one.       *)
THEOREM NoOtherHarmed == Spec => []OthersUnharmed
  <1>1. IInv => OthersUnharmed
    <2> SUFFICES ASSUME IInv, NEW n \in DOMAIN loaded
                 PROVE  IF db[n].name = "plain"
                        THEN /\ loaded[n].number = db[n].number
                             /\ loaded[n].num_blocks = db[n].num_blocks
                        ELSE ~loaded[n].valid
      BY DEF OthersUnharmed
    <2>1. db[n] \in Entry
      BY ValidFrom
    <2>2. CASE db[n].name = "plain"
      <3>1. PICK old \in Info : loaded[n] = LoadEntry(db[n], old)
        BY <2>2, ValidFrom
      <3> QED
        BY <2>1, <2>2, <3>1, EntryFields
    <2>3. CASE db[n].name # "plain"
      BY <2>3, ValidFrom
    <2> QED
      BY <2>2, <2>3
  <1> QED
    BY <1>1, Invariance, PTL

(* Where a block has a size (it has none in --list and --csv, where only   *)
(* the printed flag is made of the product): below 4 GB, LoadFileInfo      *)
(* tells exactly which files need overflow extents and which entries are   *)
(* larger than the file system.                                            *)
THEOREM ExactBelowWrap ==
  ASSUME BlockSize > 0
  PROVE  Spec => []RightBelowWrap
  <1>1. IInv => RightBelowWrap
    <2> SUFFICES ASSUME IInv, NEW n \in DOMAIN loaded, BelowWrap(loaded[n]),
                        loaded[n].valid, ~loaded[n].compressed
                 PROVE  /\ loaded[n].catalog_num_blocks = Sum(loaded[n].num_blocks)
                        /\ loaded[n].has_extents_overflow <=>
                             Sum(loaded[n].num_blocks) * BlockSize < loaded[n].file_size
                        /\ Sum(loaded[n].num_blocks) * BlockSize <= FsSize
      BY DEF RightBelowWrap, FlagExact, Fits
    <2>1. db[n] \in Entry /\ db[n].name = "plain"
      BY ValidFrom
    <2> DEFINE e == db[n]
    <2>2. PICK old \in Info : loaded[n] = LoadEntry(e, old)
      BY <2>1, ValidFrom
    <2>3. e.compressed \in BOOLEAN /\ e.file_size \in Nat /\ Sum(e.num_blocks) \in Nat
      BY <2>1, EntryType, SumIsNat
    <2>4. /\ loaded[n].num_blocks = e.num_blocks /\ loaded[n].file_size = e.file_size
          /\ loaded[n].catalog_num_blocks = AllBlocks(e)
          /\ loaded[n].has_extents_overflow <=> Overflows(e)
          /\ ~TooBig(e)
      BY <2>1, <2>2, EntryFields
    <2> DEFINE t == Sum(e.num_blocks)
    <2>5. t \in Nat /\ t * BlockSize \in Nat /\ t * BlockSize < Modulus
      BY <2>3, <2>4, Sizes DEF BelowWrap
    <2>6. t <= t * BlockSize
      BY <2>3, Sizes
    <2>7. t % Modulus = t /\ (t * BlockSize) % Modulus = t * BlockSize
      BY <2>5, <2>6, Sizes
    <2>8. AllBlocks(e) = t /\ AllBytes(e) = t * BlockSize
      BY <2>7 DEF AllBlocks, AllBytes
    <2>9. t * BlockSize <= FsSize
      BY <2>4, <2>5, <2>8, Sizes DEF TooBig
    <2> QED
      BY <2>4, <2>8, <2>9 DEF Overflows
  <1> QED
    BY <1>1, Invariance, PTL
=============================================================================
