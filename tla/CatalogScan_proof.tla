------------------------- MODULE CatalogScan_proof -------------------------
(***************************************************************************)
(* Proofs that hold for every block, every size of it up to the width of   *)
(* start_ofs, and every choice of entries in it.                           *)
(***************************************************************************)
EXTENDS CatalogScan, TLAPS

(* Where the scan goes on behind an entry found at q.                      *)
End(q) == IF block[q].valid THEN Behind(q) ELSE q + Skip

(* What was found lies behind one another, and in front of the scan; the   *)
(* tables hold nothing else, and none of the three is at its bound.        *)
InFront ==
  /\ block \in Blocks
  /\ \A i \in DOMAIN found :
       /\ found[i] < ofs /\ End(found[i]) <= ofs
       /\ Entry(found[i])
  /\ \A i \in DOMAIN folder_table : folder_table[i] < ofs
  /\ \A i \in DOMAIN file_info : file_info[i] < ofs
  /\ Len(found) <= ofs /\ Len(folder_table) <= ofs /\ Len(file_info) <= ofs

(* NoEntryLost for the part of the block that has been scanned.            *)
Scanned ==
  \A o \in DOMAIN block :
    o < ofs =>
      IF \E i \in DOMAIN found : Hidden(o, found[i])
      THEN ~InSeq(o, found)
      ELSE /\ InSeq(o, folder_table) <=> block[o].valid /\ block[o].kind = "folder"
           /\ InSeq(o, file_info) <=> block[o].valid /\ block[o].kind = "file"

IInv == TypeOK /\ InFront /\ FoundInOrder /\ Scanned
-----------------------------------------------------------------------------
LEMMA Sizes ==
  /\ BlockSize \in Nat /\ BlockSize > 0 /\ Modulus \in Nat /\ Modulus > 0
  /\ Header \in Nat /\ Header > 0 /\ Skip \in Nat /\ Skip > 0
  /\ CharSize \in Nat /\ CharSize > 0 /\ LogBound \in Nat
  BY CatalogAssumption

LEMMA BlockType ==
  ASSUME block \in Blocks
  PROVE  /\ DOMAIN block = 0 .. BlockSize - 1
         /\ \A o \in DOMAIN block : /\ block[o].kind \in {"none", "folder", "file", "thread"}
                                    /\ block[o].len \in Nat /\ block[o].valid \in BOOLEAN
  <1>1. DOMAIN block = 0 .. BlockSize - 1 /\ \A o \in DOMAIN block : block[o] \in Starts
    BY CatalogAssumption
  <1>2. \A s \in Starts : /\ s.kind \in {"none", "folder", "file", "thread"}
                          /\ s.len \in Nat /\ s.valid \in BOOLEAN
    BY CatalogAssumption DEF Start, Kinds
  <1> QED
    BY <1>1, <1>2

LEMMA EndBehind ==
  ASSUME block \in Blocks, NEW q \in DOMAIN block
  PROVE  q \in Nat /\ q < BlockSize /\ End(q) \in Nat /\ End(q) > q
  <1>1. q \in 0 .. BlockSize - 1 /\ block[q].len \in Nat
    BY BlockType
  <1>2. CharSize * block[q].len \in Nat
    BY <1>1, Sizes
  <1> QED
    BY <1>1, <1>2, Sizes DEF End, Behind

(* start_ofs is an offset of the block: the one of the entry, if it fits   *)
(* its width.                                                              *)
LEMMA StartInBlock ==
  ASSUME block \in Blocks, ofs \in Nat, ~Done
  PROVE  /\ ofs \in DOMAIN block /\ StartOfs(ofs) \in DOMAIN block
         /\ BlockSize <= Modulus => StartOfs(ofs) = ofs
  <1>1. DOMAIN block = 0 .. BlockSize - 1
    BY BlockType
  <1>2. ofs \in DOMAIN block
    BY <1>1, Sizes DEF Done
  <1>3. StartOfs(ofs) \in 0 .. ofs /\ (BlockSize <= Modulus => StartOfs(ofs) = ofs)
    BY <1>1, <1>2, Sizes DEF StartOfs
  <1> QED
    BY <1>1, <1>2, <1>3, Sizes

LEMMA LineTyped ==
  ASSUME NEW S, NEW s \in Seq(S), NEW o \in S
  PROVE  Line(s, o) \in Seq(S)
  BY DEF Line

LEMMA LineOf ==
  ASSUME NEW S, NEW s \in Seq(S), NEW o \in S, Len(s) < LogBound
  PROVE  /\ Len(s) \in Nat /\ Len(Line(s, o)) = Len(s) + 1 /\ DOMAIN s = 1 .. Len(s)
         /\ DOMAIN Line(s, o) = 1 .. Len(s) + 1
         /\ Line(s, o)[Len(s) + 1] = o
         /\ \A i \in DOMAIN s : Line(s, o)[i] = s[i]
         /\ \A x : InSeq(x, Line(s, o)) <=> InSeq(x, s) \/ x = o
  <1>1. Line(s, o) = Append(s, o)
    BY DEF Line
  <1>2. /\ Len(s) \in Nat /\ Len(Line(s, o)) = Len(s) + 1 /\ DOMAIN s = 1 .. Len(s)
        /\ DOMAIN Line(s, o) = 1 .. Len(s) + 1
        /\ Line(s, o)[Len(s) + 1] = o
        /\ \A i \in DOMAIN s : Line(s, o)[i] = s[i]
    BY <1>1
  <1>3. ASSUME NEW x
        PROVE  InSeq(x, Line(s, o)) <=> InSeq(x, s) \/ x = o
    <2>1. DOMAIN Line(s, o) = DOMAIN s \cup {Len(s) + 1}
      BY <1>2
    <2> QED
      BY <1>2, <2>1 DEF InSeq
  <1> QED
    BY <1>2, <1>3

-----------------------------------------------------------------------------
(* The shape of the state.                                                 *)

TypeInv == block \in Blocks /\ TypeOK

LEMMA NextTurnTyped ==
  ASSUME NEW to \in Nat, NextTurn(to)
  PROVE  ofs' \in Nat /\ old_ofs' \in 0 .. ofs'
  BY DEF NextTurn

LEMMA InitTypeInv == Init => TypeInv
  <1> SUFFICES ASSUME Init
               PROVE  TypeInv
    OBVIOUS
  <1>1. \A S : <<>> \in Seq(S)
    OBVIOUS
  <1> QED
    BY <1>1 DEF Init, TypeInv, TypeOK

LEMMA NextTypeInv == TypeInv /\ [Next]_vars => TypeInv'
  <1> SUFFICES ASSUME TypeInv, [Next]_vars
               PROVE  TypeInv'
    OBVIOUS
  <1>1. /\ block \in Blocks /\ ofs \in Nat /\ old_ofs \in 0 .. ofs
        /\ found \in Seq(DOMAIN block)
        /\ folder_table \in Seq(DOMAIN block) /\ file_info \in Seq(DOMAIN block)
    BY DEF TypeInv, TypeOK
  <1>2. CASE Seek
    <2>1. /\ ofs' = ofs + 1
          /\ UNCHANGED <<block, old_ofs, found, folder_table, file_info>>
      BY <1>2 DEF Seek
    <2>2. ofs' \in Nat /\ old_ofs' \in 0 .. ofs'
      BY <1>1, <2>1
    <2> QED
      BY <1>1, <2>1, <2>2 DEF TypeInv, TypeOK
  <1>3. CASE TakeEntry
    <2> DEFINE s == StartOfs(ofs)
    <2>1. /\ ~Done /\ block[s].valid /\ WriteEntry(s) /\ NextTurn(Behind(s))
          /\ found' = Line(found, ofs) /\ block' = block
      BY <1>3 DEF TakeEntry
    <2>2. ofs \in DOMAIN block /\ s \in DOMAIN block /\ Behind(s) \in Nat
      BY <1>1, <2>1, StartInBlock, EndBehind DEF End
    <2>3. found' \in Seq(DOMAIN block)
      BY <1>1, <2>1, <2>2, LineTyped
    <2>4. folder_table' \in Seq(DOMAIN block) /\ file_info' \in Seq(DOMAIN block)
      BY <1>1, <2>1, <2>2, LineTyped DEF WriteEntry
    <2> QED
      BY <1>1, <2>1, <2>2, <2>3, <2>4, NextTurnTyped DEF TypeInv, TypeOK
  <1>4. CASE SkipEntry
    <2>1. /\ ~Done /\ NextTurn(StartOfs(ofs) + Skip)
          /\ found' = Line(found, ofs) /\ UNCHANGED <<block, folder_table, file_info>>
      BY <1>4 DEF SkipEntry
    <2>2. ofs \in DOMAIN block /\ StartOfs(ofs) + Skip \in Nat
      <3>1. ofs \in DOMAIN block /\ StartOfs(ofs) \in DOMAIN block
        BY <1>1, <2>1, StartInBlock
      <3> QED
        BY <1>1, <3>1, BlockType, Sizes
    <2>3. found' \in Seq(DOMAIN block)
      BY <1>1, <2>1, <2>2, LineTyped
    <2> QED
      BY <1>1, <2>1, <2>2, <2>3, NextTurnTyped DEF TypeInv, TypeOK
  <1>5. CASE UNCHANGED vars
    BY <1>1, <1>5 DEF vars, TypeInv, TypeOK
  <1> QED
    BY <1>2, <1>3, <1>4, <1>5 DEF Next

(* The scan stays within its types, in blocks of any size.                 *)
THEOREM TypeCorrect == Spec => []TypeOK
  <1>1. TypeInv => TypeOK
    BY DEF TypeInv
  <1> QED
    BY InitTypeInv, NextTypeInv, <1>1, PTL DEF Spec

-----------------------------------------------------------------------------
(* What is found, in blocks that start_ofs can address.                    *)

LEMMA InitIInv == Init => IInv
  <1> SUFFICES ASSUME Init
               PROVE  IInv
    OBVIOUS
  <1>1. /\ block \in Blocks /\ ofs = 0
        /\ found = <<>> /\ folder_table = <<>> /\ file_info = <<>>
    BY DEF Init
  <1>2. InFront /\ FoundInOrder
    BY <1>1 DEF InFront, FoundInOrder
  <1>3. Scanned
    BY <1>1, BlockType DEF Scanned
  <1> QED
    BY <1>2, <1>3, InitTypeInv DEF IInv, TypeInv

(* All offsets are numbers, and no file is at its bound.                   *)
LEMMA Offsets ==
  ASSUME IInv, ~Done, BlockSize <= LogBound
  PROVE  /\ block \in Blocks /\ ofs \in Nat /\ ofs \in DOMAIN block /\ ofs < BlockSize
         /\ \A i \in DOMAIN found : found[i] \in DOMAIN block /\ found[i] < ofs
                                      /\ End(found[i]) \in Nat /\ End(found[i]) <= ofs
         /\ \A i \in DOMAIN folder_table : folder_table[i] \in Nat /\ folder_table[i] < ofs
         /\ \A i \in DOMAIN file_info : file_info[i] \in Nat /\ file_info[i] < ofs
         /\ Len(found) < LogBound /\ Len(folder_table) < LogBound /\ Len(file_info) < LogBound
  <1>1. /\ block \in Blocks /\ ofs \in Nat
        /\ found \in Seq(DOMAIN block)
        /\ folder_table \in Seq(DOMAIN block) /\ file_info \in Seq(DOMAIN block)
    BY DEF IInv, TypeOK, InFront
  <1>2. ofs \in DOMAIN block /\ ofs < BlockSize /\ DOMAIN block \subseteq Nat
    BY <1>1, BlockType, EndBehind, StartInBlock
  <1>3. /\ \A i \in DOMAIN found : found[i] \in DOMAIN block
        /\ \A i \in DOMAIN folder_table : folder_table[i] \in Nat
        /\ \A i \in DOMAIN file_info : file_info[i] \in Nat
        /\ Len(found) \in Nat /\ Len(folder_table) \in Nat /\ Len(file_info) \in Nat
    BY <1>1, <1>2
  <1>4. \A i \in DOMAIN found : found[i] < ofs /\ End(found[i]) <= ofs /\ End(found[i]) \in Nat
    BY <1>1, <1>3, EndBehind DEF IInv, InFront
  <1>5. /\ \A i \in DOMAIN folder_table : folder_table[i] < ofs
        /\ \A i \in DOMAIN file_info : file_info[i] < ofs
    BY DEF IInv, InFront
  <1>6. Len(found) < LogBound /\ Len(folder_table) < LogBound /\ Len(file_info) < LogBound
    BY <1>1, <1>2, <1>3, Sizes DEF IInv, InFront
  <1> QED
    BY <1>1, <1>2, <1>3, <1>4, <1>5, <1>6

(* Where the scan is, nothing has been taken, and nothing covers it.       *)
LEMMA NothingYet ==
  ASSUME IInv, ~Done, BlockSize <= LogBound
  PROVE  /\ ~InSeq(ofs, found) /\ ~InSeq(ofs, folder_table) /\ ~InSeq(ofs, file_info)
         /\ \A i \in DOMAIN found : ~Hidden(ofs, found[i])
  <1>1. ~InSeq(ofs, found) /\ ~InSeq(ofs, folder_table) /\ ~InSeq(ofs, file_info)
    BY Offsets, EndBehind DEF InSeq
  <1>2. ASSUME NEW i \in DOMAIN found
        PROVE  ~Hidden(ofs, found[i])
    <2>1. End(found[i]) \in Nat /\ ofs \in Nat /\ End(found[i]) <= ofs
      BY Offsets
    <2> QED
      BY <2>1 DEF Hidden, End
  <1> QED
    BY <1>1, <1>2

LEMMA SeekKeeps ==
  ASSUME IInv, Seek, BlockSize <= LogBound
  PROVE  InFront' /\ FoundInOrder' /\ Scanned'
  <1>1. /\ ~Done /\ ~Entry(ofs) /\ ofs' = ofs + 1
        /\ UNCHANGED <<block, old_ofs, found, folder_table, file_info>>
    BY DEF Seek
  <1>2. ofs \in DOMAIN block /\ ofs \in Nat /\ DOMAIN block \subseteq Nat
    BY <1>1, Offsets, EndBehind
  <1>3. InFront'
    <2>1. /\ Len(found) \in Nat /\ Len(folder_table) \in Nat /\ Len(file_info) \in Nat
      BY DEF IInv, TypeOK
    <2>2. Len(found) <= ofs /\ Len(folder_table) <= ofs /\ Len(file_info) <= ofs
      BY DEF IInv, InFront
    <2>3. Len(found) <= ofs' /\ Len(folder_table) <= ofs' /\ Len(file_info) <= ofs'
      BY <1>1, <1>2, <2>1, <2>2
    <2>4. \A i \in DOMAIN found : found[i] < ofs' /\ End(found[i])' <= ofs' /\ Entry(found[i])'
      <3> SUFFICES ASSUME NEW i \in DOMAIN found
                   PROVE  found[i] < ofs' /\ End(found[i])' <= ofs' /\ Entry(found[i])'
        OBVIOUS
      <3>1. found[i] \in Nat /\ found[i] < ofs /\ End(found[i]) \in Nat /\ End(found[i]) <= ofs
        BY <1>1, <1>2, Offsets
      <3>2. Entry(found[i])
        BY DEF IInv, InFront
      <3>3. End(found[i])' = End(found[i]) /\ Entry(found[i])'
        BY <1>1, <3>2 DEF End, Behind, Entry
      <3> QED
        BY <1>1, <1>2, <3>1, <3>3
    <2>5. /\ \A i \in DOMAIN folder_table : folder_table[i] < ofs'
          /\ \A i \in DOMAIN file_info : file_info[i] < ofs'
      BY <1>1, <1>2, Offsets
    <2> QED
      BY <1>1, <2>3, <2>4, <2>5 DEF InFront, IInv
  <1>4. FoundInOrder'
    BY <1>1 DEF IInv, FoundInOrder
  <1>5. Scanned'
    <2> SUFFICES ASSUME NEW o \in DOMAIN block, o < ofs'
                 PROVE  IF \E i \in DOMAIN found : Hidden(o, found[i])
                        THEN ~InSeq(o, found)
                        ELSE /\ InSeq(o, folder_table) <=> block[o].valid /\ block[o].kind = "folder"
                             /\ InSeq(o, file_info) <=> block[o].valid /\ block[o].kind = "file"
      BY <1>1 DEF Scanned, Hidden, Behind
    <2>1. CASE o < ofs
      BY <2>1 DEF IInv, Scanned
    <2>2. CASE o = ofs
      <3>1. block[o].kind = "none"
        BY <1>1, <2>2 DEF Entry
      <3> QED
        BY <1>1, <2>2, <3>1, NothingYet
    <2> QED
      BY <1>1, <1>2, <2>1, <2>2
  <1> QED
    BY <1>3, <1>4, <1>5

(* A turn of the outer loop: one more line of the log, one more of a table *)
(* when the entry is a valid folder or file, and on behind it.             *)
LEMMA TurnKeeps ==
  ASSUME IInv, ~Done, BlockSize <= LogBound, Entry(ofs),
         block' = block, ofs' = End(ofs), found' = Line(found, ofs),
         folder_table' = IF block[ofs].valid /\ block[ofs].kind = "folder"
                         THEN Line(folder_table, ofs) ELSE folder_table,
         file_info' = IF block[ofs].valid /\ block[ofs].kind = "file"
                      THEN Line(file_info, ofs) ELSE file_info
  PROVE  InFront' /\ FoundInOrder' /\ Scanned'
  <1>1. /\ block \in Blocks /\ ofs \in DOMAIN block /\ ofs \in Nat
        /\ End(ofs) \in Nat /\ End(ofs) > ofs
        /\ DOMAIN block \subseteq Nat
    BY Offsets, EndBehind
  <1>2. /\ found \in Seq(DOMAIN block)
        /\ folder_table \in Seq(DOMAIN block) /\ file_info \in Seq(DOMAIN block)
    BY DEF IInv, TypeOK
  <1>3. Len(found) < LogBound /\ Len(folder_table) < LogBound /\ Len(file_info) < LogBound
    BY Offsets
  <1>4. /\ Len(found) \in Nat /\ DOMAIN found = 1 .. Len(found)
        /\ DOMAIN found' = 1 .. Len(found) + 1 /\ Len(found') = Len(found) + 1
        /\ found'[Len(found) + 1] = ofs
        /\ \A i \in DOMAIN found : found'[i] = found[i]
        /\ \A x : InSeq(x, found') <=> InSeq(x, found) \/ x = ofs
    BY <1>1, <1>2, <1>3, LineOf
  <1>5. /\ Len(folder_table) \in Nat /\ Len(folder_table') <= Len(folder_table) + 1
        /\ \A i \in DOMAIN folder_table' : folder_table'[i] = ofs
                \/ (i \in DOMAIN folder_table /\ folder_table'[i] = folder_table[i])
        /\ \A x : InSeq(x, folder_table') <=>
             InSeq(x, folder_table) \/ (x = ofs /\ block[ofs].valid /\ block[ofs].kind = "folder")
    <2>1. CASE block[ofs].valid /\ block[ofs].kind = "folder"
      <3> DEFINE t == Line(folder_table, ofs)
      <3>1. /\ Len(folder_table) \in Nat /\ Len(t) = Len(folder_table) + 1
            /\ DOMAIN folder_table = 1 .. Len(folder_table)
            /\ DOMAIN t = 1 .. Len(folder_table) + 1
            /\ t[Len(folder_table) + 1] = ofs
            /\ \A i \in DOMAIN folder_table : t[i] = folder_table[i]
            /\ \A x : InSeq(x, t) <=> InSeq(x, folder_table) \/ x = ofs
        BY <1>1, <1>2, <1>3, LineOf
      <3>2. folder_table' = t
        BY <2>1
      <3> HIDE DEF t
      <3> QED
        BY <2>1, <3>1, <3>2
    <2>2. CASE ~(block[ofs].valid /\ block[ofs].kind = "folder")
      <3>1. folder_table' = folder_table /\ Len(folder_table) \in Nat
        BY <1>2, <2>2
      <3> QED
        BY <2>2, <3>1
    <2> QED
      BY <2>1, <2>2
  <1>6. /\ Len(file_info) \in Nat /\ Len(file_info') <= Len(file_info) + 1
        /\ \A i \in DOMAIN file_info' : file_info'[i] = ofs
                \/ (i \in DOMAIN file_info /\ file_info'[i] = file_info[i])
        /\ \A x : InSeq(x, file_info') <=>
             InSeq(x, file_info) \/ (x = ofs /\ block[ofs].valid /\ block[ofs].kind = "file")
    <2>1. CASE block[ofs].valid /\ block[ofs].kind = "file"
      <3> DEFINE t == Line(file_info, ofs)
      <3>1. /\ Len(file_info) \in Nat /\ Len(t) = Len(file_info) + 1
            /\ DOMAIN file_info = 1 .. Len(file_info)
            /\ DOMAIN t = 1 .. Len(file_info) + 1
            /\ t[Len(file_info) + 1] = ofs
            /\ \A i \in DOMAIN file_info : t[i] = file_info[i]
            /\ \A x : InSeq(x, t) <=> InSeq(x, file_info) \/ x = ofs
        BY <1>1, <1>2, <1>3, LineOf
      <3>2. file_info' = t
        BY <2>1
      <3> HIDE DEF t
      <3> QED
        BY <2>1, <3>1, <3>2
    <2>2. CASE ~(block[ofs].valid /\ block[ofs].kind = "file")
      <3>1. file_info' = file_info /\ Len(file_info) \in Nat
        BY <1>2, <2>2
      <3> QED
        BY <2>2, <3>1
    <2> QED
      BY <2>1, <2>2
  <1>7. \A i \in DOMAIN found : found[i] \in Nat /\ found[i] < ofs
                                  /\ End(found[i]) \in Nat /\ End(found[i]) <= ofs
    BY <1>1, Offsets
  <1>8. InFront'
    <2>1. /\ Len(found') <= ofs' /\ Len(folder_table') <= ofs' /\ Len(file_info') <= ofs'
      <3>1. Len(found) <= ofs /\ Len(folder_table) <= ofs /\ Len(file_info) <= ofs
        BY DEF IInv, InFront
      <3>2. Len(folder_table') \in Nat /\ Len(file_info') \in Nat
        BY <1>1, <1>2, LineTyped
      <3> QED
        BY <1>1, <1>4, <1>5, <1>6, <3>1, <3>2
    <2>2. \A q : End(q)' = End(q) /\ Entry(q)' = Entry(q)
      BY DEF End, Behind, Entry
    <2>3. \A i \in DOMAIN found' : /\ found'[i] < ofs' /\ End(found'[i]) <= ofs'
                                   /\ Entry(found'[i])
      <3> SUFFICES ASSUME NEW i \in DOMAIN found'
                   PROVE  found'[i] < ofs' /\ End(found'[i]) <= ofs' /\ Entry(found'[i])
        OBVIOUS
      <3>1. CASE i \in DOMAIN found
        <4>1. Entry(found[i])
          BY <3>1 DEF IInv, InFront
        <4> QED
          BY <1>1, <1>4, <1>7, <3>1, <4>1
      <3>2. CASE i = Len(found) + 1
        BY <1>1, <1>4, <3>2
      <3> QED
        BY <1>4, <3>1, <3>2
    <2>4. /\ \A i \in DOMAIN folder_table' : folder_table'[i] < ofs'
          /\ \A i \in DOMAIN file_info' : file_info'[i] < ofs'
      <3>1. /\ \A i \in DOMAIN folder_table : folder_table[i] \in Nat /\ folder_table[i] < ofs
            /\ \A i \in DOMAIN file_info : file_info[i] \in Nat /\ file_info[i] < ofs
        BY Offsets
      <3> QED
        BY <1>1, <1>5, <1>6, <3>1
    <2> QED
      BY <1>1, <2>1, <2>2, <2>3, <2>4 DEF InFront
  <1>9. FoundInOrder'
    <2> SUFFICES ASSUME NEW i \in DOMAIN found', NEW j \in DOMAIN found', i < j
                 PROVE  found'[i] < found'[j]
      BY DEF FoundInOrder
    <2>1. i \in DOMAIN found
      BY <1>4
    <2>2. CASE j \in DOMAIN found
      BY <1>4, <2>1, <2>2 DEF IInv, FoundInOrder
    <2>3. CASE j = Len(found) + 1
      BY <1>4, <1>7, <2>1, <2>3
    <2> QED
      BY <1>4, <2>2, <2>3
  <1>10. Scanned'
    <2> SUFFICES ASSUME NEW o \in DOMAIN block, o < ofs'
                 PROVE  IF \E i \in DOMAIN found' : Hidden(o, found'[i])
                        THEN ~InSeq(o, found')
                        ELSE /\ InSeq(o, folder_table') <=> block[o].valid /\ block[o].kind = "folder"
                             /\ InSeq(o, file_info') <=> block[o].valid /\ block[o].kind = "file"
      BY DEF Scanned, Hidden, Behind
    <2>1. \A q : Hidden(o, q) <=> q < o /\ o < End(q)
      BY DEF Hidden, End
    <2>2. o \in Nat
      BY <1>1
    <2>3. CASE o < ofs
      <3>1. ~Hidden(o, ofs) /\ o # ofs
        BY <1>1, <2>1, <2>2, <2>3
      <3>2. (\E i \in DOMAIN found' : Hidden(o, found'[i]))
              <=> \E i \in DOMAIN found : Hidden(o, found[i])
        BY <1>4, <3>1
      <3>3. IF \E i \in DOMAIN found : Hidden(o, found[i])
            THEN ~InSeq(o, found)
            ELSE /\ InSeq(o, folder_table) <=> block[o].valid /\ block[o].kind = "folder"
                 /\ InSeq(o, file_info) <=> block[o].valid /\ block[o].kind = "file"
        BY <2>3 DEF IInv, Scanned
      <3> QED
        BY <1>4, <1>5, <1>6, <3>1, <3>2, <3>3
    <2>4. CASE o = ofs
      <3>1. \A i \in DOMAIN found' : ~Hidden(o, found'[i])
        <4>1. ~Hidden(ofs, ofs)
          BY <1>1, <2>1, <2>4
        <4> QED
          BY <1>4, <2>4, <4>1, NothingYet
      <3>2. ~InSeq(ofs, folder_table) /\ ~InSeq(ofs, file_info)
        BY NothingYet
      <3> QED
        BY <1>5, <1>6, <2>4, <3>1, <3>2
    <2>5. CASE o > ofs
      <3>1. Hidden(o, ofs)
        BY <2>1, <2>5
      <3>2. \E i \in DOMAIN found' : Hidden(o, found'[i])
        BY <1>4, <3>1
      <3>3. ~InSeq(o, found')
        <4>1. \A i \in DOMAIN found' : found'[i] \in Nat /\ found'[i] <= ofs
          BY <1>1, <1>4, <1>7
        <4> QED
          BY <1>1, <2>2, <2>5, <4>1 DEF InSeq
      <3> QED
        BY <3>2, <3>3
    <2> QED
      BY <1>1, <2>2, <2>3, <2>4, <2>5
  <1> QED
    BY <1>8, <1>9, <1>10

(* The check for an endless loop never strikes: an entry ends behind its   *)
(* start.                                                                  *)
LEMMA MovesOn ==
  ASSUME IInv, ~Done, BlockSize <= LogBound, NextTurn(End(ofs))
  PROVE  ofs' = End(ofs)
  <1>1. ofs \in Nat /\ End(ofs) \in Nat /\ End(ofs) > ofs
    BY Offsets, EndBehind
  <1>2. old_ofs \in 0 .. ofs
    BY DEF IInv, TypeOK
  <1> QED
    BY <1>1, <1>2 DEF NextTurn

LEMMA NextIInv ==
  ASSUME BlockSize <= Modulus, BlockSize <= LogBound
  PROVE  IInv /\ [Next]_vars => IInv'
  <1> SUFFICES ASSUME IInv, [Next]_vars
               PROVE  IInv'
    OBVIOUS
  <1>1. TypeOK'
    BY NextTypeInv DEF IInv, InFront, TypeInv
  <1>2. CASE Seek
    BY <1>1, <1>2, SeekKeeps DEF IInv
  <1>3. ASSUME ~Done
        PROVE  StartOfs(ofs) = ofs
    BY <1>3, StartInBlock DEF IInv, InFront, TypeOK
  <1>4. CASE TakeEntry
    <2>1. /\ ~Done /\ Entry(ofs) /\ block[ofs].valid /\ WriteEntry(ofs)
          /\ NextTurn(Behind(ofs)) /\ found' = Line(found, ofs) /\ block' = block
      BY <1>3, <1>4 DEF TakeEntry
    <2>2. ofs' = End(ofs)
      <3>1. End(ofs) = Behind(ofs)
        BY <2>1 DEF End
      <3> QED
        BY <2>1, <3>1, MovesOn
    <2>3. InFront' /\ FoundInOrder' /\ Scanned'
      BY <2>1, <2>2, TurnKeeps DEF WriteEntry
    <2> QED
      BY <1>1, <2>3 DEF IInv
  <1>5. CASE SkipEntry
    <2>1. /\ ~Done /\ Entry(ofs) /\ ~block[ofs].valid
          /\ NextTurn(ofs + Skip) /\ found' = Line(found, ofs)
          /\ UNCHANGED <<block, folder_table, file_info>>
      BY <1>3, <1>5 DEF SkipEntry
    <2>2. ofs' = End(ofs)
      <3>1. End(ofs) = ofs + Skip
        BY <2>1 DEF End
      <3> QED
        BY <2>1, <3>1, MovesOn
    <2>3. InFront' /\ FoundInOrder' /\ Scanned'
      BY <2>1, <2>2, TurnKeeps
    <2> QED
      BY <1>1, <2>3 DEF IInv
  <1>6. CASE UNCHANGED vars
    <2>1. UNCHANGED <<block, ofs, old_ofs, found, folder_table, file_info>>
      BY <1>6 DEF vars
    <2>2. InFront' /\ FoundInOrder' /\ Scanned'
      BY <2>1 DEF IInv, InFront, FoundInOrder, Scanned, Hidden, End, Behind, Entry
    <2> QED
      BY <1>1, <2>2 DEF IInv
  <1> QED
    BY <1>2, <1>4, <1>5, <1>6 DEF Next

(* ScanBuffer finds no entry twice, each behind the one before.            *)
THEOREM InOrder ==
  ASSUME BlockSize <= Modulus, BlockSize <= LogBound
  PROVE  Spec => []FoundInOrder
  <1>1. IInv => FoundInOrder
    BY DEF IInv
  <1> QED
    BY InitIInv, NextIInv, <1>1, PTL DEF Spec

(* Every valid folder and file that starts in no other entry reaches its   *)
(* table, and nothing else does, when ScanBuffer is through.               *)
THEOREM NoneLost ==
  ASSUME BlockSize <= Modulus, BlockSize <= LogBound
  PROVE  Spec => []NoEntryLost
  <1>1. IInv => NoEntryLost
    <2> SUFFICES ASSUME IInv, Done
                 PROVE  \A o \in DOMAIN block : o < ofs
      BY DEF IInv, Scanned, NoEntryLost
    <2>1. block \in Blocks /\ ofs \in Nat
      BY DEF IInv, InFront, TypeOK
    <2> QED
      BY <2>1, EndBehind, Sizes DEF Done
  <1> QED
    BY InitIInv, NextIInv, <1>1, PTL DEF Spec
=============================================================================
