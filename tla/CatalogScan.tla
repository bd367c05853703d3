---------------------------- MODULE CatalogScan ----------------------------
(***************************************************************************)
(* ScanBuffer (src/hfsprescue.cpp) looks for catalog entries in one block. *)
(* An entry is a key, whose length must fit the length of the name in it,  *)
(* and behind the name a record type from 1 to 4.  The scan takes an entry *)
(* wherever it sees one, goes on behind its name, and steps over the start *)
(* of one with an invalid name.                                            *)
(*                                                                         *)
(* A block is a function from offsets to what an entry starting there      *)
(* would be.  Only offsets of the block are looked at, the rest of an      *)
(* entry may lie in the next one, which the buffer holds as well.          *)
(***************************************************************************)
EXTENDS Integers, Sequences

CONSTANTS
  BlockSize,   \* block_size
  Modulus,     \* 2^16: start_ofs is an uint16_t
  Header,      \* START_OFS2, bytes of the key besides the name
  Skip,        \* bytes to step over behind an invalid name
  CharSize,    \* bytes of a character
  Starts,      \* the starts of entries to choose from
  Blocks,      \* the blocks to choose from
  LogBound     \* entries the model keeps of the log and of a table

(* A start of an entry: "none" when the key or the type does not fit; the  *)
(* length of the name and ConvertFilename's verdict are read even then.    *)
Kinds == {"none", "folder", "file", "thread"}

Start == [kind : Kinds, len : Nat, valid : BOOLEAN]

ASSUME CatalogAssumption ==
  /\ BlockSize \in Nat \ {0}
  /\ Modulus \in Nat \ {0}
  /\ Header \in Nat \ {0}
  /\ Skip \in Nat \ {0}
  /\ CharSize \in Nat \ {0}
  /\ LogBound \in Nat
  /\ Starts \subseteq Start
  /\ \A b \in Blocks : DOMAIN b = 0 .. BlockSize - 1 /\ \A o \in DOMAIN b : b[o] \in Starts

VARIABLES
  block,         \* the block
  ofs, old_ofs,
  found,         \* where the log says an entry was found
  folder_table,  \* entries written to foldertable.db
  file_info      \* entries written to filesfound.db

vars == <<block, ofs, old_ofs, found, folder_table, file_info>>

Done == ofs >= BlockSize

Init ==
  /\ block \in Blocks
  /\ ofs = 0 /\ old_ofs = 0
  /\ found = <<>> /\ folder_table = <<>> /\ file_info = <<>>

Entry(o) == block[o].kind # "none"

(* Slip of StartOfs: an offset with half the width.                        *)
StartOfs_Half(o) == o % (Modulus \div 2)

(* start_ofs, from where the entry is read again.                          *)
StartOfs(o) == o % Modulus

(* start_ofs2: behind the name.                                            *)
Behind(s) == s + Header + CharSize * block[s].len

(* One more line of a file, up to the bound.  A scan that moves on never   *)
(* writes more lines than the block has bytes.                             *)
Line(s, o) == IF Len(s) < LogBound THEN Append(s, o) ELSE s

(* The inner loop, one byte on.                                            *)
Seek ==
  /\ ~Done
  /\ ~Entry(ofs)
  /\ ofs' = ofs + 1
  /\ UNCHANGED <<block, old_ofs, found, folder_table, file_info>>

(* Slip of NextTurn: old_ofs is taken behind the first byte of the turn.   *)
NextTurn_OldLate(to) ==
  /\ ofs' = IF to = old_ofs THEN to + 1 ELSE to
  /\ old_ofs' = ofs' + 1

(* The end of the outer loop, with its way out of a turn that did not move.*)
NextTurn(to) ==
  /\ ofs' = IF to = old_ofs THEN to + 1 ELSE to
  /\ old_ofs' = ofs'

(* Slip of WriteEntry: a record is taken for a folder unless it is a file. *)
WriteEntry_ThreadToo(s) ==
  /\ folder_table' = IF block[s].kind # "file" THEN Line(folder_table, s)
                                               ELSE folder_table
  /\ file_info' = IF block[s].kind = "file" THEN Line(file_info, s) ELSE file_info

(* A folder goes to the folder table, a file to the file table, a thread   *)
(* nowhere.  (A type the truncated start_ofs leads to is logged by a name  *)
(* from behind the list of types; that the program may stop there is left  *)
(* out.)                                                                   *)
WriteEntry(s) ==
  /\ folder_table' = IF block[s].kind = "folder" THEN Line(folder_table, s)
                                                 ELSE folder_table
  /\ file_info' = IF block[s].kind = "file" THEN Line(file_info, s) ELSE file_info

TakeEntry ==
  /\ ~Done
  /\ Entry(ofs)
  /\ LET s == StartOfs(ofs)
     IN  /\ block[s].valid
         /\ WriteEntry(s)
         /\ NextTurn(Behind(s))
  /\ found' = Line(found, ofs)
  /\ UNCHANGED block

(* Slip of SkipEntry: the turn ends where it began.                        *)
SkipEntry_NoSkip ==
  /\ ~Done
  /\ Entry(ofs)
  /\ ~block[StartOfs(ofs)].valid
  /\ ofs' = StartOfs(ofs)
  /\ old_ofs' = ofs'
  /\ found' = Line(found, ofs)
  /\ UNCHANGED <<block, folder_table, file_info>>

SkipEntry ==
  /\ ~Done
  /\ Entry(ofs)
  /\ ~block[StartOfs(ofs)].valid
  /\ NextTurn(StartOfs(ofs) + Skip)
  /\ found' = Line(found, ofs)
  /\ UNCHANGED <<block, folder_table, file_info>>

Next == Seek \/ TakeEntry \/ SkipEntry

Spec == Init /\ [][Next]_vars

FairSpec == Spec /\ WF_vars(Next)

-----------------------------------------------------------------------------
(* Properties.                                                             *)

(* Shape of the state of ScanBuffer.                                       *)
TypeOK ==
  /\ ofs \in Nat /\ old_ofs \in 0 .. ofs
  /\ found \in Seq(DOMAIN block)
  /\ folder_table \in Seq(DOMAIN block) /\ file_info \in Seq(DOMAIN block)

InSeq(x, s) == \E i \in DOMAIN s : s[i] = x

Written(o) == InSeq(o, folder_table) \/ InSeq(o, file_info)

(* o was stepped over with the entry found at q.                           *)
Hidden(o, q) ==
  /\ q < o
  /\ o < IF block[q].valid THEN Behind(q) ELSE q + Skip

(* Every entry of a folder or a file with a valid name is in its table     *)
(* when ScanBuffer returns, unless it starts inside one found before, and  *)
(* what is in the table is one: damaged data around an entry hides it only *)
(* by looking like an entry itself.                                        *)
NoEntryLost ==
  Done =>
    \A o \in DOMAIN block :
      IF \E i \in DOMAIN found : Hidden(o, found[i])
      THEN ~InSeq(o, found)
      ELSE /\ InSeq(o, folder_table) <=> block[o].valid /\ block[o].kind = "folder"
           /\ InSeq(o, file_info) <=> block[o].valid /\ block[o].kind = "file"

(* No entry is written twice by one ScanBuffer, as its number in the file  *)
(* table would name two of them: each is found behind the one before.      *)
FoundInOrder ==
  \A i, j \in DOMAIN found : i < j => found[i] < found[j]

(* ScanBuffer returns: the check for an endless loop is enough.            *)
Termination == <>Done
=============================================================================
