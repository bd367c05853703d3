------------------------------ MODULE FileInfo ------------------------------
(***************************************************************************)
(* Reading fileinfo.db entry by entry: LoadFileInfo of src/hfsprescue.cpp, *)
(* called in the loops of RestoreFiles and List.                           *)
(*                                                                         *)
(* An entry of the database is written by step 1 and renumbered by step 2. *)
(* LoadFileInfo takes any line that begins with '#' for a comment, also    *)
(* the one that holds a file name.  The next call then starts one line     *)
(* late and takes every line of the entry for the one before it; it ends   *)
(* with the entry, so that the entry after it is read as it should be.     *)
(*                                                                         *)
(* The struct file_info is reused: what a call does not assign keeps the   *)
(* value of the entry read before.                                         *)
(***************************************************************************)
EXTENDS Integers, Sequences

CONSTANTS
  NumExtents,   \* extents of an entry (8)
  Modulus,      \* 2^32: all_blocks * block_size is an unsigned int
  BlockSize,    \* block_size, 0 in --list and --csv
  FsSize,       \* fs_size, 0 in --list and --csv
  Databases     \* the databases that may be read, sequences of entries

Extents == 1 .. NumExtents

Entry == [name : {"plain", "comment"},
          number : Nat, catalog_id : Nat, file_size : Nat, file_time : Nat,
          compressed : BOOLEAN, fork_size : Nat, fork_num_blocks : Nat,
          blocks : [Extents -> Nat], num_blocks : [Extents -> Nat]]

ASSUME FileInfoAssumption ==
  /\ NumExtents \in Nat \ {0}
  /\ Modulus \in Nat \ {0}
  /\ BlockSize \in Nat
  /\ FsSize \in Nat
  /\ Databases \subseteq Seq(Entry)

-----------------------------------------------------------------------------
Sum(f) ==
  LET s[n \in 0 .. NumExtents] == IF n = 0 THEN 0 ELSE s[n - 1] + f[n]
  IN  s[NumExtents]

(* check_valid_blocks after extent j (the test reads num_blocks[0] for     *)
(* every extent).                                                          *)
Ended(e, j) == e.blocks[j] = 0 \/ e.num_blocks[1] = 0

(* Slip of ExtentsValid: the zero of one field alone is let through.       *)
ExtentsValid_NoPairs(e) ==
  \A k \in Extents :
    (\E j \in 1 .. k : Ended(e, j)) => e.blocks[k] = 0 /\ e.num_blocks[k] = 0

ExtentsValid(e) ==
  \A k \in Extents :
    /\ (\E j \in 1 .. k : Ended(e, j)) => e.blocks[k] = 0 /\ e.num_blocks[k] = 0
    /\ (e.blocks[k] = 0) <=> (e.num_blocks[k] = 0)

HasBlocks(e) == \E k \in Extents : e.blocks[k] # 0 \/ e.num_blocks[1] # 0

(* Slip of AllBlocks: a sum that does not wrap where the code's does.      *)
AllBlocks_Wide(e) == Sum(e.num_blocks)

(* all_blocks, and all_blocks * block_size as the code computes it.        *)
AllBlocks(e) == Sum(e.num_blocks) % Modulus
AllBytes(e)  == (AllBlocks(e) * BlockSize) % Modulus

(* Slip of Overflows: a file that fills its blocks is taken for short.     *)
Overflows_AtEnd(e) == AllBytes(e) <= e.file_size

(* The extents of the entry do not hold the whole file.                    *)
Overflows(e) == AllBytes(e) < e.file_size

(* Slip of TooBig: blocks are compared with bytes.                         *)
TooBig_Blocks(e) == AllBlocks(e) > FsSize

(* The blocks of the entry do not fit the file system.                     *)
TooBig(e) == AllBytes(e) > FsSize

(* The file_info of the entry e, read after old.                           *)
LoadEntry(e, old) ==
  LET parsed == e.file_size <= FsSize /\ ExtentsValid(e)
      plain == parsed /\ ~e.compressed
  IN  [name |-> "plain",
       number |-> e.number, catalog_id |-> e.catalog_id,
       file_size |-> e.file_size, file_time |-> e.file_time,
       compressed |-> e.compressed, fork_size |-> e.fork_size,
       fork_num_blocks |-> e.fork_num_blocks,
       blocks |-> e.blocks, num_blocks |-> e.num_blocks,
       valid |-> /\ parsed
                 /\ e.compressed => /\ ~HasBlocks(e)
                                    /\ e.fork_size <= e.fork_num_blocks * BlockSize
                 /\ plain => ~TooBig(e),
       has_extents_overflow |-> plain /\ Overflows(e),
       catalog_num_blocks |-> IF plain THEN AllBlocks(e) ELSE old.catalog_num_blocks]

(* The file_info of an entry whose name line was skipped.  Its number is   *)
(* atoi of the catalog id line, which is 0; its blocks are the lengths of  *)
(* the extents, and the lines taken for num_blocks have no ')', so that    *)
(* num_blocks keeps what it held.  The ids and sizes are read from other   *)
(* lines too; nothing is made of them, since the entry is not valid.       *)
LoadShifted(e, old) ==
  [LoadEntry(e, old) EXCEPT
     !.name = "shifted", !.number = 0, !.compressed = FALSE, !.valid = FALSE,
     !.blocks = e.num_blocks, !.num_blocks = old.num_blocks,
     !.has_extents_overflow = FALSE,
     !.catalog_num_blocks = old.catalog_num_blocks]

(* What the struct holds before the first call is not initialised; it is   *)
(* never read.                                                             *)
NoInfo ==
  [name |-> "none", number |-> 0, catalog_id |-> 0, file_size |-> 0,
   file_time |-> 0, compressed |-> FALSE, fork_size |-> 0, fork_num_blocks |-> 0,
   blocks |-> [j \in Extents |-> 0], num_blocks |-> [j \in Extents |-> 0],
   valid |-> FALSE, has_extents_overflow |-> FALSE, catalog_num_blocks |-> 0]

(* RestoreFiles goes on to restore the file.                               *)
Usable(f) == f.valid /\ f.blocks[1] # 0

-----------------------------------------------------------------------------
VARIABLES
  db,        \* the database, never changed
  at,        \* entries read
  shifted,   \* the name line of the next entry has been taken for a comment
  info,      \* the struct file_info
  loaded     \* what the loop saw: file_info after each call that returned TRUE

vars == <<db, at, shifted, info, loaded>>

Init ==
  /\ db \in Databases
  /\ at = 0
  /\ shifted = FALSE
  /\ info = NoInfo
  /\ loaded = <<>>

(* LoadFileInfo returns FALSE: the line begins with '#'.                   *)
SkipName ==
  /\ at < Len(db) /\ ~shifted
  /\ db[at + 1].name = "comment"
  /\ shifted' = TRUE
  /\ UNCHANGED <<db, at, info, loaded>>

(* Slip of ReadEntry: the reader stays one line late.                      *)
ReadEntry_Late ==
  /\ at < Len(db)
  /\ shifted \/ db[at + 1].name = "plain"
  /\ info' = IF shifted THEN LoadShifted(db[at + 1], info)
                        ELSE LoadEntry(db[at + 1], info)
  /\ loaded' = Append(loaded, info')
  /\ at' = at + 1
  /\ UNCHANGED <<db, shifted>>

(* LoadFileInfo returns TRUE.                                              *)
ReadEntry ==
  /\ at < Len(db)
  /\ shifted \/ db[at + 1].name = "plain"
  /\ info' = IF shifted THEN LoadShifted(db[at + 1], info)
                        ELSE LoadEntry(db[at + 1], info)
  /\ loaded' = Append(loaded, info')
  /\ at' = at + 1
  /\ shifted' = FALSE
  /\ UNCHANGED db

Next == SkipName \/ ReadEntry

Spec == Init /\ [][Next]_vars

-----------------------------------------------------------------------------
(* Properties.                                                             *)

Info == [name : {"none", "plain", "shifted"},
         number : Nat, catalog_id : Nat, file_size : Nat, file_time : Nat,
         compressed : BOOLEAN, fork_size : Nat, fork_num_blocks : Nat,
         blocks : [Extents -> Nat], num_blocks : [Extents -> Nat],
         valid : BOOLEAN, has_extents_overflow : BOOLEAN,
         catalog_num_blocks : 0 .. Modulus - 1]

TypeOK ==
  /\ db \in Seq(Entry)
  /\ at \in 0 .. Len(db)
  /\ shifted \in BOOLEAN
  /\ info \in Info
  /\ loaded \in Seq(Info) /\ Len(loaded) = at

LiveAt(f, k) == f.blocks[k] # 0 /\ f.num_blocks[k] # 0
DeadAt(f, k) == f.blocks[k] = 0 /\ f.num_blocks[k] = 0

(* A valid entry's extents are a run of live ones followed by dead ones,   *)
(* although the tests in LoadFileInfo look at num_blocks[0] where the      *)
(* extent's own number is meant.                                           *)
ValidExtents ==
  \A n \in DOMAIN loaded :
    loaded[n].valid =>
      \E m \in 0 .. NumExtents :
        /\ \A k \in 1 .. m : LiveAt(loaded[n], k)
        /\ \A k \in m + 1 .. NumExtents : DeadAt(loaded[n], k)

(* A compressed file has its data in the resource fork and no bytes or     *)
(* extents of its own, as the tests in LoadFileInfo and RestoreFile have   *)
(* it; the fork fits its blocks.                                           *)
SoundCompressed(e) ==
  /\ e.name = "plain" /\ e.compressed
  /\ e.file_size = 0
  /\ \A k \in Extents : DeadAt(e, k)
  /\ e.fork_size > 0 /\ e.fork_size <= e.fork_num_blocks * BlockSize

(* "hfsprescue supports HFS+ compression (resource fork)" (the handbook):  *)
(* step 3 goes on to restore every such file.                              *)
CompressedUsable ==
  \A n \in DOMAIN loaded : SoundCompressed(db[n]) => Usable(loaded[n])

(* has_extents_overflow and catalog_num_blocks of a valid uncompressed     *)
(* file are its own and exact: the file needs the overflow file if and     *)
(* only if its catalog extents are too small.  RestoreUncompressedFile     *)
(* and its refusals rest on both.                                          *)
FlagExact(f) ==
  (f.valid /\ ~f.compressed) =>
    /\ f.catalog_num_blocks = Sum(f.num_blocks)
    /\ f.has_extents_overflow <=> Sum(f.num_blocks) * BlockSize < f.file_size

(* No valid entry has more blocks than the file system ("file bigger than  *)
(* file system" in LoadFileInfo).                                          *)
Fits(f) ==
  (f.valid /\ ~f.compressed) => Sum(f.num_blocks) * BlockSize <= FsSize

BelowWrap(f) == Sum(f.num_blocks) * BlockSize < Modulus

(* Both hold of every file whose blocks hold less than 2^32 bytes, the     *)
(* width of the product both are told from; neither holds of every file.   *)
RightBelowWrap ==
  \A n \in DOMAIN loaded :
    BelowWrap(loaded[n]) => FlagExact(loaded[n]) /\ Fits(loaded[n])

(* Whatever was read before, an entry with an ordinary name is read as it  *)
(* stands: a comment-like name spoils no other entry than its own.         *)
OthersUnharmed ==
  \A n \in DOMAIN loaded :
    IF db[n].name = "plain"
    THEN /\ loaded[n].number = db[n].number
         /\ loaded[n].num_blocks = db[n].num_blocks
    ELSE ~loaded[n].valid
=============================================================================
