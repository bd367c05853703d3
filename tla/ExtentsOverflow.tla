-------------------------- MODULE ExtentsOverflow --------------------------
(***************************************************************************)
(* The lookup hfsprescue makes in the ExtentsOverflowFile (src/eof.cpp).   *)
(* A strongly fragmented file keeps its first extents in its catalog       *)
(* record and the rest in this file, a sequence of fixed-size blocks.  The *)
(* program does not walk the B-tree: it scans every slot of every block    *)
(* whose level byte is 1 and compares the key up to the file id.           *)
(*                                                                         *)
(* A slot is a place where a leaf record may lie:                          *)
(*   height  the level byte of the slot's block (1 in a leaf);             *)
(*   id      the file id of the slot's key (NoFile: another key shape);    *)
(*   start   the key's start block, counted within the file;               *)
(*   data    the extents of the record, [block, num] each.                 *)
(* The scan order is the order of the sequence.                            *)
(***************************************************************************)
EXTENDS Integers, Sequences

CONSTANT EOF_DATA_ENTRIES     \* extents of one record (8 on disk)

ASSUME EntriesAssumption == EOF_DATA_ENTRIES \in Nat \ {0}

Entries == 1 .. EOF_DATA_ENTRIES

Extent == [block : Nat, num : Nat]

Slot == [height : Nat, id : Nat, start : Nat, data : [Entries -> Extent]]

(* The test that ends the loop over a record's extents, negated.           *)
Live(e) == e.block # 0 /\ e.num # 0

(* start_block at each turn of that loop: the number, within the file, of  *)
(* the first block of each extent of the slot.                             *)
StartBlock(slot) ==
  LET f[e \in Entries] ==
        IF e = 1 THEN slot.start ELSE f[e - 1] + slot.data[e - 1].num
  IN  f

(* A record of the file: in a leaf, with its key.                          *)
Matches(slot, id) == slot.height = 1 /\ slot.id = id

(* Slip of Hits: the last block of an extent is taken for the next one's.  *)
Hits_Short(eof, id, requested) ==
  { h \in (1 .. Len(eof)) \X Entries :
      LET slot == eof[h[1]]
          start == StartBlock(slot)[h[2]]
      IN  /\ Matches(slot, id)
          /\ \A e \in 1 .. h[2] : Live(slot.data[e])
          /\ requested >= start
          /\ requested < start + slot.data[h[2]].num - 1 }

(* Where the loops over blocks, slots and extents can return: the slots    *)
(* whose key matches, the extents before the first dead one, and of those  *)
(* the ones that cover the requested block.                                *)
Hits(eof, id, requested) ==
  { h \in (1 .. Len(eof)) \X Entries :
      LET slot == eof[h[1]]
          start == StartBlock(slot)[h[2]]
      IN  /\ Matches(slot, id)
          /\ \A e \in 1 .. h[2] : Live(slot.data[e])
          /\ requested >= start
          /\ requested < start + slot.data[h[2]].num }

(* Scan order of two places.                                               *)
Before(g, h) == g[1] < h[1] \/ (g[1] = h[1] /\ g[2] <= h[2])

NotFound == [found |-> FALSE, block |-> 0, num |-> 0]

(* The device block where the requested block of the file lies and the     *)
(* number of blocks from there to the end of its extent.                   *)
EOF_GetRemainingBlocks(eof, id, requested) ==
  LET hits == Hits(eof, id, requested)
  IN  IF hits = {}
      THEN NotFound
      ELSE LET h == CHOOSE h \in hits : \A g \in hits : Before(h, g)
               extent == eof[h[1]].data[h[2]]
               diff == requested - StartBlock(eof[h[1]])[h[2]]
           IN  [found |-> TRUE,
                block |-> extent.block + diff,
                num |-> extent.num - diff]
=============================================================================
