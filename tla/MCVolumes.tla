----------------------------- MODULE MCVolumes -----------------------------
(***************************************************************************)
(* Small volumes: every way to lay a file of up to MaxBlocks blocks out in *)
(* fragments of one or two blocks.  The catalog record holds the first     *)
(* CatalogFragments of them, overflow records of two extents the others.   *)
(***************************************************************************)
EXTENDS ExtentsOverflow, SequencesExt, TLC

CONSTANTS
  MaxBlocks,         \* blocks of a file
  CatalogFragments   \* extents of a catalog record

(* Lengths of the fragments of a file, in file order.                      *)
RECURSIVE Layouts(_)
Layouts(n) ==
  IF n <= 0 THEN IF n = 0 THEN {<<>>} ELSE {}
  ELSE UNION { { <<len>> \o rest : rest \in Layouts(n - len) } : len \in 1 .. 2 }

Sum(lens) == FoldSeq(+, 0, lens)

(* Fragment n lies at block 3 * (Len + 1 - n): the file runs backwards     *)
(* over the device, so that no fragment follows the one before it.         *)
Fragments(lens) ==
  [n \in 1 .. Len(lens) |->
     [block |-> 3 * (Len(lens) + 1 - n), num |-> lens[n],
      first |-> Sum(SubSeq(lens, 1, n - 1))]]

Dead == [block |-> 0, num |-> 0]
Id == 7

FragmentAt(frags, n) ==
  IF n <= Len(frags) THEN [block |-> frags[n].block, num |-> frags[n].num] ELSE Dead

(* The slots that hold the fragments behind those of the catalog.          *)
Slots(frags) ==
  [m \in 1 .. (Len(frags) - CatalogFragments + 1) \div 2 |->
     [height |-> 1, id |-> Id, start |-> frags[CatalogFragments + 2 * m - 1].first,
      data |-> [e \in Entries |-> FragmentAt(frags, CatalogFragments + 2 * m - 2 + e)]]]

(* A slot of another file, one of an index block, and one that holds       *)
(* nothing, with start blocks that the file also asks for.                 *)
Strangers ==
  LET SlotOf(height, id, data) ==
        [height |-> height, id |-> id, start |-> 2, data |-> data]
      some == [e \in Entries |-> [block |-> 20 + e, num |-> 2]]
  IN  << SlotOf(1, Id + 1, some), SlotOf(0, Id, some),
         SlotOf(1, Id, [e \in Entries |-> Dead]) >>

AllLayouts == UNION { Layouts(n) : n \in 1 .. MaxBlocks }
=============================================================================
