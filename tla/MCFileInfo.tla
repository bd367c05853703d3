----------------------------- MODULE MCFileInfo -----------------------------
(***************************************************************************)
(* Databases of two entries with two extents, of every small shape.        *)
(***************************************************************************)
EXTENDS FileInfo

CONSTANTS
  MaxBlocks,     \* of one extent
  Sizes          \* of files, in cells

Make(number, name, size, compressed, fork, blocks, num_blocks) ==
  [name |-> name, number |-> number, catalog_id |-> 20 + number,
   file_size |-> size, file_time |-> 0, compressed |-> compressed,
   fork_size |-> fork, fork_num_blocks |-> 1,
   blocks |-> blocks, num_blocks |-> num_blocks]

(* Entries of number n: every combination of zero and non-zero extents.    *)
Shapes(n) ==
  { Make(n, "plain", size, compressed, fork, blocks, num_blocks) :
      size \in Sizes, compressed \in BOOLEAN, fork \in {1, 3},
      blocks \in [Extents -> {0, 5}], num_blocks \in [Extents -> 0 .. MaxBlocks] }

(* A few entries to stand before and behind them.                          *)
Neighbours(n) ==
  { Make(n, name, 2, compressed, 1, blocks, num_blocks) :
      name \in {"plain", "comment"}, compressed \in BOOLEAN,
      blocks \in { [j \in Extents |-> 0], [j \in Extents |-> 5] },
      num_blocks \in { [j \in Extents |-> 0], [j \in Extents |-> 1] } }

MCDatabases ==
  { <<e, f>> : e \in Neighbours(1), f \in Shapes(2) }
    \cup { <<e, f>> : e \in Neighbours(1), f \in Neighbours(2) }
=============================================================================
