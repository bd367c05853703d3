--------------------------- MODULE MCCatalogScan ---------------------------
(***************************************************************************)
(* Every block of a few bytes, with entries of every kind at any offset.   *)
(***************************************************************************)
EXTENDS CatalogScan

MCStarts ==
  { [kind |-> "none",   len |-> 1, valid |-> FALSE],
    [kind |-> "folder", len |-> 1, valid |-> TRUE],
    [kind |-> "file",   len |-> 1, valid |-> TRUE],
    [kind |-> "file",   len |-> 2, valid |-> TRUE],
    [kind |-> "file",   len |-> 1, valid |-> FALSE],
    [kind |-> "thread", len |-> 2, valid |-> TRUE] }

MCBlocks == [0 .. BlockSize - 1 -> MCStarts]
=============================================================================
