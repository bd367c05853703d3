----------------------------- MODULE MCPipeline -----------------------------
(***************************************************************************)
(* Three volumes: one whose ExtentsOverflowFile has two blocks, one whose  *)
(* file has a damaged first block and ends before its last record, and one *)
(* whose volume header names no extents of it.                             *)
(***************************************************************************)
EXTENDS Pipeline

CONSTANTS Good, Damaged, Bare

MCFiles == [v \in Volumes |-> IF v = Bare THEN 1 ELSE 2]

MCHeader ==
  [v \in Volumes |->
     CASE v = Good    -> [extents |-> "valid", held |-> 2, magic |-> TRUE]
       [] v = Damaged -> [extents |-> "valid", held |-> 1, magic |-> FALSE]
       [] v = Bare    -> [extents |-> "empty", held |-> 0, magic |-> FALSE]]
=============================================================================
