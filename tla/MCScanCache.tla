---------------------------- MODULE MCScanCache ----------------------------
(***************************************************************************)
(* A device of a few windows, with every choice of up to two unreadable    *)
(* cells.                                                                  *)
(***************************************************************************)
EXTENDS ScanCache

MCBadSets == { {a, b} : a \in 1 .. DeviceSize - 1, b \in 1 .. DeviceSize - 1 }
               \cup {{}}
=============================================================================
