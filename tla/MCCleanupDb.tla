---------------------------- MODULE MCCleanupDb ----------------------------
(***************************************************************************)
(* Databases of up to three records that may be duplicates of each other.  *)
(* The seconds are counted modulo 8, 1970 is second 2, now second 5.       *)
(***************************************************************************)
EXTENDS CleanupDb
=============================================================================
