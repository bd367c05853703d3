------------------------------ MODULE FileCopy ------------------------------
(***************************************************************************)
(* What restoring one file promises, whatever the file's layout on the     *)
(* device: the copy grows from its start, every step adds the bytes that   *)
(* follow the ones already there, nothing written is changed, and the file *)
(* is called restored only when the copy is the whole content.             *)
(*                                                                         *)
(* When the device cannot be read or the target cannot hold the file       *)
(* (healthy is FALSE) the program does not notice: only the order of       *)
(* writing is promised then, not the bytes.                                *)
(***************************************************************************)
EXTENDS Integers

CONSTANTS
  Hole      \* an offset of the copy nothing has been written to

VARIABLES
  content,  \* the file: offset -> byte
  healthy,  \* every byte can be read and written
  copy,     \* the copy: offset -> byte or Hole
  restored  \* the program calls the file restored

vars == <<content, healthy, copy, restored>>

Offsets == DOMAIN content

(* The first n bytes of the content, and nothing after them.               *)
Prefix(n) == [k \in Offsets |-> IF k < n THEN content[k] ELSE Hole]

Empty == [k \in Offsets |-> Hole]

Init == copy = Empty /\ restored = FALSE

(* A write: the bytes m .. n - 1.                                          *)
Extend ==
  /\ ~restored
  /\ \E m \in Offsets, n \in { k + 1 : k \in Offsets } :
        /\ m < n
        /\ \A k \in Offsets : k >= m => copy[k] = Hole
        /\ healthy => copy = Prefix(m) /\ copy' = Prefix(n)
        /\ DOMAIN copy' = Offsets
        /\ \A k \in Offsets : (k < m \/ k >= n) => copy'[k] = copy[k]
  /\ UNCHANGED <<content, healthy, restored>>

(* The end of a restore that is reported as complete.                      *)
Complete ==
  /\ ~restored
  /\ healthy => copy = content
  /\ restored' = TRUE
  /\ UNCHANGED <<content, healthy, copy>>

Next == Extend \/ Complete

Spec == Init /\ [][Next]_vars
=============================================================================
