--------------------------- MODULE MCDeviceSearch ---------------------------
(***************************************************************************)
(* Devices shorter than a buffer, and of some buffers and a rest: every    *)
(* sequence of two bytes for the searches for bytes, and every place of    *)
(* two headers for the others.  At most one cell cannot be read, the first *)
(* or last one or one at either side of where a buffer ends.               *)
(***************************************************************************)
EXTENDS DeviceSearch

CONSTANTS Sizes

MCNeedle == <<"a", "b">>

Texts == UNION { [1 .. n -> {"a", "b"}] : n \in Sizes }

Volumes ==
  UNION { { [c \in 1 .. n |-> IF c = p THEN x ELSE IF c = q THEN y ELSE "x"] :
              p \in 1 .. n, q \in 1 .. n, x \in {"H", "F"}, y \in {"H", "x"} } : n \in Sizes }

MCDevices == [m \in Searches |-> IF m \in Headers THEN Volumes ELSE Texts]

MCBadCellSets == { {} } \cup { {a} : a \in {0, 1, 3, 4, 5, 8} }

MCJunk == [m \in Searches |-> IF m \in Headers THEN {"x", "H"} ELSE {"a"}]
=============================================================================
