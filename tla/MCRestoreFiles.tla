--------------------------- MODULE MCRestoreFiles ---------------------------
(***************************************************************************)
(* Databases of a few versions of one file, in every order, and lists of   *)
(* some of them.  Files of other names are independent of it.              *)
(***************************************************************************)
EXTENDS RestoreFiles

CONSTANTS
  MCOutcomes,   \* the outcomes to choose from
  MaxFiles      \* bound: entries of the database

Version(t, s, u, o) ==
  [name |-> "file", id |-> 7, time |-> t, size |-> s, usable |-> u, outcome |-> o]

(* Versions of three times, whole, refused or empty; one of the future,    *)
(* one that is cut off, one that cannot be created, and one that is not    *)
(* usable.                                                                 *)
MCEntries ==
  {Version(t, 2, TRUE, o) : t \in 1 .. 3, o \in MCOutcomes}
    \cup {Version(t, 0, TRUE, "whole") : t \in 1 .. 3}
    \cup {Version(Now + 1, 2, TRUE, "whole"), Version(2, 2, TRUE, "short"),
          Version(1, 2, TRUE, "nocreate"), Version(1, 2, FALSE, "whole")}

MCDatabases == [1 .. MaxFiles -> MCEntries]

MCLists == {NoList, {1, 3}, {2}}
=============================================================================
