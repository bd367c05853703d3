---------------------------- MODULE MCMoveFiles ----------------------------
(***************************************************************************)
(* Tables of up to three folders, with every choice of parents among them, *)
(* the root and an unknown folder, and a few files.                        *)
(***************************************************************************)
EXTENDS MoveFiles

MCWords == {"nothing", "recovered", "x_directory_problem", "a", "b", "th", "x"}

A == Plain("a")
B == Plain("b")
Numbered == [num |-> 4, rest |-> "th"]

(* Folders 3, 4 and 5, in this order.                                      *)
Row(f, p, n) == [folder |-> f, parent |-> p, name |-> n, valid |-> TRUE]

Shapes == ({2, 4} \X {2, 3, 5} \X {2, 4}) \cup {<<9, 3, 2>>, <<2, 3, 3>>}

(* Their names: all alike, or one that begins with a number.               *)
MCNames == { <<A, A, A>>, <<Numbered, A, B>>, <<A, IdName(5), Numbered>> }

Table(p, n) == [k \in 1 .. 3 |-> Row(k + 2, p[k], n[k])]

MCTables ==
  { Table(p, <<A, B, A>>) : p \in Shapes }
    \cup { Table(p, n) : p \in {<<2, 2, 2>>, <<2, 9, 4>>}, n \in MCNames }
    \cup { << Row(3, 2, A), Row(3, 4, B), Row(4, 9, B) >>,
           << Row(2, 3, A), Row(3, 2, B) >>,
           << Row(3, 4, Plain("recovered")), Row(4, 3, Problem) >>,
           << Row(3, 4, Plain("recovered")), Row(4, 3, A) >>,
           << [Row(3, 2, A) EXCEPT !.valid = FALSE], Row(4, 3, B) >>,
           <<>> }

(* Files of the same name in each folder, one that has a folder's name,    *)
(* one of a folder no table has, and one without a folder.                 *)
MCFileSets ==
  { { [folder |-> f, name |-> Plain("x")] : f \in {0, 2, 3, 4} }
      \cup { [folder |-> 3, name |-> A], [folder |-> 9, name |-> Plain("x")] } }
=============================================================================
