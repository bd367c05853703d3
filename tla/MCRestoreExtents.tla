-------------------------- MODULE MCRestoreExtents --------------------------
(***************************************************************************)
(* Inputs for RestoreExtents from the layouts of MCVolumes.                *)
(***************************************************************************)
EXTENDS RestoreExtents, MCVolumes

CONSTANT
  Faults       \* also unreadable cells and a full target

(* The overflow files of a layout: the records of the file and strangers   *)
(* in every order, and in order with one record of the file missing.       *)
Overflows(frags) ==
  LET slots == Slots(frags)
      all == slots \o Strangers
  IN  { [n \in 1 .. Len(all) |-> all[p[n]]] : p \in Permutations(1 .. Len(all)) }
        \cup { Remove(slots, slots[n]) : n \in 1 .. Len(slots) }

Content(frags, size) ==
  [k \in 0 .. size - 1 |->
     LET n == CHOOSE n \in 1 .. Len(frags) :
                /\ frags[n].first * BlockSize <= k
                /\ k < (frags[n].first + frags[n].num) * BlockSize
     IN  DeviceCell(frags[n].block) + (k - frags[n].first * BlockSize)]

(* kept: how many of the fragments the catalog record still names.         *)
Record(frags, size, kept) ==
  LET At(n) == IF n <= kept THEN FragmentAt(frags, n) ELSE Dead
      blocks == Sum([n \in CatalogExtents |-> At(n).num])
  IN  [catalog_id |-> Id, file_size |-> size,
       blocks |-> [n \in CatalogExtents |-> At(n).block],
       num_blocks |-> [n \in CatalogExtents |-> At(n).num],
       catalog_num_blocks |-> blocks,
       has_extents_overflow |-> blocks * BlockSize < size]

First(record) ==
  [n \in 1 .. NumExtents + 1 |-> Sum(SubSeq(record.num_blocks, 1, n - 1))]

Run(frags, size, kept, options, vh_start, eof, available, bad, space) ==
  LET record == Record(frags, size, kept) IN
  [file |-> record, options |-> options, vh_start |-> vh_start, eof |-> eof,
   eof_available |-> available, bad |-> bad, space |-> space,
   content |-> Content(frags, size), first |-> First(record)]

NoOptions == [ignore_blocks |-> FALSE, ignore_eof |-> FALSE,
              ignore_file_create_error |-> FALSE]

(* The sizes of a file of the layout: the last block full, or holding one  *)
(* cell; empty; and two blocks short of what is allocated.                 *)
Sizes(lens) ==
  LET cells == Sum(lens) * BlockSize IN
  { n \in {0, cells, cells - BlockSize + 1, cells - 2 * BlockSize - 1} : n >= 0 }

(* Layouts, sizes and overflow files, with everything else as it should be.*)
Plain ==
  UNION { { Run(Fragments(lens), size, NumExtents, NoOptions, 1, eof, TRUE, {}, size)
            : size \in Sizes(lens), eof \in Overflows(Fragments(lens)) }
          : lens \in AllLayouts }

(* Options, an overflow file that is not there, a broken-off record.       *)
Odd ==
  UNION { { Run(Fragments(lens), Sum(lens) * BlockSize - 2 * d, kept, options,
                vh_start, Slots(Fragments(lens)), available, {},
                Sum(lens) * BlockSize)
            : d \in 0 .. 2, kept \in 1 .. NumExtents,
              options \in [ignore_blocks : BOOLEAN, ignore_eof : BOOLEAN,
                           ignore_file_create_error : BOOLEAN],
              vh_start \in 0 .. 1, available \in BOOLEAN }
          : lens \in { <<2>>, <<2, 1>>, <<1, 2, 1>>, <<1, 1, 2, 1>> } \cap
                     { l \in AllLayouts : Sum(l) * BlockSize > 4 \/ Len(l) > 1 } }

(* One or two unreadable cells of the file, and a target that fills up.    *)
Faulty ==
  UNION { LET frags == Fragments(lens)
              size == Sum(lens) * BlockSize - 1
          IN  { Run(frags, size, NumExtents, NoOptions, 1, Slots(frags), TRUE,
                    {Content(frags, size)[a], Content(frags, size)[b]}, space)
                : a \in 0 .. size - 1, b \in 0 .. size - 1,
                  space \in {size, size \div 2} }
          : lens \in { <<2, 2>>, <<1, 2, 1>>, <<1, 1, 2, 1>> } \cap AllLayouts }

MCInputs == Plain \cup Odd \cup IF Faults THEN Faulty ELSE {}
=============================================================================
