----------------------------- MODULE CleanupDb -----------------------------
(***************************************************************************)
(* Step 2, CleanupFileDatabase (src/hfsprescue.cpp): from filesfound.db,   *)
(* one record for each file entry step 1 came across, to fileinfo.db,      *)
(* without duplicates and without entries that look like false finds.      *)
(*                                                                         *)
(* A record is told apart by what goes into its digest (content, date) and *)
(* what does not (entry): where its entry was found, and the last extent.  *)
(* The date is the one of the catalog, in seconds since 1904; the program  *)
(* works with seconds since 1970 in an uint32_t.  Digests are equal when   *)
(* what goes into them is.                                                 *)
(***************************************************************************)
EXTENDS Integers, Sequences, FiniteSets, Functions

CONSTANTS
  Contents,      \* what the digest covers, the date left out
  Entries,       \* what it does not cover
  Dates,         \* the dates to choose from, in the catalog's seconds
  BadNames,      \* contents whose name has an invalid encoding
  Cut,           \* contents with a 0 byte in a line
  MaxRecords,    \* bound: records of filesfound.db
  MaxInterrupts, \* bound: interrupted runs
  Modulus,       \* 2^32
  Epoch,         \* 2082844800, 1970 in the catalog's seconds
  Now,           \* time_start, in seconds since 1970
  Tolerance      \* future_date_tolerance

ASSUME CleanupAssumption ==
  /\ Contents # {} /\ Entries # {}
  /\ BadNames \subseteq Contents /\ Cut \subseteq Contents
  /\ MaxRecords \in Nat /\ MaxInterrupts \in Nat
  /\ Modulus \in Nat \ {0} /\ Epoch \in 0 .. Modulus - 1
  /\ Dates \subseteq 0 .. Modulus - 1
  /\ Now \in Nat /\ Tolerance \in Nat

Record == [content : Contents, date : Dates, entry : Entries]

VARIABLES
  filesfound,  \* filesfound.db, as step 1 left it
  pc,          \* "hash", "sort", "write": the passes of the program;
               \* "done"; "stopped": interrupted
  hash,        \* the array of digests, by record; None where it is cleared
  at,          \* i1, the record the last pass is at
  number,      \* of the next record
  fileinfo,    \* fileinfo.db
  interrupts

vars == <<filesfound, pc, hash, at, number, fileinfo, interrupts>>

None == <<>>    \* digest[0] = 0

Init ==
  /\ filesfound \in UNION {[1 .. n -> Record] : n \in 0 .. MaxRecords}
  /\ pc = "hash"
  /\ hash = <<>> /\ at = 1 /\ number = 1
  /\ fileinfo = <<>>
  /\ interrupts = 0

-----------------------------------------------------------------------------
(* Slip of Digest: the date is not hashed.                                 *)
Digest_NoDate(r) == <<r.content>>

(* The lines below 15 but the number, and the first line of the extents;   *)
(* for the last one the line behind it is taken (48 instead of 47), which  *)
(* is the same in each record.  A line is hashed up to its 0 byte.         *)
Digest(r) == <<r.content, r.date>>

(* The first pass.  A record that is not complete at the end of the file,  *)
(* from an interrupted step 1, is not counted; filesfound holds those that *)
(* are.                                                                    *)
HashAll ==
  /\ pc = "hash"
  /\ hash' = [i \in DOMAIN filesfound |-> Digest(filesfound[i])]
  /\ pc' = "sort"
  /\ UNCHANGED <<filesfound, at, number, fileinfo, interrupts>>

(* The orders qsort may leave the records in: equal digests side by side,  *)
(* in any order among themselves.                                          *)
Sorted ==
  {o \in Bijection(DOMAIN hash, DOMAIN hash) :
     \A i, j, k \in DOMAIN hash :
       i <= j /\ j <= k /\ hash[o[i]] = hash[o[k]] => hash[o[j]] = hash[o[i]]}

(* Slip of Removed: the later one of two neighbours is cleared, and is no  *)
(* longer equal to the one behind it.                                      *)
Removed_Later(o) ==
  {o[i] : i \in {j \in 2 .. Len(hash) :
                   /\ hash[o[j]] = hash[o[j - 1]]
                   /\ j = 2 \/ hash[o[j - 1]] # hash[o[j - 2]]}}

(* The records whose successor in the order has the same digest.           *)
Removed(o) ==
  {o[i] : i \in {j \in 1 .. Len(hash) - 1 : hash[o[j]] = hash[o[j + 1]]}}

(* Slip of RemoveDuplicates: fileinfo.db is appended to.                   *)
RemoveDuplicates_Append ==
  /\ pc = "sort"
  /\ \E o \in Sorted :
       hash' = [i \in DOMAIN hash |-> IF i \in Removed(o) THEN None ELSE hash[i]]
  /\ pc' = "write"
  /\ at' = 1 /\ number' = 1
  /\ UNCHANGED <<filesfound, fileinfo, interrupts>>

(* Sorting by digest, clearing the digests of duplicates, sorting back by  *)
(* number, and opening fileinfo.db anew.                                   *)
RemoveDuplicates ==
  /\ pc = "sort"
  /\ \E o \in Sorted :
       hash' = [i \in DOMAIN hash |-> IF i \in Removed(o) THEN None ELSE hash[i]]
  /\ pc' = "write"
  /\ at' = 1 /\ number' = 1
  /\ fileinfo' = <<>>
  /\ UNCHANGED <<filesfound, interrupts>>

(* Rawtime of WriteFileInfos: the catalog's seconds less the correction,   *)
(* in 32 bits.                                                             *)
Rawtime(r) == (r.date - Epoch) % Modulus

(* Slip of Future: the tolerance is taken off the wrong side.              *)
Future_Swapped(r) == Rawtime(r) + Tolerance > Now

(* difftime (rawtime, time_start) > future_date_tolerance                  *)
Future(r) == Rawtime(r) - Now > Tolerance

Skipped(r) ==
  \/ r.content \in Cut
  \/ Future(r)
  \/ r.content \in BadNames

Writing == pc = "write" /\ at \in DOMAIN filesfound

Step ==
  /\ at' = at + 1
  /\ UNCHANGED <<filesfound, pc, hash, interrupts>>

(* Slip of SkipRecord: the number is counted on.                           *)
SkipRecord_Counts ==
  /\ Writing
  /\ hash[at] = None \/ Skipped(filesfound[at])
  /\ number' = number + 1
  /\ Step
  /\ UNCHANGED fileinfo

(* Slip of SkipRecord: the loop does not go on.                            *)
SkipRecord_Stays ==
  /\ Writing
  /\ hash[at] = None \/ Skipped(filesfound[at])
  /\ UNCHANGED vars

(* The last pass, for a duplicate or a record that fails a check ...       *)
SkipRecord ==
  /\ Writing
  /\ hash[at] = None \/ Skipped(filesfound[at])
  /\ Step
  /\ UNCHANGED <<number, fileinfo>>

(* ... and for one that is written, with a number of its own.              *)
WriteRecord ==
  /\ Writing
  /\ hash[at] # None /\ ~Skipped(filesfound[at])
  /\ fileinfo' = Append(fileinfo, [number |-> number, record |-> filesfound[at]])
  /\ number' = number + 1
  /\ Step

Finish ==
  /\ pc = "write"
  /\ at \notin DOMAIN filesfound
  /\ pc' = "done"
  /\ UNCHANGED <<filesfound, hash, at, number, fileinfo, interrupts>>

(* SIGINT or SIGTERM: the files stay as they are, fileinfo.db with the     *)
(* records written so far.                                                 *)
Interrupt ==
  /\ pc \in {"hash", "sort", "write"}
  /\ interrupts < MaxInterrupts
  /\ interrupts' = interrupts + 1
  /\ pc' = "stopped"
  /\ UNCHANGED <<filesfound, hash, at, number, fileinfo>>

(* The user runs step 2 once more.                                         *)
Rerun ==
  /\ pc = "stopped"
  /\ pc' = "hash"
  /\ hash' = <<>> /\ at' = 1 /\ number' = 1
  /\ UNCHANGED <<filesfound, fileinfo, interrupts>>

Next ==
  \/ HashAll \/ RemoveDuplicates
  \/ SkipRecord \/ WriteRecord \/ Finish
  \/ Interrupt \/ Rerun

Spec == Init /\ [][Next]_vars

(* The program runs on, and the user starts an interrupted run again.      *)
FairSpec == Spec /\ WF_vars(Next)

-----------------------------------------------------------------------------
(* Properties.                                                             *)

(* Shape of the files and of the array of digests.                         *)
TypeOK ==
  /\ filesfound \in Seq(Record)
  /\ pc \in {"hash", "sort", "write", "done", "stopped"}
  /\ \A i \in DOMAIN hash : hash[i] \in {None, Digest(filesfound[i])}
  /\ at \in 1 .. Len(filesfound) + 1
  /\ number \in 1 .. Len(fileinfo) + 1
  /\ \A i \in DOMAIN fileinfo : fileinfo[i].record \in Record
  /\ interrupts \in 0 .. MaxInterrupts

Written == {fileinfo[i].record : i \in DOMAIN fileinfo}

(* fileinfo.db never holds two entries with the same digest, also when an  *)
(* interrupted step 2 is run again.                                        *)
NoDuplicates ==
  \A i, j \in DOMAIN fileinfo :
    Digest(fileinfo[i].record) = Digest(fileinfo[j].record) => i = j

(* Step 3 names files by their number (-c, --list, file lists): the        *)
(* numbers of fileinfo.db count its entries without gaps, and the entries  *)
(* keep the order step 1 found them in.                                    *)
NumbersCount ==
  /\ \A i \in DOMAIN fileinfo : fileinfo[i].number = i
  /\ \E f \in [DOMAIN fileinfo -> DOMAIN filesfound] :
       /\ \A i \in DOMAIN fileinfo : fileinfo[i].record = filesfound[f[i]]
       /\ \A i, j \in DOMAIN fileinfo : i < j => f[i] < f[j]

(* Whatever qsort does with equal digests, a file whose date is at most    *)
(* the tolerance ahead, with a date the program can tell, is still there   *)
(* with its date when step 2 is done.                                      *)
PresentKept ==
  pc = "done" =>
    \A i \in DOMAIN filesfound :
      LET r == filesfound[i] IN
      /\ r.date \in Epoch .. Epoch + Now + Tolerance
      /\ r.content \notin BadNames \cup Cut
      => \E w \in Written : w.content = r.content /\ w.date = r.date

(* One entry of each file, with its number and its date: no duplicate, no  *)
(* gap, no loss.                                                           *)
OneEntryOfEach == NoDuplicates /\ NumbersCount /\ PresentKept

(* Step 2 ends, at the latest when no run is interrupted any more.         *)
Termination == <>(pc = "done")
=============================================================================
