--------------------------- MODULE Pipeline_proof ---------------------------
(***************************************************************************)
(* Proofs that hold for any number of volumes, of files in them, of        *)
(* commands and of interrupts.                                             *)
(***************************************************************************)
EXTENDS Pipeline, TLAPS

(* What may be running.  A restoring command that only extracts the        *)
(* ExtentsOverflowFile ends before that file is opened.                    *)
ScanCommand == [pc : {"open_found", "scan"}, vol : Volumes]
ListCommand == [pc : {"open_info", "list"}, vol : {"none"}]
RestoreCommand ==
  [pc : {"stat_eof", "extract", "open_eof", "copy", "write"}, vol : Volumes,
   what : {"all", "one", "none"},
   ignore_eof : BOOLEAN, force_eof : BOOLEAN, force_block_size : BOOLEAN]

Restoring == command \in RestoreCommand

CommandOK ==
  /\ command \in {Idle} \cup ScanCommand \cup ListCommand \cup RestoreCommand
  /\ at \in Nat
  /\ command.pc \in {"open_eof", "copy", "write"} => command.what \in {"all", "one"}

(* The tables while they are written and, as far as the user knows, whole. *)
Whole(t, v) == t = [vol |-> v, n |-> Files[v] + 1]

TablesKnown ==
  /\ At("open_found") =>
       /\ history.scanned = command.vol /\ ~history.scanned_all
       /\ folder_table = Empty(command.vol)
  /\ At("scan") =>
       /\ history.scanned = command.vol /\ ~history.scanned_all
       /\ files_found \in [vol : {command.vol}, n : Nat]
       /\ folder_table = files_found
  /\ history.scanned_all => history.scanned \in Volumes
  /\ command.pc \in {"open_info", "list"} => Exists(files_found)
  /\ At("list") =>
       /\ history.listed = history.scanned /\ ~history.listed_all
       /\ file_info \in [vol : {files_found.vol}, n : 0 .. files_found.n]
  /\ history.listed_all =>
       history.listed \in Volumes /\ Whole(file_info, history.listed)

(* Whose ExtentsOverflowFile there is, and whether it was cut off.         *)
EofKnown ==
  /\ At("stat_eof") => command.vol \in history.extracted
  /\ Exists(eof) => eof.vol \in history.extracted
  /\ Exists(eof) /\ ~history.spoilt /\ ~At("extract") => eof.n >= Header[eof.vol].held
  /\ At("extract") => Exists(eof) /\ eof.vol = command.vol
  /\ command.pc \in {"copy", "write"} => command.ignore_eof \/ eof.n > 0

(* What Copied says of a file, for copies that may be those of a step.     *)
CopiedIn(copies, f) ==
  /\ f \in DOMAIN copies
  /\ \/ copies[f].content \in {"right", "cut"}
     \/ copies[f].content # "empty" /\ ~copies[f].careful

(* What step 3 has done: the file it writes is still empty, and a careful  *)
(* run has passed no entry without a copy.                                 *)
CopyGoing ==
  /\ At("write") =>
       /\ at < file_info.n
       /\ File \in DOMAIN restored
       /\ restored[File].content = "empty"
  /\ Restoring /\ command.what = "all" /\ Careful =>
       \A k \in 0 .. at - 1 : CopiedIn(restored, <<command.vol, k, "all">>)

IInv == TypeOK /\ CommandOK /\ TablesKnown /\ EofKnown /\ CopyGoing
          /\ CopiesRight /\ TablesTogether
-----------------------------------------------------------------------------
(* What a step leaves alone.                                               *)

(* The record of a command, by the loop it is in.                          *)
LEMMA CommandShape ==
  ASSUME CommandOK
  PROVE  /\ command.pc \in {"open_found", "scan"} => command \in ScanCommand
         /\ command.pc \in {"open_info", "list"} => command \in ListCommand
         /\ command.pc \in {"stat_eof", "extract", "open_eof", "copy", "write"}
              => command \in RestoreCommand
         /\ command = Idle <=> command.pc = "idle"
  <1>1. Idle.pc = "idle"
    BY DEF Idle
  <1>2. CASE command = Idle
    BY <1>1, <1>2
  <1>3. CASE command \in ScanCommand
    <2>1. command.pc \in {"open_found", "scan"}
      BY <1>3 DEF ScanCommand
    <2> QED
      BY <1>1, <1>3, <2>1
  <1>4. CASE command \in ListCommand
    <2>1. command.pc \in {"open_info", "list"}
      BY <1>4 DEF ListCommand
    <2> QED
      BY <1>1, <1>4, <2>1
  <1>5. CASE command \in RestoreCommand
    <2>1. command.pc \in {"stat_eof", "extract", "open_eof", "copy", "write"}
      BY <1>5 DEF RestoreCommand
    <2> QED
      BY <1>1, <1>5, <2>1
  <1> QED
    BY <1>2, <1>3, <1>4, <1>5 DEF CommandOK

(* A command that does not write the tables leaves them as they are known. *)
LEMMA SameTables ==
  ASSUME TablesKnown, TablesTogether, UNCHANGED tables,
         history'.scanned = history.scanned, history'.scanned_all = history.scanned_all,
         history'.listed = history.listed, history'.listed_all = history.listed_all,
         command'.pc \notin {"open_found", "scan", "open_info", "list"}
  PROVE  TablesKnown' /\ TablesTogether'
  BY DEF TablesKnown, TablesTogether, At, Whole, tables

(* So does one that neither writes the ExtentsOverflowFile nor uses it.    *)
LEMMA SameEof ==
  ASSUME EofKnown, UNCHANGED eof,
         history.extracted \subseteq history'.extracted,
         history.spoilt => history'.spoilt,
         At("extract") => history'.spoilt \/ eof.n >= Header[eof.vol].held,
         command'.pc \notin {"stat_eof", "extract", "copy", "write"}
  PROVE  EofKnown'
  BY DEF EofKnown, At, Exists

(* A step of a command that restores, from one of its loops to another.    *)
LEMMA GotoShape ==
  ASSUME command \in RestoreCommand,
         NEW pc \in {"stat_eof", "extract", "open_eof", "copy", "write"},
         command' = [command EXCEPT !.pc = pc]
  PROVE  /\ command' \in RestoreCommand
         /\ command'.pc = pc
         /\ command'.vol = command.vol
         /\ command'.what = command.what
         /\ command'.ignore_eof = command.ignore_eof
  BY DEF RestoreCommand

LEMMA CarefulSame ==
  ASSUME UNCHANGED history, command'.vol = command.vol,
         command'.ignore_eof = command.ignore_eof
  PROVE  Careful' <=> Careful
  BY DEF Careful

(* A command ends, and the files stay as they are.                         *)
LEMMA ExitKeeps ==
  ASSUME IInv, Exit, UNCHANGED <<tables, eof, restored, at, history>>,
         commands' \in 0 .. MaxCommands, interrupts' \in 0 .. MaxInterrupts,
         At("extract") => eof.n >= Header[eof.vol].held
  PROVE  IInv'
  <1>1. command' = Idle /\ command'.pc = "idle"
    BY DEF Exit, Idle
  <1>2. TypeOK' /\ CopiesRight'
    BY DEF IInv, TypeOK, CopiesRight, tables
  <1>3. CommandOK'
    BY <1>1 DEF IInv, CommandOK
  <1>4. TablesKnown' /\ TablesTogether'
    BY <1>1, SameTables DEF IInv
  <1>5. EofKnown'
    BY <1>1, SameEof DEF IInv
  <1>6. CopyGoing'
    BY <1>1 DEF CopyGoing, Restoring, RestoreCommand, At
  <1> QED
    BY <1>2, <1>3, <1>4, <1>5, <1>6 DEF IInv

(* A command that restores goes on, and the files stay as they are.        *)
LEMMA GotoKeeps ==
  ASSUME IInv, command \in RestoreCommand, Running,
         NEW pc \in {"open_eof", "copy"},
         command' = [command EXCEPT !.pc = pc],
         command.what # "none",
         pc = "copy" => command.ignore_eof \/ eof.n > 0,
         At("extract") => eof.n >= Header[eof.vol].held,
         UNCHANGED <<tables, eof, restored, history, at>>
  PROVE  IInv'
  <1>1. /\ command' \in RestoreCommand /\ command'.pc = pc
        /\ command'.vol = command.vol /\ command'.what = command.what
        /\ command'.ignore_eof = command.ignore_eof
    BY GotoShape
  <1>2. TypeOK' /\ CopiesRight'
    BY DEF IInv, TypeOK, CopiesRight, tables, Running
  <1>3. CommandOK'
    BY <1>1 DEF IInv, CommandOK, RestoreCommand
  <1>4. TablesKnown' /\ TablesTogether'
    BY <1>1, SameTables DEF IInv
  <1>5. EofKnown'
    BY <1>1 DEF IInv, EofKnown, At, Exists
  <1>6. CopyGoing'
    BY <1>1, CarefulSame DEF IInv, CopyGoing, Restoring, At
  <1> QED
    BY <1>2, <1>3, <1>4, <1>5, <1>6 DEF IInv
-----------------------------------------------------------------------------
(* Step 1.                                                                 *)

LEMMA Step1Keeps ==
  ASSUME IInv, NEW v \in Volumes, NEW force \in BOOLEAN, Step1(v, force)
  PROVE  IInv'
  <1>1. /\ command' = [pc |-> "open_found", vol |-> v]
        /\ folder_table' = Empty(v)
        /\ UNCHANGED <<files_found, file_info, eof, restored, at>>
    BY DEF Step1, Enter
  <1>2. history' = [history EXCEPT !.scanned = v, !.scanned_all = FALSE]
    BY DEF Step1
  <1>3. /\ history' \in Known
        /\ history'.scanned = v /\ ~history'.scanned_all
        /\ history'.listed = history.listed /\ history'.listed_all = history.listed_all
        /\ history'.extracted = history.extracted /\ history'.spoilt = history.spoilt
    BY <1>2 DEF IInv, TypeOK, Known
  <1>4. TypeOK'
    <2>1. Files[v] \in Nat
      BY PipelineAssumption
    <2>2. \A t \in {folder_table', files_found', file_info'} :
            t # NoFile => t.vol \in Volumes /\ t.n \in 0 .. Files[t.vol] + 1
      BY <1>1, <2>1 DEF IInv, TypeOK, Empty
    <2>3. commands' \in 0 .. MaxCommands /\ interrupts' \in 0 .. MaxInterrupts
      BY PipelineAssumption DEF IInv, TypeOK, Step1, Enter
    <2> QED
      BY <1>1, <1>3, <2>2, <2>3 DEF IInv, TypeOK
  <1>5. CommandOK'
    BY <1>1 DEF IInv, CommandOK, ScanCommand
  <1>6. TablesKnown' /\ TablesTogether'
    BY <1>1, <1>3 DEF IInv, TablesKnown, TablesTogether, At, Whole
  <1>7. EofKnown'
    BY <1>1, <1>3, SameEof DEF IInv, Step1, Enter, At, Idle
  <1>8. CopyGoing' /\ CopiesRight'
    BY <1>1 DEF IInv, CopyGoing, CopiesRight, Restoring, RestoreCommand, At
  <1> QED
    BY <1>4, <1>5, <1>6, <1>7, <1>8 DEF IInv

LEMMA OpenFoundKeeps ==
  ASSUME IInv, OpenFound
  PROVE  IInv'
  <1>1. /\ command \in ScanCommand /\ command.pc = "open_found"
        /\ command' = [command EXCEPT !.pc = "scan"]
        /\ files_found' = Empty(command.vol)
        /\ UNCHANGED <<folder_table, file_info, eof, restored, at, history,
                       commands, interrupts>>
    BY CommandShape DEF IInv, OpenFound, At, Goto, Running
  <1>2. /\ command' \in ScanCommand
        /\ command'.pc = "scan" /\ command'.vol = command.vol
    BY <1>1 DEF ScanCommand
  <1>3. command.vol \in Volumes /\ Files[command.vol] \in Nat
    BY <1>1, PipelineAssumption DEF ScanCommand
  <1>4. TypeOK'
    BY <1>1, <1>3 DEF IInv, TypeOK, Empty
  <1>5. CommandOK'
    BY <1>1, <1>2 DEF IInv, CommandOK
  <1>6. TablesKnown' /\ TablesTogether'
    BY <1>1, <1>2, <1>3 DEF IInv, TablesKnown, TablesTogether, At, Whole, Empty
  <1>7. EofKnown'
    BY <1>1, <1>2, SameEof DEF IInv, At
  <1>8. CopyGoing' /\ CopiesRight'
    BY <1>1, <1>2 DEF IInv, CopyGoing, CopiesRight, Restoring, RestoreCommand, At
  <1> QED
    BY <1>4, <1>5, <1>6, <1>7, <1>8 DEF IInv

LEMMA ScanKeeps ==
  ASSUME IInv, Scan
  PROVE  IInv'
  <1>1. /\ command \in ScanCommand /\ command.pc = "scan"
        /\ files_found.n <= Files[command.vol]
        /\ files_found' = Longer(files_found) /\ folder_table' = Longer(folder_table)
        /\ UNCHANGED <<file_info, eof, restored, command, at, history,
                       commands, interrupts>>
    BY CommandShape DEF IInv, Scan, At, Running
  <1>2. command.vol \in Volumes /\ Files[command.vol] \in Nat
    BY <1>1, PipelineAssumption DEF ScanCommand
  <1>3. /\ files_found \in [vol : {command.vol}, n : Nat] /\ folder_table = files_found
        /\ history.scanned = command.vol /\ ~history.scanned_all
    BY <1>1 DEF IInv, TablesKnown, At
  <1>4. /\ files_found' \in [vol : {command.vol}, n : Nat]
        /\ files_found'.n = files_found.n + 1 /\ files_found'.vol = command.vol
        /\ folder_table' = files_found'
    BY <1>1, <1>3 DEF Longer
  <1>5. TypeOK'
    BY <1>1, <1>2, <1>3, <1>4 DEF IInv, TypeOK
  <1>6. CommandOK'
    BY <1>1 DEF IInv, CommandOK
  <1>7. TablesKnown' /\ TablesTogether'
    BY <1>1, <1>3, <1>4 DEF IInv, TablesKnown, TablesTogether, At, Whole
  <1>8. EofKnown'
    BY <1>1, SameEof DEF IInv, At
  <1>9. CopyGoing' /\ CopiesRight'
    BY <1>1 DEF IInv, CopyGoing, CopiesRight, Restoring, RestoreCommand, At
  <1> QED
    BY <1>5, <1>6, <1>7, <1>8, <1>9 DEF IInv

LEMMA ScanEndsKeeps ==
  ASSUME IInv, ScanEnds
  PROVE  IInv'
  <1>1. /\ command \in ScanCommand /\ command.pc = "scan"
        /\ files_found.n > Files[command.vol]
        /\ command' = Idle /\ command'.pc = "idle"
        /\ history' = [history EXCEPT !.scanned_all = TRUE]
        /\ UNCHANGED <<tables, eof, restored, at, commands, interrupts>>
    BY CommandShape DEF IInv, ScanEnds, At, Running, Exit, Idle
  <1>2. /\ history' \in Known /\ history'.scanned = history.scanned
        /\ history'.listed = history.listed /\ history'.listed_all = history.listed_all
        /\ history'.extracted = history.extracted /\ history'.spoilt = history.spoilt
    BY <1>1 DEF IInv, TypeOK, Known
  <1>3. command.vol \in Volumes /\ Files[command.vol] \in Nat
    BY <1>1, PipelineAssumption DEF ScanCommand
  <1>4. TypeOK'
    BY <1>1, <1>2 DEF IInv, TypeOK, tables
  <1>5. CommandOK'
    BY <1>1 DEF IInv, CommandOK
  <1>6. /\ folder_table = files_found /\ history.scanned = command.vol
        /\ files_found = [vol |-> command.vol, n |-> Files[command.vol] + 1]
    <2>1. /\ files_found \in [vol : {command.vol}, n : Nat]
          /\ folder_table = files_found /\ history.scanned = command.vol
      BY <1>1 DEF IInv, TablesKnown, At
    <2>2. files_found # NoFile
      BY <1>3, <2>1, PipelineAssumption DEF NoFile
    <2>3. files_found.n <= Files[command.vol] + 1
      BY <1>3, <2>1, <2>2 DEF IInv, TypeOK
    <2>4. files_found.n = Files[command.vol] + 1
      BY <1>1, <1>3, <2>1, <2>3
    <2> QED
      BY <2>1, <2>4
  <1>7. TablesKnown' /\ TablesTogether'
    BY <1>1, <1>2, <1>3, <1>6 DEF IInv, TablesKnown, TablesTogether, At, Whole, tables
  <1>8. EofKnown'
    BY <1>1, <1>2, SameEof DEF IInv, At
  <1>9. CopyGoing' /\ CopiesRight'
    BY <1>1 DEF IInv, CopyGoing, CopiesRight, Restoring, RestoreCommand, At
  <1> QED
    BY <1>4, <1>5, <1>7, <1>8, <1>9 DEF IInv
-----------------------------------------------------------------------------
(* Step 2.                                                                 *)

LEMMA Step2Keeps ==
  ASSUME IInv, Step2
  PROVE  IInv'
  <1>1. /\ command' = [pc |-> "open_info", vol |-> "none"] /\ command'.pc = "open_info"
        /\ Exists(files_found) /\ ~At("extract")
        /\ UNCHANGED <<tables, eof, restored, at, history>>
    BY DEF Step2, Enter, At, Idle
  <1>2. TypeOK'
    <2>1. commands' \in 0 .. MaxCommands /\ interrupts' \in 0 .. MaxInterrupts
      BY PipelineAssumption DEF IInv, TypeOK, Step2, Enter
    <2> QED
      BY <1>1, <2>1 DEF IInv, TypeOK, tables
  <1>3. CommandOK'
    BY <1>1 DEF IInv, CommandOK, ListCommand
  <1>4. TablesKnown' /\ TablesTogether'
    BY <1>1 DEF IInv, TablesKnown, TablesTogether, At, Whole, Exists, tables
  <1>5. EofKnown'
    BY <1>1, SameEof DEF IInv
  <1>6. CopyGoing' /\ CopiesRight'
    BY <1>1 DEF IInv, CopyGoing, CopiesRight, Restoring, RestoreCommand, At
  <1> QED
    BY <1>2, <1>3, <1>4, <1>5, <1>6 DEF IInv

LEMMA OpenInfoKeeps ==
  ASSUME IInv, OpenInfo
  PROVE  IInv'
  <1>1. /\ command \in ListCommand /\ command.pc = "open_info"
        /\ command' = [command EXCEPT !.pc = "list"]
        /\ file_info' = Empty(files_found.vol)
        /\ history' = [history EXCEPT !.listed = history.scanned, !.listed_all = FALSE]
        /\ UNCHANGED <<folder_table, files_found, eof, restored, at, commands, interrupts>>
    BY CommandShape DEF IInv, OpenInfo, At, Goto, Running
  <1>2. command' \in ListCommand /\ command'.pc = "list"
    BY <1>1 DEF ListCommand
  <1>3. /\ history' \in Known
        /\ history'.scanned = history.scanned /\ history'.scanned_all = history.scanned_all
        /\ history'.listed = history.scanned /\ ~history'.listed_all
        /\ history'.extracted = history.extracted /\ history'.spoilt = history.spoilt
    BY <1>1 DEF IInv, TypeOK, Known
  <1>4. /\ files_found.vol \in Volumes /\ Files[files_found.vol] \in Nat
        /\ files_found.n \in Nat /\ Exists(files_found)
    <2>1. Exists(files_found)
      BY <1>1 DEF IInv, TablesKnown
    <2> QED
      BY <2>1, PipelineAssumption DEF IInv, TypeOK, Exists
  <1>5. TypeOK'
    BY <1>1, <1>3, <1>4 DEF IInv, TypeOK, Empty
  <1>6. CommandOK'
    BY <1>1, <1>2 DEF IInv, CommandOK
  <1>7. TablesKnown' /\ TablesTogether'
    BY <1>1, <1>2, <1>3, <1>4
    DEF IInv, TablesKnown, TablesTogether, At, Whole, Empty, Exists
  <1>8. EofKnown'
    BY <1>1, <1>2, <1>3, SameEof DEF IInv, At
  <1>9. CopyGoing' /\ CopiesRight'
    BY <1>1, <1>2 DEF IInv, CopyGoing, CopiesRight, Restoring, RestoreCommand, At
  <1> QED
    BY <1>5, <1>6, <1>7, <1>8, <1>9 DEF IInv

LEMMA ListKeeps ==
  ASSUME IInv, List
  PROVE  IInv'
  <1>1. /\ command.pc = "list"
        /\ file_info.n < files_found.n
        /\ file_info' = Longer(file_info)
        /\ UNCHANGED <<folder_table, files_found, eof, restored, command, at, history,
                       commands, interrupts>>
    BY DEF List, At, Running
  <1>2. /\ file_info \in [vol : {files_found.vol}, n : 0 .. files_found.n]
        /\ Exists(files_found) /\ ~history.listed_all
    BY <1>1 DEF IInv, TablesKnown, At
  <1>3. /\ files_found.vol \in Volumes /\ Files[files_found.vol] \in Nat
        /\ files_found.n \in 0 .. Files[files_found.vol] + 1
    BY <1>2, PipelineAssumption DEF IInv, TypeOK, Exists
  <1>4. /\ file_info' \in [vol : {files_found.vol}, n : 0 .. files_found.n]
        /\ file_info'.vol = files_found.vol /\ file_info'.n \in 0 .. files_found.n
    BY <1>1, <1>2, <1>3 DEF Longer
  <1>5. TypeOK'
    <2>1. file_info'.n \in 0 .. Files[files_found.vol] + 1
      BY <1>3, <1>4
    <2> QED
      BY <1>1, <1>3, <1>4, <2>1 DEF IInv, TypeOK
  <1>6. CommandOK'
    BY <1>1 DEF IInv, CommandOK
  <1>7. TablesKnown' /\ TablesTogether'
    BY <1>1, <1>2, <1>4 DEF IInv, TablesKnown, TablesTogether, At, Whole, Exists
  <1>8. EofKnown'
    BY <1>1, SameEof DEF IInv, At
  <1>9. CopyGoing' /\ CopiesRight'
    BY <1>1 DEF IInv, CopyGoing, CopiesRight, Restoring, RestoreCommand, At
  <1> QED
    BY <1>5, <1>6, <1>7, <1>8, <1>9 DEF IInv

(* The entries of fileinfo.db are all there when those of a whole table    *)
(* have been gone through.                                                 *)
LEMMA ListEndsKeeps ==
  ASSUME IInv, ListEnds
  PROVE  IInv'
  <1>1. /\ command.pc = "list"
        /\ file_info.n >= files_found.n
        /\ command' = Idle /\ command'.pc = "idle"
        /\ history' = [history EXCEPT !.listed_all = history.scanned_all]
        /\ UNCHANGED <<tables, eof, restored, at, commands, interrupts>>
    BY DEF ListEnds, At, Running, Exit, Idle
  <1>2. /\ history' \in Known /\ history'.listed_all = history.scanned_all
        /\ history'.scanned = history.scanned /\ history'.scanned_all = history.scanned_all
        /\ history'.listed = history.listed
        /\ history'.extracted = history.extracted /\ history'.spoilt = history.spoilt
    BY <1>1 DEF IInv, TypeOK, Known
  <1>3. TypeOK'
    BY <1>1, <1>2 DEF IInv, TypeOK, tables
  <1>4. CommandOK'
    BY <1>1 DEF IInv, CommandOK
  <1>5. ASSUME history.scanned_all
        PROVE  history.listed \in Volumes /\ Whole(file_info, history.listed)
    <2>1. /\ history.listed = history.scanned /\ history.scanned \in Volumes
          /\ files_found = [vol |-> history.scanned, n |-> Files[history.scanned] + 1]
          /\ file_info \in [vol : {files_found.vol}, n : 0 .. files_found.n]
      BY <1>1, <1>5 DEF IInv, TablesKnown, TablesTogether, At
    <2>2. Files[history.scanned] \in Nat
      BY <2>1, PipelineAssumption
    <2>3. file_info.n = Files[history.scanned] + 1
      BY <1>1, <2>1, <2>2
    <2> QED
      BY <2>1, <2>3 DEF Whole
  <1>6. TablesKnown' /\ TablesTogether'
    BY <1>1, <1>2, <1>5 DEF IInv, TablesKnown, TablesTogether, At, Whole, tables
  <1>7. EofKnown'
    BY <1>1, <1>2, SameEof DEF IInv, At
  <1>8. CopyGoing' /\ CopiesRight'
    BY <1>1 DEF IInv, CopyGoing, CopiesRight, Restoring, RestoreCommand, At
  <1> QED
    BY <1>3, <1>4, <1>6, <1>7, <1>8 DEF IInv

-----------------------------------------------------------------------------
(* The ExtentsOverflowFile.                                                *)

LEMMA RestoreKeeps ==
  ASSUME IInv, NEW v \in Volumes, NEW what \in {"all", "one", "none"}, NEW number \in Nat,
         NEW ignore_eof \in BOOLEAN, NEW force_eof \in BOOLEAN,
         NEW force_block_size \in BOOLEAN,
         Restore(v, what, number, ignore_eof, force_eof, force_block_size),
         what = "all" => number = 0,
         ignore_eof => what = "all"
  PROVE  IInv'
  <1> DEFINE pc == IF ignore_eof THEN "copy" ELSE "stat_eof"
  <1>1. /\ command = Idle
        /\ command' = [pc |-> pc, vol |-> v, what |-> what, ignore_eof |-> ignore_eof,
                       force_eof |-> force_eof, force_block_size |-> force_block_size]
        /\ at' = number
        /\ history' = IF ignore_eof THEN history
                      ELSE [history EXCEPT !.extracted = @ \cup {v}]
        /\ UNCHANGED <<tables, eof, restored>>
    BY DEF Restore, Enter
  <1>2. /\ command' \in RestoreCommand /\ command'.pc = pc /\ command'.what = what
        /\ command'.vol = v /\ command'.ignore_eof = ignore_eof
    BY <1>1 DEF RestoreCommand
  <1>3. /\ history' \in Known
        /\ history'.scanned = history.scanned /\ history'.scanned_all = history.scanned_all
        /\ history'.listed = history.listed /\ history'.listed_all = history.listed_all
        /\ history.extracted \subseteq history'.extracted
        /\ ignore_eof \/ v \in history'.extracted
        /\ history'.spoilt = history.spoilt
    BY <1>1 DEF IInv, TypeOK, Known
  <1>4. TypeOK'
    <2>1. commands' \in 0 .. MaxCommands /\ interrupts' \in 0 .. MaxInterrupts
      BY PipelineAssumption DEF IInv, TypeOK, Restore, Enter
    <2> QED
      BY <1>1, <1>3, <2>1 DEF IInv, TypeOK, tables
  <1>5. CommandOK'
    BY <1>1, <1>2 DEF IInv, CommandOK
  <1>6. TablesKnown' /\ TablesTogether'
    BY <1>1, <1>2, <1>3, SameTables DEF IInv
  <1>7. EofKnown'
    BY <1>1, <1>2, <1>3 DEF IInv, EofKnown, At, Exists, Idle
  <1>8. CopyGoing' /\ CopiesRight'
    BY <1>1, <1>2 DEF IInv, CopyGoing, CopiesRight, At
  <1> QED
    BY <1>4, <1>5, <1>6, <1>7, <1>8 DEF IInv

LEMMA EofExistsKeeps ==
  ASSUME IInv, EofExists
  PROVE  IInv'
  <1>1. /\ command \in RestoreCommand /\ command.pc = "stat_eof"
        /\ UNCHANGED <<tables, eof, restored, at, history, commands, interrupts>>
    BY CommandShape DEF IInv, EofExists, At, Running
  <1>2. CASE Exit
    BY <1>1, <1>2, ExitKeeps DEF IInv, TypeOK, At
  <1>3. CASE Goto("open_eof") /\ command.what # "none"
    BY <1>1, <1>3, GotoKeeps DEF Goto, At, Running
  <1> QED
    BY <1>2, <1>3 DEF EofExists, Then

LEMMA CreateEofKeeps ==
  ASSUME IInv, CreateEof
  PROVE  IInv'
  <1>1. /\ command \in RestoreCommand /\ command.pc = "stat_eof"
        /\ command' = [command EXCEPT !.pc = "extract"]
        /\ eof' = Empty(command.vol)
        /\ UNCHANGED <<tables, restored, at, history, commands, interrupts>>
    BY CommandShape DEF IInv, CreateEof, At, Running, Goto
  <1>2. /\ command' \in RestoreCommand /\ command'.pc = "extract"
        /\ command'.vol = command.vol /\ command'.what = command.what
        /\ command'.ignore_eof = command.ignore_eof
    BY <1>1, GotoShape
  <1>3. command.vol \in Volumes
    BY <1>1 DEF RestoreCommand
  <1>4. TypeOK'
    BY <1>1, <1>3 DEF IInv, TypeOK, Empty, Table, tables
  <1>5. CommandOK'
    BY <1>1, <1>2 DEF IInv, CommandOK
  <1>6. TablesKnown' /\ TablesTogether'
    BY <1>1, <1>2, SameTables DEF IInv
  <1>7. EofKnown'
    <2>1. command.vol \in history.extracted
      BY <1>1 DEF IInv, EofKnown, At
    <2>2. eof'.vol = command.vol
      BY <1>1 DEF Empty
    <2> QED
      BY <1>1, <1>2, <1>3, <2>1, <2>2, PipelineAssumption DEF EofKnown, At, Exists, NoFile
  <1>8. CopyGoing' /\ CopiesRight'
    BY <1>1, <1>2, CarefulSame DEF IInv, CopyGoing, CopiesRight, Restoring, At
  <1> QED
    BY <1>4, <1>5, <1>6, <1>7, <1>8 DEF IInv
LEMMA ExtractKeeps ==
  ASSUME IInv, Extract
  PROVE  IInv'
  <1>1. /\ command.pc = "extract"
        /\ eof' = Longer(eof)
        /\ UNCHANGED <<tables, restored, command, at, history, commands, interrupts>>
    BY DEF Extract, At, Running
  <1>2. eof \in [vol : Volumes, n : Nat]
    BY <1>1 DEF IInv, TypeOK, EofKnown, At, Exists, Table
  <1>3. eof' \in [vol : Volumes, n : Nat] /\ eof'.vol = eof.vol
    BY <1>1, <1>2 DEF Longer
  <1>4. TypeOK'
    BY <1>1, <1>3 DEF IInv, TypeOK, Table, tables
  <1>5. CommandOK'
    BY <1>1 DEF IInv, CommandOK
  <1>6. TablesKnown' /\ TablesTogether'
    BY <1>1, SameTables DEF IInv
  <1>7. EofKnown'
    <2>1. eof # NoFile /\ eof' # NoFile
      BY <1>2, <1>3, PipelineAssumption DEF NoFile
    <2> QED
      BY <1>1, <1>3, <2>1 DEF IInv, EofKnown, At, Exists
  <1>8. CopyGoing' /\ CopiesRight'
    <2>1. Careful' <=> Careful
      BY <1>1 DEF Careful
    <2> QED
      BY <1>1, <2>1 DEF IInv, CopyGoing, CopiesRight, Restoring, At
  <1> QED
    BY <1>4, <1>5, <1>6, <1>7, <1>8 DEF IInv

LEMMA ExtractEndsKeeps ==
  ASSUME IInv, ExtractEnds
  PROVE  IInv'
  <1>1. /\ command \in RestoreCommand /\ command.pc = "extract"
        /\ eof.n >= Header[command.vol].held
        /\ UNCHANGED <<tables, eof, restored, at, history, commands, interrupts>>
    BY CommandShape DEF IInv, ExtractEnds, At, Running
  <1>2. eof.n >= Header[eof.vol].held
    BY <1>1 DEF IInv, EofKnown, At
  <1>3. CASE Exit
    BY <1>1, <1>2, <1>3, ExitKeeps DEF IInv, TypeOK
  <1>4. CASE Goto("open_eof") /\ command.what # "none"
    BY <1>1, <1>2, <1>4, GotoKeeps DEF Goto, At, Running
  <1> QED
    BY <1>3, <1>4 DEF ExtractEnds, Then

LEMMA OpenEofKeeps ==
  ASSUME IInv, OpenEof
  PROVE  IInv'
  <1>1. /\ command \in RestoreCommand /\ command.pc = "open_eof"
        /\ UNCHANGED <<tables, eof, restored, at, history, commands, interrupts>>
    BY CommandShape DEF IInv, OpenEof, At, Running
  <1>2. CASE Exit
    BY <1>1, <1>2, ExitKeeps DEF IInv, TypeOK, At
  <1>3. CASE Goto("copy") /\ eof.n > 0
    <2>1. command.what # "none"
      BY <1>1 DEF IInv, CommandOK
    <2> QED
      BY <1>1, <1>3, <2>1, GotoKeeps DEF Goto, At, Running
  <1> QED
    BY <1>2, <1>3 DEF OpenEof

LEMMA ExtractBlocksKeeps ==
  ASSUME IInv, NEW v \in Volumes, NEW n \in Nat, ExtractBlocks(v, n)
  PROVE  IInv'
  <1>1. /\ command = Idle /\ command' = Idle /\ command'.pc = "idle"
        /\ eof' = [vol |-> v, n |-> n]
        /\ history' = [history EXCEPT !.extracted = @ \cup {v}, !.spoilt = TRUE]
        /\ UNCHANGED <<tables, restored, at>>
    BY DEF ExtractBlocks, Enter, Idle
  <1>2. /\ history' \in Known
        /\ history'.scanned = history.scanned /\ history'.scanned_all = history.scanned_all
        /\ history'.listed = history.listed /\ history'.listed_all = history.listed_all
        /\ v \in history'.extracted /\ history'.spoilt
    BY <1>1 DEF IInv, TypeOK, Known
  <1>3. TypeOK'
    <2>1. commands' \in 0 .. MaxCommands /\ interrupts' \in 0 .. MaxInterrupts
      BY PipelineAssumption DEF IInv, TypeOK, ExtractBlocks, Enter
    <2> QED
      BY <1>1, <1>2, <2>1 DEF IInv, TypeOK, Table, tables
  <1>4. CommandOK'
    BY <1>1 DEF IInv, CommandOK
  <1>5. TablesKnown' /\ TablesTogether'
    BY <1>1, <1>2, SameTables DEF IInv
  <1>6. EofKnown'
    BY <1>1, <1>2 DEF EofKnown, At
  <1>7. CopyGoing' /\ CopiesRight'
    BY <1>1 DEF IInv, CopyGoing, CopiesRight, Restoring, RestoreCommand, At
  <1> QED
    BY <1>3, <1>4, <1>5, <1>6, <1>7 DEF IInv

LEMMA RemoveKeeps ==
  ASSUME IInv, NEW all \in BOOLEAN, Remove(all)
  PROVE  IInv'
  <1>1. /\ command = Idle /\ command' = Idle /\ command'.pc = "idle"
        /\ eof' = NoFile
        /\ restored' = IF all THEN [f \in {} |-> {}] ELSE restored
        /\ history' = [history EXCEPT !.extracted = {}, !.spoilt = FALSE]
        /\ UNCHANGED <<tables, at>>
    BY DEF Remove, Enter, Idle
  <1>2. /\ history' \in Known
        /\ history'.scanned = history.scanned /\ history'.scanned_all = history.scanned_all
        /\ history'.listed = history.listed /\ history'.listed_all = history.listed_all
    BY <1>1 DEF IInv, TypeOK, Known
  <1>3. TypeOK'
    <2>1. commands' \in 0 .. MaxCommands /\ interrupts' \in 0 .. MaxInterrupts
      BY PipelineAssumption DEF IInv, TypeOK, Remove, Enter
    <2> QED
      BY <1>1, <1>2, <2>1 DEF IInv, TypeOK, Table, tables
  <1>4. CommandOK'
    BY <1>1 DEF IInv, CommandOK
  <1>5. TablesKnown' /\ TablesTogether'
    BY <1>1, <1>2, SameTables DEF IInv
  <1>6. EofKnown'
    BY <1>1 DEF EofKnown, At, Exists
  <1>7. CopyGoing' /\ CopiesRight'
    BY <1>1 DEF IInv, CopyGoing, CopiesRight, Restoring, RestoreCommand, At
  <1> QED
    BY <1>3, <1>4, <1>5, <1>6, <1>7 DEF IInv

-----------------------------------------------------------------------------
(* The files.                                                              *)

(* What Put writes, and what it leaves.                                    *)
LEMMA PutOne ==
  ASSUME NEW content, Put(content)
  PROVE  /\ DOMAIN restored' = DOMAIN restored \cup {File}
         /\ restored'[File].content = content /\ restored'[File].careful = Careful
         /\ \A f \in DOMAIN restored : f # File => restored'[f] = restored[f]
  BY DEF Put

(* The entry a copy is at.                                                 *)
LEMMA EntryOK ==
  ASSUME IInv, command.pc \in {"copy", "write"}, at < file_info.n
  PROVE  /\ command \in RestoreCommand /\ command.what \in {"all", "one"}
         /\ file_info.vol \in Volumes
         /\ Files[file_info.vol] \in Nat
         /\ at \in 0 .. Files[file_info.vol]
         /\ file_info.n \in 0 .. Files[file_info.vol] + 1
  <1>1. at \in Nat /\ command \in RestoreCommand /\ command.what \in {"all", "one"}
    BY CommandShape DEF IInv, CommandOK
  <1>2. file_info # NoFile
    BY <1>1 DEF NoFile
  <1>3. /\ file_info.vol \in Volumes
        /\ file_info.n \in 0 .. Files[file_info.vol] + 1
    BY <1>2 DEF IInv, TypeOK
  <1>4. Files[file_info.vol] \in Nat
    BY <1>3, PipelineAssumption
  <1> QED
    BY <1>1, <1>3, <1>4

(* A careful step 3 for a volume goes through the whole list of its files. *)
LEMMA CarefulList ==
  ASSUME IInv, command \in RestoreCommand, Careful
  PROVE  /\ command.vol \in Volumes
         /\ file_info = [vol |-> command.vol, n |-> Files[command.vol] + 1]
  BY DEF IInv, TablesKnown, Careful, Whole, RestoreCommand

(* A step of the loop over the files, with at most one file written.       *)
LEMMA FollowingKeeps ==
  ASSUME IInv, command.pc \in {"copy", "write"}, at < file_info.n,
         Running, command' = [command EXCEPT !.pc = "copy"],
         at' = Following,
         UNCHANGED <<tables, eof, history>>,
         TypeOK', CopiesRight',
         \A f \in DOMAIN restored :
           f # File => f \in DOMAIN restored' /\ restored'[f] = restored[f],
         Careful /\ command.what = "all" => CopiedIn(restored', <<command.vol, at, "all">>)
  PROVE  IInv'
  <1>1. command \in RestoreCommand /\ at \in Nat /\ file_info.n \in Nat
        /\ command.what \in {"all", "one"}
    BY EntryOK
  <1>2. /\ command' \in RestoreCommand /\ command'.pc = "copy"
        /\ command'.vol = command.vol /\ command'.what = command.what
        /\ command'.ignore_eof = command.ignore_eof
    BY <1>1, GotoShape
  <1>3. at' \in Nat /\ (command.what = "all" => at' = at + 1)
    BY <1>1 DEF Following
  <1>4. CommandOK'
    BY <1>1, <1>2, <1>3 DEF IInv, CommandOK
  <1>5. TablesKnown' /\ TablesTogether'
    BY <1>2, SameTables DEF IInv
  <1>6. EofKnown'
    BY <1>2 DEF IInv, EofKnown, At, Exists
  <1>7. CopyGoing'
    <2>1. Careful' <=> Careful
      BY <1>2, CarefulSame
    <2>2. SUFFICES ASSUME command.what = "all", Careful, NEW k \in 0 .. at' - 1
                   PROVE  CopiedIn(restored', <<command.vol, k, "all">>)
      BY <1>2, <2>1 DEF CopyGoing, Restoring, At
    <2>3. CASE k = at
      BY <2>2, <2>3
    <2>4. CASE k \in 0 .. at - 1
      <3>1. CopiedIn(restored, <<command.vol, k, "all">>)
        BY <1>1, <2>2, <2>4 DEF IInv, CopyGoing, Restoring
      <3>2. <<command.vol, k, "all">> # File
        BY <1>1, <2>4 DEF File
      <3> QED
        BY <3>1, <3>2 DEF CopiedIn
    <2> QED
      BY <1>1, <1>3, <2>2, <2>3, <2>4
  <1> QED
    BY <1>4, <1>5, <1>6, <1>7 DEF IInv
LEMMA KeepFileKeeps ==
  ASSUME IInv, KeepFile
  PROVE  IInv'
  <1>1. /\ command.pc = "copy" /\ at < file_info.n
        /\ File \in DOMAIN restored /\ restored[File].content # "empty"
        /\ at' = Following
        /\ Running /\ UNCHANGED <<tables, eof, restored, command, history>>
    BY DEF KeepFile, Copying, Keep, At
  <1>2. command' = [command EXCEPT !.pc = "copy"]
    BY <1>1, EntryOK DEF RestoreCommand
  <1>3. TypeOK' /\ CopiesRight'
    BY <1>1 DEF IInv, TypeOK, CopiesRight, tables, Running
  <1>4. Careful /\ command.what = "all" => CopiedIn(restored', <<command.vol, at, "all">>)
    <2>1. CopiedIn(restored, File)
      BY <1>1 DEF IInv, TypeOK, CopiesRight, CopiedIn
    <2> QED
      BY <1>1, <2>1, EntryOK, CarefulList DEF File
  <1> QED
    BY <1>1, <1>2, <1>3, <1>4, FollowingKeeps

(* A careful run refuses no file: the header it has read holds the         *)
(* extents of the overflow file.                                           *)
LEMMA RefuseFileKeeps ==
  ASSUME IInv, RefuseFile
  PROVE  IInv'
  <1>1. /\ command.pc = "copy" /\ at < file_info.n
        /\ at > 0 /\ Header[command.vol].extents = "empty"
        /\ at' = Following
        /\ Running /\ UNCHANGED <<tables, eof, restored, command, history>>
    BY DEF RefuseFile, Copying, At
  <1>2. command' = [command EXCEPT !.pc = "copy"]
    BY <1>1, EntryOK DEF RestoreCommand
  <1>3. TypeOK' /\ CopiesRight'
    BY <1>1 DEF IInv, TypeOK, CopiesRight, tables, Running
  <1>4. ~Careful
    <2> SUFFICES ASSUME Careful
                 PROVE  FALSE
      OBVIOUS
    <2>1. /\ command.vol \in Volumes /\ file_info.vol = command.vol
          /\ at \in 0 .. Files[command.vol]
      BY <1>1, EntryOK, CarefulList
    <2>2. Header[command.vol].held = 0 /\ Files[command.vol] \in Nat
      BY <1>1, <2>1, PipelineAssumption
    <2> QED
      BY <1>1, <2>1, <2>2 DEF Careful
  <1> QED
    BY <1>1, <1>2, <1>3, <1>4, FollowingKeeps

LEMMA PutTyped ==
  ASSUME IInv, command.pc \in {"copy", "write"}, at < file_info.n,
         NEW content \in {"empty", "cut", "right", "short", "wrong"}, Put(content)
  PROVE  \A f \in DOMAIN restored' :
           /\ f[1] \in Volumes /\ f[2] \in 0 .. Files[f[1]] /\ f[3] \in {"all", "one"}
           /\ restored'[f].content \in {"empty", "cut", "right", "short", "wrong"}
           /\ restored'[f].careful \in BOOLEAN
  <1> SUFFICES ASSUME NEW f \in DOMAIN restored'
               PROVE  /\ f[1] \in Volumes /\ f[2] \in 0 .. Files[f[1]]
                      /\ f[3] \in {"all", "one"}
                      /\ restored'[f].content \in {"empty", "cut", "right", "short", "wrong"}
                      /\ restored'[f].careful \in BOOLEAN
    OBVIOUS
  <1>1. CASE f = File
    <2>1. f[1] = file_info.vol /\ f[2] = at /\ f[3] = command.what
      BY <1>1 DEF File
    <2>2. restored'[f].content = content /\ restored'[f].careful = Careful
      BY <1>1, PutOne
    <2>3. Careful \in BOOLEAN
      BY DEF Careful
    <2> QED
      BY <2>1, <2>2, <2>3, EntryOK
  <1>2. CASE f # File
    <2>1. f \in DOMAIN restored /\ restored'[f] = restored[f]
      BY <1>2, PutOne
    <2> QED
      BY <2>1 DEF IInv, TypeOK
  <1> QED
    BY <1>1, <1>2

LEMMA PutRight ==
  ASSUME CopiesRight, NEW content, Put(content),
         Careful => content \in {"right", "empty", "cut"}
  PROVE  CopiesRight'
  <1> SUFFICES ASSUME NEW f \in DOMAIN restored', restored'[f].careful
               PROVE  restored'[f].content \in {"right", "empty", "cut"}
    BY DEF CopiesRight
  <1>1. CASE f = File
    <2>1. restored'[f].content = content /\ restored'[f].careful = Careful
      BY <1>1, PutOne
    <2> QED
      BY <2>1
  <1>2. CASE f # File
    BY <1>2, PutOne DEF CopiesRight
  <1> QED
    BY <1>1, <1>2

LEMMA StartFileKeeps ==
  ASSUME IInv, StartFile
  PROVE  IInv'
  <1>1. /\ command.pc = "copy" /\ at < file_info.n
        /\ Put("empty")
        /\ command' = [command EXCEPT !.pc = "write"]
        /\ UNCHANGED <<tables, eof, at, history, commands, interrupts>>
    BY DEF StartFile, Copying, At, Goto, Running
  <1>2. command \in RestoreCommand /\ command.what \in {"all", "one"}
    BY <1>1, EntryOK
  <1>3. /\ command' \in RestoreCommand /\ command'.pc = "write"
        /\ command'.vol = command.vol /\ command'.what = command.what
        /\ command'.ignore_eof = command.ignore_eof
    BY <1>1, <1>2, GotoShape
  <1>4. TypeOK'
    <2>1. \A f \in DOMAIN restored' :
            /\ f[1] \in Volumes /\ f[2] \in 0 .. Files[f[1]] /\ f[3] \in {"all", "one"}
            /\ restored'[f].content \in {"empty", "cut", "right", "short", "wrong"}
            /\ restored'[f].careful \in BOOLEAN
      BY <1>1, PutTyped
    <2> QED
      BY <1>1, <2>1 DEF IInv, TypeOK, tables
  <1>5. CommandOK'
    BY <1>1, <1>2, <1>3 DEF IInv, CommandOK
  <1>6. TablesKnown' /\ TablesTogether'
    BY <1>1, <1>3, SameTables DEF IInv
  <1>7. EofKnown'
    BY <1>1, <1>3 DEF IInv, EofKnown, At, Exists
  <1>8. CopyGoing'
    <2>1. Careful' <=> Careful
      BY <1>1, <1>3, CarefulSame
    <2>2. File' = File
      BY <1>1, <1>3 DEF File, tables
    <2>3. /\ File \in DOMAIN restored' /\ restored'[File].content = "empty"
          /\ \A f \in DOMAIN restored :
               f # File => f \in DOMAIN restored' /\ restored'[f] = restored[f]
      BY <1>1, PutOne
    <2>4. ASSUME command.what = "all", Careful, NEW k \in 0 .. at - 1
          PROVE  CopiedIn(restored', <<command.vol, k, "all">>)
      <3>1. CopiedIn(restored, <<command.vol, k, "all">>)
        BY <1>2, <2>4 DEF IInv, CopyGoing, Restoring
      <3>2. <<command.vol, k, "all">> # File
        BY <1>1, <2>4, EntryOK DEF File
      <3> QED
        BY <2>3, <3>1, <3>2 DEF CopiedIn
    <2>5. At("write")' => /\ at' < file_info'.n
                          /\ File' \in DOMAIN restored' /\ restored'[File'].content = "empty"
      BY <1>1, <2>2, <2>3 DEF tables
    <2> QED
      BY <1>1, <1>3, <2>1, <2>4, <2>5 DEF CopyGoing, Restoring
  <1>9. CopiesRight'
    BY <1>1, PutRight DEF IInv
  <1> QED
    BY <1>4, <1>5, <1>6, <1>7, <1>8, <1>9 DEF IInv

(* A careful run copies a file right: its extents are those of the volume  *)
(* it is read from, and the ExtentsOverflowFile is this volume's and       *)
(* reaches to the last record.                                             *)
LEMMA CarefulContents ==
  ASSUME IInv, command.pc = "write", at < file_info.n, Careful
  PROVE  Contents = {"right"}
  <1>1. /\ command \in RestoreCommand /\ command.vol \in Volumes
        /\ file_info.vol = command.vol /\ at \in 0 .. Files[command.vol]
        /\ Files[command.vol] \in Nat
    BY EntryOK, CarefulList
  <1>2. ~command.ignore_eof /\ history.extracted = {command.vol} /\ ~history.spoilt
        /\ Header[command.vol].held >= Files[command.vol]
    BY DEF Careful
  <1>3. eof.n > 0 /\ eof \in Table
    BY <1>2 DEF IInv, EofKnown, TypeOK
  <1>4. Exists(eof) /\ eof.n \in Nat
    BY <1>3 DEF Exists, Table, NoFile
  <1>5. eof.vol = command.vol /\ eof.n >= Header[eof.vol].held
    BY <1>2, <1>4 DEF IInv, EofKnown, At
  <1>6. Header[command.vol].held \in Nat
    BY <1>1, PipelineAssumption DEF HeaderType
  <1>7. at <= eof.n
    BY <1>1, <1>2, <1>4, <1>5, <1>6
  <1> QED
    BY <1>1, <1>2, <1>5, <1>7 DEF Contents

LEMMA ContentsTyped == Contents \subseteq {"right", "short", "wrong"}
  BY DEF Contents

LEMMA EndFileKeeps ==
  ASSUME IInv, EndFile
  PROVE  IInv'
  <1>1. PICK content \in Contents : Put(content)
    BY DEF EndFile
  <1>2. /\ command.pc = "write" /\ at < file_info.n /\ File \in DOMAIN restored
        /\ command' = [command EXCEPT !.pc = "copy"]
        /\ at' = Following
        /\ Running /\ UNCHANGED <<tables, eof, history>>
    BY DEF EndFile, IInv, CopyGoing, At, Goto
  <1>3. content \in {"right", "short", "wrong"}
    BY <1>1, ContentsTyped
  <1>4. TypeOK'
    <2>1. \A f \in DOMAIN restored' :
            /\ f[1] \in Volumes /\ f[2] \in 0 .. Files[f[1]] /\ f[3] \in {"all", "one"}
            /\ restored'[f].content \in {"empty", "cut", "right", "short", "wrong"}
            /\ restored'[f].careful \in BOOLEAN
      BY <1>1, <1>2, <1>3, PutTyped
    <2> QED
      BY <1>2, <2>1 DEF IInv, TypeOK, tables, Running
  <1>5. CopiesRight'
    BY <1>1, <1>2, CarefulContents, PutRight DEF IInv
  <1>6. /\ File \in DOMAIN restored' /\ restored'[File].content = content
        /\ \A f \in DOMAIN restored :
             f # File => f \in DOMAIN restored' /\ restored'[f] = restored[f]
    BY <1>1, PutOne
  <1>7. Careful /\ command.what = "all" => CopiedIn(restored', <<command.vol, at, "all">>)
    <2> SUFFICES ASSUME Careful, command.what = "all"
                 PROVE  CopiedIn(restored', <<command.vol, at, "all">>)
      OBVIOUS
    <2>1. content = "right"
      BY <1>1, <1>2, CarefulContents
    <2>2. File = <<command.vol, at, "all">>
      BY <1>2, EntryOK, CarefulList DEF File
    <2> QED
      BY <1>6, <2>1, <2>2 DEF CopiedIn
  <1> QED
    BY <1>2, <1>4, <1>5, <1>6, <1>7, FollowingKeeps

LEMMA InterruptKeeps ==
  ASSUME IInv, Interrupt
  PROVE  IInv'
  <1>1. /\ command' = Idle /\ command'.pc = "idle"
        /\ history' = IF At("extract") THEN [history EXCEPT !.spoilt = TRUE] ELSE history
        /\ interrupts' \in 0 .. MaxInterrupts
        /\ UNCHANGED <<tables, eof, at, commands>>
    BY PipelineAssumption DEF IInv, TypeOK, Interrupt, Exit, Idle
  <1>2. /\ history' \in Known
        /\ history'.scanned = history.scanned /\ history'.scanned_all = history.scanned_all
        /\ history'.listed = history.listed /\ history'.listed_all = history.listed_all
        /\ history'.extracted = history.extracted
        /\ history.spoilt \/ At("extract") => history'.spoilt
    BY <1>1 DEF IInv, TypeOK, Known
  <1>3. /\ CopiesRight'
        /\ \A f \in DOMAIN restored' :
             /\ f[1] \in Volumes /\ f[2] \in 0 .. Files[f[1]] /\ f[3] \in {"all", "one"}
             /\ restored'[f].content \in {"empty", "cut", "right", "short", "wrong"}
             /\ restored'[f].careful \in BOOLEAN
    <2>1. CASE At("write")
      <3>1. PICK content \in {"empty", "cut"} : Put(content)
        BY <2>1 DEF Interrupt
      <3>2. command.pc = "write" /\ at < file_info.n
        BY <2>1 DEF IInv, CopyGoing, At
      <3> QED
        BY <3>1, <3>2, PutTyped, PutRight DEF IInv
    <2>2. CASE UNCHANGED restored
      BY <2>2 DEF IInv, TypeOK, CopiesRight
    <2> QED
      BY <2>1, <2>2 DEF Interrupt
  <1>4. TypeOK'
    BY <1>1, <1>2, <1>3 DEF IInv, TypeOK, tables
  <1>5. CommandOK'
    BY <1>1 DEF IInv, CommandOK
  <1>6. TablesKnown' /\ TablesTogether'
    BY <1>1, <1>2, SameTables DEF IInv
  <1>7. EofKnown'
    BY <1>1, <1>2, SameEof DEF IInv
  <1>8. CopyGoing'
    BY <1>1 DEF CopyGoing, Restoring, RestoreCommand, At
  <1> QED
    BY <1>3, <1>4, <1>5, <1>6, <1>7, <1>8 DEF IInv

-----------------------------------------------------------------------------
LEMMA InitIInv == Init => IInv
  <1> SUFFICES ASSUME Init
               PROVE  IInv
    OBVIOUS
  <1>1. TypeOK
    <2>1. history \in Known
      BY DEF Init, Known
    <2> QED
      BY <2>1, PipelineAssumption DEF Init, TypeOK, Table
  <1>2. command = Idle /\ command.pc = "idle"
    BY DEF Init, Idle
  <1>3. CommandOK /\ CopyGoing
    BY <1>2 DEF Init, CommandOK, CopyGoing, Restoring, RestoreCommand, At
  <1>4. TablesKnown /\ EofKnown /\ CopiesRight /\ TablesTogether
    BY <1>2 DEF Init, TablesKnown, EofKnown, CopiesRight, TablesTogether, At, Exists
  <1> QED
    BY <1>1, <1>3, <1>4 DEF IInv

LEMMA NextIInv ==
  ASSUME IInv, [Next]_vars
  PROVE  IInv'
  <1>1. ASSUME NEW v \in Volumes, NEW force \in BOOLEAN, Step1(v, force)
        PROVE  IInv'
    BY <1>1, Step1Keeps
  <1>2. CASE OpenFound \/ Scan \/ ScanEnds
    BY <1>2, OpenFoundKeeps, ScanKeeps, ScanEndsKeeps
  <1>3. CASE Step2 \/ OpenInfo \/ List \/ ListEnds
    BY <1>3, Step2Keeps, OpenInfoKeeps, ListKeeps, ListEndsKeeps
  <1>4. ASSUME NEW v \in Volumes, NEW ignore_eof \in BOOLEAN, NEW force_eof \in BOOLEAN,
               NEW b \in BOOLEAN, Step3(v, ignore_eof, force_eof, b)
        PROVE  IInv'
    BY <1>4, RestoreKeeps DEF Step3
  <1>5. ASSUME NEW v \in Volumes, NEW b \in BOOLEAN, ExtractEof(v, b)
        PROVE  IInv'
    BY <1>5, RestoreKeeps DEF ExtractEof
  <1>6. ASSUME NEW v \in Volumes, NEW number \in OneFiles, OneFile(v, number)
        PROVE  IInv'
    BY <1>6, RestoreKeeps, PipelineAssumption DEF OneFile
  <1>7. CASE EofExists \/ CreateEof \/ Extract \/ ExtractEnds \/ OpenEof
    BY <1>7, EofExistsKeeps, CreateEofKeeps, ExtractKeeps, ExtractEndsKeeps, OpenEofKeeps
  <1>8. CASE EofRefused
    BY <1>8, ExitKeeps DEF EofRefused, Running, At, IInv, TypeOK
  <1>9. ASSUME NEW v \in Volumes, NEW n \in 1 .. Files[v], ExtractBlocks(v, n)
        PROVE  IInv'
    <2>1. n \in Nat
      BY PipelineAssumption
    <2> QED
      BY <1>9, <2>1, ExtractBlocksKeeps
  <1>10. CASE KeepFile \/ RefuseFile \/ StartFile \/ EndFile
    BY <1>10, KeepFileKeeps, RefuseFileKeeps, StartFileKeeps, EndFileKeeps
  <1>11. CASE CopyEnds
    BY <1>11, ExitKeeps DEF CopyEnds, Running, At, IInv, TypeOK
  <1>12. CASE Interrupt
    BY <1>12, InterruptKeeps
  <1>13. ASSUME NEW all \in BOOLEAN, Remove(all)
         PROVE  IInv'
    BY <1>13, RemoveKeeps
  <1>14. CASE UNCHANGED vars
    <2>1. UNCHANGED <<folder_table, files_found, file_info, eof, restored, command, at,
                     history, commands, interrupts>>
      BY <1>14 DEF vars, tables
    <2>2. (Careful' <=> Careful) /\ File' = File /\ (Restoring' <=> Restoring)
      BY <2>1 DEF Careful, File, Restoring
    <2> QED
      BY <2>1, <2>2 DEF IInv, TypeOK, CommandOK, TablesKnown, EofKnown, CopyGoing,
         CopiesRight, TablesTogether, At, Whole, Exists
  <1> QED
    BY <1>1, <1>2, <1>3, <1>4, <1>5, <1>6, <1>7, <1>8, <1>9, <1>10, <1>11, <1>12, <1>13,
       <1>14 DEF Next

LEMMA Invariance == Spec => []IInv
  <1> QED
    BY InitIInv, NextIInv, PTL DEF Spec

(* Types and bounds of the shared files and of what the user knows.        *)
THEOREM TypeCorrect == Spec => []TypeOK
  <1>1. IInv => TypeOK
    BY DEF IInv
  <1> QED
    BY <1>1, Invariance, PTL

(* However the commands before it were mixed, forced, refused, interrupted *)
(* or repeated, and for however many volumes: a careful step 3 leaves a    *)
(* right copy of every file of which there was no copy with bytes, and the *)
(* copies a careful run made are right, unless it was interrupted in them. *)
THEOREM CarefulRestores == Spec => []CarefulRunRestores
  <1>1. IInv => CarefulRunRestores
    <2> SUFFICES ASSUME IInv
                 PROVE  CarefulRunRestores
      OBVIOUS
    <2>1. AllCopied
      <3> SUFFICES ASSUME At("copy"), command.what = "all", ~Copying, Careful,
                          NEW k \in 0 .. Files[command.vol]
                   PROVE  Copied(<<command.vol, k, "all">>)
        BY DEF AllCopied
      <3>1. command \in RestoreCommand
        BY CommandShape DEF IInv, At
      <3>2. command.vol \in Volumes /\ file_info.n = Files[command.vol] + 1
        BY <3>1, CarefulList
      <3>3. Files[command.vol] \in Nat /\ at \in Nat
        BY <3>2, PipelineAssumption DEF IInv, CommandOK
      <3>4. k \in 0 .. at - 1
        BY <3>2, <3>3 DEF Copying
      <3> QED
        BY <3>1, <3>4 DEF IInv, CopyGoing, Restoring, Copied, CopiedIn
    <2> QED
      BY <2>1 DEF IInv, CarefulRunRestores
  <1> QED
    BY <1>1, Invariance, PTL
-----------------------------------------------------------------------------
(* A step of step 3 or an interrupt that writes a file finds it empty, or  *)
(* not there.                                                              *)
LEMMA PutOverEmpty ==
  ASSUME NEW content, Put(content),
         File \in DOMAIN restored => restored[File].content = "empty",
         NEW f \in DOMAIN restored, restored[f].content # "empty"
  PROVE  restored'[f].content = restored[f].content
  BY PutOne

LEMMA NextRepairsNothing ==
  ASSUME IInv, [Next]_vars
  PROVE  /\ Exists(eof) /\ eof' # eof =>
              eof' = NoFile \/ (At("extract") /\ eof'.vol = eof.vol)
         /\ \A f \in DOMAIN restored :
              restored[f].content # "empty" =>
                restored' = [g \in {} |-> {}] \/ restored'[f].content = restored[f].content
  <1>1. CASE UNCHANGED <<eof, restored>>
    BY <1>1
  <1>2. CASE CreateEof \/ (\E v \in Volumes : \E n \in 1 .. Files[v] : ExtractBlocks(v, n))
    BY <1>2 DEF CreateEof, ExtractBlocks
  <1>3. CASE Extract
    <2>1. At("extract") /\ eof' = Longer(eof) /\ UNCHANGED restored
      BY <1>3 DEF Extract
    <2>2. eof \in [vol : Volumes, n : Nat]
      BY <2>1 DEF IInv, EofKnown, TypeOK, Table, Exists
    <2>3. eof'.vol = eof.vol
      BY <2>1, <2>2 DEF Longer
    <2> QED
      BY <2>1, <2>3
  <1>4. CASE \E all \in BOOLEAN : Remove(all)
    BY <1>4 DEF Remove
  <1>5. CASE StartFile
    BY <1>5, PutOverEmpty DEF StartFile, Keep
  <1>6. CASE EndFile
    BY <1>6, PutOverEmpty DEF EndFile, IInv, CopyGoing
  <1>7. CASE Interrupt
    BY <1>7, PutOverEmpty DEF Interrupt, IInv, CopyGoing
  <1> QED
    BY <1>1, <1>2, <1>3, <1>4, <1>5, <1>6, <1>7
    DEF Next, vars, Step1, OpenFound, Scan, ScanEnds, Step2, OpenInfo, List, ListEnds,
        Step3, OneFile, ExtractEof, Restore, EofExists, EofRefused, ExtractEnds, OpenEof,
        KeepFile, RefuseFile, CopyEnds

(* No command ever repairs what another one left: neither the file with    *)
(* the extents nor a copy with bytes in it.                                *)
THEOREM RepairsNothing == Spec => NothingRepaired
  <1>1. IInv /\ [Next]_vars =>
          [/\ Exists(eof) /\ eof' # eof =>
                eof' = NoFile \/ (At("extract") /\ eof'.vol = eof.vol)
           /\ \A f \in DOMAIN restored :
                restored[f].content # "empty" =>
                  restored' = [g \in {} |-> {}] \/ restored'[f].content = restored[f].content
          ]_vars
    BY NextRepairsNothing
  <1> QED
    BY <1>1, Invariance, PTL DEF Spec, NothingRepaired
=============================================================================
