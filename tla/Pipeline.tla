------------------------------ MODULE Pipeline ------------------------------
(***************************************************************************)
(* The commands of hfsprescue over the files they share: step 1 writes the *)
(* tables of what it found, step 2 makes fileinfo.db of one of them, step  *)
(* 3 extracts the ExtentsOverflowFile if there is none yet, loads it and   *)
(* copies the files of fileinfo.db (main, FindFiles, CleanupFileDatabase,  *)
(* RestoreFiles in src/hfsprescue.cpp; src/eof.cpp).  --one-file does that *)
(* for one file, and --extract-eof makes the ExtentsOverflowFile only.     *)
(*                                                                         *)
(* The user runs them in any order, with any volume: a device with the     *)
(* offset of a partition.  The program keeps no note of which one it was.  *)
(* SIGINT may end a command between any two steps, and leaves the files as *)
(* they are.                                                               *)
(*                                                                         *)
(* A volume has files 0, 1, ...: file 0 needs its own extents only, file k *)
(* the k-th block of the ExtentsOverflowFile.  The files of two volumes    *)
(* have different names.                                                   *)
(***************************************************************************)
EXTENDS Integers, FiniteSets

CONSTANTS
  Volumes,
  Files,         \* per volume, the number of the last file
  Header,        \* per volume, what the volume header says of the
                 \* ExtentsOverflowFile
  OneFiles,      \* the numbers asked for with --one-file
  MaxCommands,   \* bound: commands
  MaxInterrupts  \* bound: SIGINTs

(* extents: they begin with a block of the volume ("valid"), have a start  *)
(* without a length or the other way round, or are all empty; held: the    *)
(* blocks they and the size make up; magic: the first block is what it     *)
(* should be.                                                              *)
HeaderType == [extents : {"valid", "invalid", "empty"}, held : Nat, magic : BOOLEAN]

ASSUME PipelineAssumption ==
  /\ "none" \notin Volumes
  /\ \A v \in Volumes :
       /\ Files[v] \in Nat
       /\ Header[v] \in HeaderType
       /\ Header[v].extents # "valid" => Header[v].held = 0
  /\ OneFiles \subseteq Nat
  /\ MaxCommands \in Nat /\ MaxInterrupts \in Nat

NoFile == [vol |-> "none", n |-> 0]
Idle == [pc |-> "idle", vol |-> "none"]

(* A table or the ExtentsOverflowFile: whose it is, and how many entries   *)
(* or blocks it has.                                                       *)
Table == [vol : Volumes, n : Nat] \cup {NoFile}

Exists(t) == t # NoFile
Empty(v) == [vol |-> v, n |-> 0]
Longer(t) == [t EXCEPT !.n = @ + 1]

VARIABLES
  folder_table,  \* foldertable.db
  files_found,   \* filesfound.db
  file_info,     \* fileinfo.db
  eof,           \* restored/ExtentsOverflowFile
  restored,      \* the files below restored/
  command,       \* what is running, with its options
  at,            \* the entry step 3 is at
  history,       \* what the user knows, for the properties
  commands, interrupts

tables == <<folder_table, files_found, file_info>>
vars == <<tables, eof, restored, command, at, history, commands, interrupts>>

(* What the user knows.  scanned: the volume of the last step 1 that was   *)
(* not refused, and whether it came to its end; listed: the same of the    *)
(* last step 2; extracted: the volumes named in commands that may extract  *)
(* the ExtentsOverflowFile since it was removed; spoilt: one of them was   *)
(* interrupted while it did, or was told to take blocks by hand.           *)
Known == [scanned : Volumes \cup {"none"}, scanned_all : BOOLEAN,
          listed : Volumes \cup {"none"}, listed_all : BOOLEAN,
          extracted : SUBSET Volumes, spoilt : BOOLEAN]

Init ==
  /\ folder_table = NoFile /\ files_found = NoFile /\ file_info = NoFile
  /\ eof = NoFile
  /\ restored = [f \in {} |-> {}]
  /\ command = Idle /\ at = 0
  /\ history = [scanned |-> "none", scanned_all |-> FALSE, listed |-> "none",
                listed_all |-> FALSE, extracted |-> {}, spoilt |-> FALSE]
  /\ commands = 0 /\ interrupts = 0

-----------------------------------------------------------------------------
(* The user enters a command.                                              *)
Enter(c) ==
  /\ command = Idle
  /\ commands < MaxCommands
  /\ commands' = commands + 1
  /\ command' = c
  /\ UNCHANGED interrupts

At(pc) == command.pc = pc

Goto(pc) == command' = [command EXCEPT !.pc = pc]

Exit == command' = Idle

Running == UNCHANGED <<commands, interrupts>>

(* Slip of Step1: it opens the folder table before it looks.               *)
Step1_Early(v, force) ==
  LET refused == ~force /\ (Exists(folder_table) \/ Exists(files_found))
  IN /\ Enter(IF refused THEN Idle ELSE [pc |-> "open_found", vol |-> v])
     /\ folder_table' = Empty(v)
     /\ history' = IF refused THEN history
                   ELSE [history EXCEPT !.scanned = v, !.scanned_all = FALSE]
     /\ UNCHANGED <<files_found, file_info, eof, restored, at>>

(* -s1: refused when one of the tables exists, unless it is forced.        *)
Step1(v, force) ==
  /\ Enter([pc |-> "open_found", vol |-> v])
  /\ force \/ ~(Exists(folder_table) \/ Exists(files_found))
  /\ folder_table' = Empty(v)
  /\ history' = [history EXCEPT !.scanned = v, !.scanned_all = FALSE]
  /\ UNCHANGED <<files_found, file_info, eof, restored, at>>

OpenFound ==
  /\ At("open_found")
  /\ files_found' = Empty(command.vol)
  /\ Goto("scan")
  /\ Running /\ UNCHANGED <<folder_table, file_info, eof, restored, at, history>>

Scan ==
  /\ At("scan")
  /\ files_found.n <= Files[command.vol]
  /\ files_found' = Longer(files_found) /\ folder_table' = Longer(folder_table)
  /\ Running /\ UNCHANGED <<file_info, eof, restored, command, at, history>>

ScanEnds ==
  /\ At("scan")
  /\ files_found.n > Files[command.vol]
  /\ Exit
  /\ history' = [history EXCEPT !.scanned_all = TRUE]
  /\ Running /\ UNCHANGED <<tables, eof, restored, at>>

(* -s2, which knows no volume: up to the opening of fileinfo.db.           *)
Step2 ==
  /\ Exists(files_found)
  /\ Enter([pc |-> "open_info", vol |-> "none"])
  /\ UNCHANGED <<tables, eof, restored, at, history>>

(* Slip of OpenInfo: it is opened to be written on.                        *)
OpenInfo_Append ==
  /\ At("open_info")
  /\ file_info' = IF Exists(file_info) THEN file_info ELSE Empty(files_found.vol)
  /\ history' = [history EXCEPT !.listed = history.scanned, !.listed_all = FALSE]
  /\ Goto("list")
  /\ Running /\ UNCHANGED <<folder_table, files_found, eof, restored, at>>

OpenInfo ==
  /\ At("open_info")
  /\ file_info' = Empty(files_found.vol)
  /\ history' = [history EXCEPT !.listed = history.scanned, !.listed_all = FALSE]
  /\ Goto("list")
  /\ Running /\ UNCHANGED <<folder_table, files_found, eof, restored, at>>

List ==
  /\ At("list")
  /\ file_info.n < files_found.n
  /\ file_info' = Longer(file_info)
  /\ Running
  /\ UNCHANGED <<folder_table, files_found, eof, restored, command, at, history>>

ListEnds ==
  /\ At("list")
  /\ file_info.n >= files_found.n
  /\ Exit
  /\ history' = [history EXCEPT !.listed_all = history.scanned_all]
  /\ Running /\ UNCHANGED <<tables, eof, restored, at>>

(* What follows the extraction: step 3 opens the file.                     *)
Then == IF command.what = "none" THEN Exit ELSE Goto("open_eof")

(* What begins with the ExtentsOverflowFile, with --ignore-eof,            *)
(* --force-eof and -b (force_block_size).                                  *)
Restore(v, what, number, ignore_eof, force_eof, force_block_size) ==
  /\ Enter([pc |-> IF ignore_eof THEN "copy" ELSE "stat_eof", vol |-> v, what |-> what,
            ignore_eof |-> ignore_eof, force_eof |-> force_eof,
            force_block_size |-> force_block_size])
  /\ at' = number
  /\ history' = IF ignore_eof THEN history
                ELSE [history EXCEPT !.extracted = @ \cup {v}]
  /\ UNCHANGED <<tables, eof, restored>>

(* -s3.                                                                    *)
Step3(v, ignore_eof, force_eof, force_block_size) ==
  /\ Exists(file_info)
  /\ Restore(v, "all", 0, ignore_eof, force_eof, force_block_size)

(* --one-file (RestoreOneFile); a number the table does not have is passed *)
(* by.                                                                     *)
OneFile(v, number) ==
  /\ Exists(file_info)
  /\ Restore(v, "one", number, FALSE, FALSE, FALSE)

(* --extract-eof without blocks (use_vh).                                  *)
ExtractEof(v, force_block_size) == Restore(v, "none", 0, FALSE, FALSE, force_block_size)

(* ExtractExtentsOverflowFileAutomatic: an existing file is taken as it is.*)
EofExists ==
  /\ At("stat_eof")
  /\ Exists(eof)
  /\ Then
  /\ Running /\ UNCHANGED <<tables, eof, restored, at, history>>

(* No extraction with a forced block size, or when the header's extents    *)
(* contradict each other; the program ends.  (That it refuses a file of    *)
(* more than 1 GB, too, by a number of blocks it never set, is the same.)  *)
EofRefused ==
  /\ At("stat_eof")
  /\ ~Exists(eof)
  /\ command.force_block_size \/ Header[command.vol].extents = "invalid"
  /\ Exit
  /\ Running /\ UNCHANGED <<tables, eof, restored, at, history>>

CreateEof ==
  /\ At("stat_eof")
  /\ ~Exists(eof)
  /\ ~command.force_block_size /\ Header[command.vol].extents # "invalid"
  /\ eof' = Empty(command.vol)
  /\ Goto("extract")
  /\ Running /\ UNCHANGED <<tables, restored, at, history>>

(* RestoreUncompressedFile for the extents of the header: it is content    *)
(* with what they hold.                                                    *)
Extract ==
  /\ At("extract")
  /\ eof.n < Header[command.vol].held
  /\ eof' = Longer(eof)
  /\ Running /\ UNCHANGED <<tables, restored, command, at, history>>

ExtractEnds ==
  /\ At("extract")
  /\ eof.n >= Header[command.vol].held
  /\ Then
  /\ Running /\ UNCHANGED <<tables, eof, restored, at, history>>

(* EOF_OpenFile: the magic bytes must be there, and be right or forced.    *)
OpenEof ==
  /\ At("open_eof")
  /\ IF eof.n > 0 /\ (Header[eof.vol].magic \/ command.force_eof) THEN Goto("copy") ELSE Exit
  /\ Running /\ UNCHANGED <<tables, eof, restored, at, history>>

(* --extract-eof with blocks: n blocks of the volume from its              *)
(* ExtentsOverflowFile on, if it does not exist.                           *)
ExtractBlocks(v, n) ==
  /\ ~Exists(eof)
  /\ Enter(Idle)
  /\ eof' = [vol |-> v, n |-> n]
  /\ history' = [history EXCEPT !.extracted = @ \cup {v}, !.spoilt = TRUE]
  /\ UNCHANGED <<tables, restored, at>>

(* The file of an entry, in the directory of its parent or, when it is the *)
(* one asked for, in restored/ itself.                                     *)
File == <<file_info.vol, at, command.what>>

(* The entry that is next: none is behind the one asked for.               *)
Following == IF command.what = "all" THEN at + 1 ELSE file_info.n

Copying == At("copy") /\ at < file_info.n

(* Slip of Keep: files are always written again.                           *)
Keep_Never == FALSE

(* Slip of Keep: an empty file is kept as well.                            *)
Keep_Exists == File \in DOMAIN restored

(* RestoreFile leaves a file that exists and has bytes alone: it has the   *)
(* time of its entry, or if it was cut off that of now (entries with a     *)
(* time in the future are left out).                                       *)
Keep == File \in DOMAIN restored /\ restored[File].content # "empty"

KeepFile ==
  /\ Copying /\ Keep
  /\ at' = Following
  /\ Running /\ UNCHANGED <<tables, eof, restored, command, history>>

(* A file with overflow extents is refused when the header of the volume   *)
(* has no start of the ExtentsOverflowFile.                                *)
RefuseFile ==
  /\ Copying /\ ~Keep
  /\ at > 0 /\ Header[command.vol].extents = "empty"
  /\ at' = Following
  /\ Running /\ UNCHANGED <<tables, eof, restored, command, history>>

(* Nothing the user did by hand, or in the wrong order, and no extraction  *)
(* cut off, stands between this run and a right file.                      *)
Careful ==
  /\ ~command.ignore_eof
  /\ history.listed = command.vol /\ history.listed_all
  /\ history.extracted = {command.vol} /\ ~history.spoilt
  /\ Header[command.vol].held >= Files[command.vol]

Put(content) ==
  restored' = [f \in DOMAIN restored \cup {File} |->
                 IF f = File THEN [content |-> content, careful |-> Careful] ELSE restored[f]]

StartFile ==
  /\ Copying /\ ~Keep
  /\ at > 0 => Header[command.vol].extents # "empty"
  /\ Put("empty")
  /\ Goto("write")
  /\ Running /\ UNCHANGED <<tables, eof, at, history>>

(* What a copy becomes: the extents of the entry are read from the volume  *)
(* that is named, the others looked up in whatever file was loaded, where  *)
(* another volume's may have a record for the same number.                 *)
Contents ==
  IF file_info.vol # command.vol THEN {"wrong"}
  ELSE IF at = 0 THEN {"right"}
  ELSE IF command.ignore_eof THEN {"short"}
  ELSE IF eof.vol # command.vol THEN {"short", "wrong"}
  ELSE IF at <= eof.n THEN {"right"} ELSE {"short"}

EndFile ==
  /\ At("write")
  /\ \E content \in Contents : Put(content)
  /\ Goto("copy")
  /\ at' = Following
  /\ Running /\ UNCHANGED <<tables, eof, history>>

CopyEnds ==
  /\ At("copy") /\ ~Copying
  /\ Exit
  /\ Running /\ UNCHANGED <<tables, eof, restored, at, history>>

(* SigProc: what was written of a file stays, if only nothing.             *)
Interrupt ==
  /\ command # Idle
  /\ interrupts < MaxInterrupts
  /\ interrupts' = interrupts + 1
  /\ Exit
  /\ IF At("write") THEN \E content \in {"empty", "cut"} : Put(content)
                    ELSE UNCHANGED restored
  /\ history' = IF At("extract") THEN [history EXCEPT !.spoilt = TRUE] ELSE history
  /\ UNCHANGED <<tables, eof, at, commands>>

(* The user removes the ExtentsOverflowFile, or all of restored/, as the   *)
(* program's messages say.                                                 *)
Remove(all) ==
  /\ Exists(eof)
  /\ Enter(Idle)
  /\ eof' = NoFile
  /\ restored' = IF all THEN [f \in {} |-> {}] ELSE restored
  /\ history' = [history EXCEPT !.extracted = {}, !.spoilt = FALSE]
  /\ UNCHANGED <<tables, at>>

Next ==
  \/ \E v \in Volumes, force \in BOOLEAN : Step1(v, force)
  \/ OpenFound \/ Scan \/ ScanEnds
  \/ Step2 \/ OpenInfo \/ List \/ ListEnds
  \/ \E v \in Volumes : \/ Step3(v, TRUE, FALSE, FALSE)
                        \/ Step3(v, FALSE, TRUE, FALSE)
                        \/ \E b \in BOOLEAN : Step3(v, FALSE, FALSE, b) \/ ExtractEof(v, b)
                        \/ \E number \in OneFiles : OneFile(v, number)
  \/ EofExists \/ EofRefused \/ CreateEof \/ Extract \/ ExtractEnds \/ OpenEof
  \/ \E v \in Volumes : \E n \in 1 .. Files[v] : ExtractBlocks(v, n)
  \/ KeepFile \/ RefuseFile \/ StartFile \/ EndFile \/ CopyEnds
  \/ Interrupt
  \/ \E all \in BOOLEAN : Remove(all)

Spec == Init /\ [][Next]_vars

-----------------------------------------------------------------------------
(* Properties.                                                             *)

(* Shape of the files and of what runs; a table has no more entries than   *)
(* its volume has files, and none has been written to by two scans.        *)
TypeOK ==
  /\ \A t \in {folder_table, files_found, file_info} :
       t # NoFile => t.vol \in Volumes /\ t.n \in 0 .. Files[t.vol] + 1
  /\ eof \in Table
  /\ \A f \in DOMAIN restored :
       /\ f[1] \in Volumes /\ f[2] \in 0 .. Files[f[1]] /\ f[3] \in {"all", "one"}
       /\ restored[f].content \in {"empty", "cut", "right", "short", "wrong"}
       /\ restored[f].careful \in BOOLEAN
  /\ history \in Known
  /\ commands \in 0 .. MaxCommands /\ interrupts \in 0 .. MaxInterrupts

(* A file that was copied by a careful run is right, or was cut off.       *)
CopiesRight ==
  \A f \in DOMAIN restored :
    restored[f].careful => restored[f].content \in {"right", "empty", "cut"}

(* There is a right copy of a file, or one that a careful run leaves: it   *)
(* has bytes already, and is of an earlier run that was interrupted while  *)
(* it wrote it, or that was not careful.                                   *)
Copied(f) ==
  /\ f \in DOMAIN restored
  /\ \/ restored[f].content \in {"right", "cut"}
     \/ restored[f].content # "empty" /\ ~restored[f].careful

(* At its end that is so for every file of the volume.                     *)
AllCopied ==
  At("copy") /\ command.what = "all" /\ ~Copying /\ Careful =>
    \A k \in 0 .. Files[command.vol] : Copied(<<command.vol, k, "all">>)

(* After a whole step 1 both tables are of this scan, and stay so through  *)
(* commands that are refused.                                              *)
TablesTogether ==
  history.scanned_all =>
    /\ folder_table = files_found
    /\ files_found = [vol |-> history.scanned, n |-> Files[history.scanned] + 1]

(* Whatever commands were run before, for whatever volumes, forced,        *)
(* refused, interrupted or repeated: a step 3 for the volume that was last *)
(* scanned and listed to the end, with an ExtentsOverflowFile that was     *)
(* extracted for this volume only and without an interrupt, and whose      *)
(* extents the volume header holds all, leaves a right copy of every file  *)
(* of which there was no copy with bytes before.  Those that were there,   *)
(* short, wrong or cut off, it leaves as they are.                         *)
CarefulRunRestores == CopiesRight /\ AllCopied /\ TablesTogether

(* No command repairs what another one left: a file with bytes keeps its   *)
(* content, and the ExtentsOverflowFile, cut off or of another volume, is  *)
(* what every later command uses, until the user removes them.             *)
NothingRepaired ==
  [][ /\ Exists(eof) /\ eof' # eof => eof' = NoFile \/ (At("extract") /\ eof'.vol = eof.vol)
      /\ \A f \in DOMAIN restored :
           restored[f].content # "empty" =>
             restored' = [g \in {} |-> {}] \/ restored'[f].content = restored[f].content
    ]_vars
=============================================================================
