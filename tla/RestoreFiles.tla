---------------------------- MODULE RestoreFiles ----------------------------
(***************************************************************************)
(* Step 3 over the whole database: RestoreFiles goes through fileinfo.db   *)
(* and RestoreFile decides for each file whether, and under which name, it *)
(* is written (src/hfsprescue.cpp).  The database lists deleted files and  *)
(* older versions too, so that several entries have the same name in the   *)
(* same directory.                                                         *)
(*                                                                         *)
(* How a file is written is the matter of RestoreExtents; here an entry    *)
(* says how that ends.  A file on the disk is known by the entry it was    *)
(* written from, how far that got, and its time, on which the decisions    *)
(* for later entries rest.                                                 *)
(***************************************************************************)
EXTENDS Integers, Sequences

CONSTANTS
  Databases,     \* the databases to choose from
  Lists,         \* the file lists to choose from; NoList for none
  NoList,
  Now,           \* time of a file that is being written
  MaxNames,      \* 101, names AlternativeFileName tries before it gives up
  MaxInterrupts  \* bound: interrupted runs

(* How RestoreUncompressedFile ends: with the whole file, without the end  *)
(* of it, with a refusal before the file is opened (no start of the        *)
(* extents overflow file, or too many blocks), or without a file that      *)
(* could be opened.                                                        *)
Outcomes == {"whole", "short", "refused", "nocreate"}

(* An entry; its number is its place in the database.  It is usable when   *)
(* it is valid and its start block is not 0.  Compressed files never are:  *)
(* a valid one has no extents of its own.                                  *)
Entry == [name : STRING, id : Nat, time : Nat, size : Nat,
          usable : BOOLEAN, outcome : Outcomes]

(* An empty file has no end that could be missing.                         *)
ASSUME FilesAssumption ==
  /\ Databases \subseteq Seq(Entry)
  /\ \A d \in Databases : \A i \in DOMAIN d : d[i].outcome = "short" => d[i].size > 0
  /\ NoList \in Lists
  /\ \A l \in Lists \ {NoList} : l \subseteq Nat
  /\ Now \in Nat /\ MaxNames \in Nat \ {0} /\ MaxInterrupts \in Nat

VARIABLES
  db,            \* fileinfo.db
  alternative,   \* param_alternative_file_name
  ignore_error,  \* ignore_file_create_error
  file_list,     \* of the command line, or NoList
  start_number,  \* -c
  file_numbers,  \* of the list, still to be restored
  pc,            \* "load": in the loop; "restore", "write", "utime": in
                 \* RestoreFile; "done"; "failed": exit; "stopped": SIGINT
  at,            \* entries loaded
  path,          \* file_name of RestoreFile
  disk,          \* the files below restored/
  interrupts

vars == <<db, alternative, ignore_error, file_list, start_number, file_numbers,
          pc, at, path, disk, interrupts>>

setup == <<db, alternative, ignore_error, file_list, start_number>>

info == db[at]    \* file_info

(* A name: k-th of those tried for a name and a catalog id; the 0-th is    *)
(* the name itself, whatever the id.                                       *)
Base(e) == <<e.name, 0, 0>>
Name(e, k) == IF k = 0 THEN Base(e) ELSE <<e.name, e.id, k>>

FileExist(p) == p \in DOMAIN disk

(* The disk with the file f at p.                                          *)
Put(p, f) == [q \in DOMAIN disk \cup {p} |-> IF q = p THEN f ELSE disk[q]]

(* A file written from the entry v.                                        *)
File(v, part, size, mtime) ==
  [version |-> v, part |-> part, size |-> size, mtime |-> mtime]

Init ==
  /\ db \in Databases
  /\ alternative \in BOOLEAN /\ ignore_error \in BOOLEAN
  /\ file_list \in Lists
  /\ file_numbers = file_list
  /\ start_number = 1
  /\ pc = "load" /\ at = 0
  /\ path = <<>>
  /\ disk = [q \in {} |-> {}]
  /\ interrupts = 0

-----------------------------------------------------------------------------
(* RestoreFiles.                                                           *)

(* The next entry is skipped: it is before the start, not usable, or not   *)
(* in the list.                                                            *)
Passed(i) ==
  \/ i < start_number
  \/ ~db[i].usable
  \/ file_list # NoList /\ i \notin file_numbers

(* With a list, a usable entry ends the loop when no number is left.       *)
LastOfList(i, left) ==
  i >= start_number /\ db[i].usable /\ file_list # NoList /\ left = {}

SkipFile ==
  /\ pc = "load" /\ at < Len(db)
  /\ Passed(at + 1)
  /\ at' = at + 1
  /\ pc' = IF LastOfList(at + 1, file_numbers) THEN "done" ELSE "load"
  /\ UNCHANGED <<setup, file_numbers, path, disk, interrupts>>

TakeFile ==
  /\ pc = "load" /\ at < Len(db)
  /\ ~Passed(at + 1)
  /\ at' = at + 1
  /\ path' = Base(db[at + 1])
  /\ pc' = "restore"
  /\ UNCHANGED <<setup, file_numbers, disk, interrupts>>

Finish ==
  /\ pc = "load" /\ at = Len(db)
  /\ pc' = "done"
  /\ UNCHANGED <<setup, file_numbers, at, path, disk, interrupts>>

(* RestoreFile returns: the number is taken off the list.                  *)
Return ==
  IF file_list = NoList
  THEN pc' = "load" /\ UNCHANGED file_numbers
  ELSE /\ file_numbers' = file_numbers \ {at}
       /\ pc' = IF LastOfList(at, file_numbers') THEN "done" ELSE "load"

-----------------------------------------------------------------------------
(* RestoreFile.                                                            *)

(* Slip of Older: the versions are told apart the wrong way round.         *)
Older_Swapped(f, e) == f.mtime <= e.time

(* The file on the disk is as new as the entry or newer.                   *)
Older(f, e) == f.mtime >= e.time

(* Slip of Keeps: an empty file is kept for its time.                      *)
Keeps_Empty(f, e) == Older(f, e) \/ e.size = 0

(* The three reasons to keep the file on the disk; an empty one is always  *)
(* overwritten.                                                            *)
Keeps(f, e) == f.size > 0 /\ (Older(f, e) \/ e.size = 0)

KeepExisting ==
  /\ pc = "restore"
  /\ FileExist(path) /\ ~alternative
  /\ Keeps(disk[path], info)
  /\ Return
  /\ UNCHANGED <<setup, at, path, disk, interrupts>>

(* Slip of Free: any of the names will do.                                 *)
Free_Any(k) == k > 0

(* The k-th name is the first one that does not exist.                     *)
Free(k) ==
  /\ ~FileExist(Name(info, k))
  /\ \A j \in 0 .. k - 1 : FileExist(Name(info, j))

(* The name to write to: the file's own, or with --alternative one that is *)
(* free.                                                                   *)
Target(p) ==
  IF alternative /\ FileExist(path)
  THEN \E k \in 0 .. MaxNames - 1 : Free(k) /\ p = Name(info, k)
  ELSE p = path

(* What lies in the way does not keep the file from being written.         *)
GoesAhead == FileExist(path) /\ ~alternative => ~Keeps(disk[path], info)

Candidates == {Name(info, k) : k \in 0 .. MaxNames - 1}

(* All names are taken: the program exits.                                 *)
GiveUp ==
  /\ pc = "restore" /\ alternative
  /\ \A k \in 0 .. MaxNames - 1 : FileExist(Name(info, k))
  /\ pc' = "failed"
  /\ UNCHANGED <<setup, file_numbers, at, path, disk, interrupts>>

(* RestoreUncompressedFile refuses, before anything is opened.             *)
Refuse ==
  /\ pc = "restore" /\ GoesAhead
  /\ \E p \in Candidates : Target(p) /\ path' = p
  /\ info.outcome = "refused"
  /\ pc' = "utime"
  /\ UNCHANGED <<setup, file_numbers, at, disk, interrupts>>

(* The file cannot be created.  A name that is on the disk already can be  *)
(* written to, so nothing changes for utime either.                        *)
CreateFails ==
  /\ pc = "restore" /\ GoesAhead
  /\ info.outcome = "nocreate"
  /\ \E p \in Candidates : Target(p) /\ path' = p
  /\ IF ignore_error THEN Return ELSE pc' = "failed" /\ UNCHANGED file_numbers
  /\ UNCHANGED <<setup, at, disk, interrupts>>

(* fopen truncates the file; it has the time of now.                       *)
Create ==
  /\ pc = "restore" /\ GoesAhead
  /\ info.outcome \in {"whole", "short"}
  /\ \E p \in Candidates :
       Target(p) /\ path' = p /\ disk' = Put(p, File(at, "part", 0, Now))
  /\ pc' = "write"
  /\ UNCHANGED <<setup, file_numbers, at, interrupts>>

(* The first part of a longer file is on the disk.                         *)
WritePart ==
  /\ pc = "write"
  /\ info.size > 1 /\ disk[path].size = 0
  /\ disk' = Put(path, File(at, "part", 1, Now))
  /\ UNCHANGED <<setup, file_numbers, pc, at, path, interrupts>>

(* The rest of it, and fclose.                                             *)
Write ==
  /\ pc = "write"
  /\ disk' = Put(path, IF info.outcome = "whole"
                       THEN File(at, "whole", info.size, Now)
                       ELSE File(at, "short", 1, Now))
  /\ pc' = "utime"
  /\ UNCHANGED <<setup, file_numbers, at, path, interrupts>>

(* Slip of SetTime: the time is forgotten.                                 *)
SetTime_Not ==
  /\ pc = "utime"
  /\ Return
  /\ UNCHANGED <<setup, at, path, disk, interrupts>>

(* utime, also of a file that was there before a refusal.                  *)
SetTime ==
  /\ pc = "utime"
  /\ disk' = IF FileExist(path)
             THEN [disk EXCEPT ![path].mtime = info.time]
             ELSE disk
  /\ Return
  /\ UNCHANGED <<setup, at, path, interrupts>>

-----------------------------------------------------------------------------
(* SIGINT: SigProc exits, the file that is being written stays.            *)
Interrupt ==
  /\ pc \in {"load", "restore", "write", "utime"}
  /\ at > 0
  /\ interrupts < MaxInterrupts
  /\ interrupts' = interrupts + 1
  /\ pc' = "stopped"
  /\ UNCHANGED <<setup, file_numbers, at, path, disk>>

(* Slip of Continue: with the number behind the last file.                 *)
Continue_Next ==
  /\ pc = "stopped"
  /\ start_number' \in {1, at + 1}
  /\ file_numbers' = file_list
  /\ pc' = "load" /\ at' = 0
  /\ UNCHANGED <<db, alternative, ignore_error, file_list, path, disk, interrupts>>

(* The user runs step 3 again, with -c and the number of the last file, or *)
(* from the beginning.                                                     *)
Continue ==
  /\ pc = "stopped"
  /\ start_number' \in {1, at}
  /\ file_numbers' = file_list
  /\ pc' = "load" /\ at' = 0
  /\ UNCHANGED <<db, alternative, ignore_error, file_list, path, disk, interrupts>>

Next ==
  \/ SkipFile \/ TakeFile \/ Finish
  \/ KeepExisting \/ GiveUp \/ Refuse \/ CreateFails
  \/ Create \/ WritePart \/ Write \/ SetTime
  \/ Interrupt \/ Continue

Spec == Init /\ [][Next]_vars

-----------------------------------------------------------------------------
(* Properties.                                                             *)

TypeOK ==
  /\ pc \in {"load", "restore", "write", "utime", "done", "failed", "stopped"}
  /\ at \in 0 .. Len(db)
  /\ start_number = 1 \/ start_number \in DOMAIN db
  /\ pc \in {"restore", "write", "utime"} => at > 0 /\ path \in Candidates
  /\ pc = "write" => FileExist(path)
  /\ interrupts \in 0 .. MaxInterrupts
  /\ \A p \in DOMAIN disk :
       /\ disk[p] \in [version : DOMAIN db, part : {"part", "whole", "short"},
                       size : Nat, mtime : Nat]
       /\ p \in {Name(db[disk[p].version], k) : k \in 0 .. MaxNames - 1}

(* The entries whose file the user gets: usable and asked for, and not     *)
(* turned down.                                                            *)
Wanted ==
  {i \in DOMAIN db : /\ db[i].usable
                     /\ file_list = NoList \/ i \in file_list
                     /\ db[i].outcome \in {"whole", "short"}}

(* The versions of a file.                                                 *)
Versions(i) == {j \in Wanted : db[j].name = db[i].name /\ db[j].size > 0}

(* The file of i is the newest version of it, as far as it is recovered.   *)
HasLatest(i) ==
  LET p == Base(db[i]) IN
  /\ FileExist(p)
  /\ disk[p].version \in Versions(i)
  /\ disk[p].part = db[disk[p].version].outcome
  /\ \A j \in Versions(i) : db[j].time <= db[disk[p].version].time

(* Of all versions of a file the latest is kept, in whatever order the     *)
(* database has them, empty ones and copies with the same time among them. *)
LatestKept ==
  pc = "done" /\ ~alternative =>
    \A i \in Wanted : db[i].size > 0 => HasLatest(i)

(* A file with the time of now was being written when a run was            *)
(* interrupted.                                                            *)
CutOff(p) == interrupts > 0 /\ disk[p].mtime = Now

NoneRefused(name) == \A j \in DOMAIN db : db[j].name = name => db[j].outcome # "refused"

(* So it is, in whatever runs and however often they were interrupted,     *)
(* but for a file that was cut off, which keeps a version of it with bytes *)
(* only, and for one of which a version is refused.                        *)
LatestOrCutOff ==
  pc = "done" /\ ~alternative =>
    \A i \in Wanted :
      db[i].size > 0 /\ NoneRefused(db[i].name) =>
        LET p == Base(db[i]) IN
        \/ HasLatest(i)
        \/ FileExist(p) /\ CutOff(p) /\ disk[p].size > 0 /\ disk[p].version \in Versions(i)

(* Whatever is refused or interrupted: a version that is on the disk with  *)
(* content is never replaced by an older one, or by an empty one.  (One of *)
(* the future, which step 2 lets through up to its tolerance, can be: when *)
(* it was cut off it has the time of now.)                                 *)
NeverOlder ==
  \A p \in DOMAIN disk :
    LET old == disk[p] new == disk'[p] IN
    /\ old.size > 0 /\ new.version # old.version
    /\ interrupts = 0 \/ db[old.version].time <= Now
    =>
      /\ db[new.version].time > db[old.version].time
      /\ db[new.version].size > 0

(* With --alternative no file is overwritten, whoever wrote it and when.   *)
NothingOverwritten ==
  alternative =>
    \A p \in DOMAIN disk :
      /\ disk'[p].version = disk[p].version
      /\ disk[p].part # "part" => disk'[p].part = disk[p].part

(* No step of step 3, in any run, puts a worse file in a better one's      *)
(* place.                                                                  *)
VersionsKept == [][NeverOlder /\ NothingOverwritten]_vars

(* With --alternative every version is there in the end, also when runs    *)
(* were interrupted and continued: a file that was cut off gets a second,  *)
(* whole copy.  When the program exits because a name is taken too often,  *)
(* or a file cannot be created, every version before that one is there.    *)
AllVersionsThere ==
  pc \in {"done", "failed"} /\ alternative =>
    \A i \in Wanted :
      pc = "done" \/ i < at =>
        \E p \in DOMAIN disk : disk[p].version = i /\ disk[p].part = db[i].outcome

(* A file was written to the end and has the time of its own version, or   *)
(* it was cut off, unless a version of it is refused.                      *)
OwnTime ==
  pc = "done" =>
    \A p \in DOMAIN disk :
      LET v == disk[p].version IN
      NoneRefused(db[v].name) =>
        \/ disk[p].mtime = db[v].time /\ disk[p].part = db[v].outcome
        \/ CutOff(p)

(* When step 3 is done the user has what he asked for: the newest version  *)
(* of a file, or all of them, with their times, but for the one that each  *)
(* interrupt cut off.                                                      *)
RightVersions == LatestOrCutOff /\ AllVersionsThere /\ OwnTime
=============================================================================
