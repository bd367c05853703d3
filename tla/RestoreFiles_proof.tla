------------------------- MODULE RestoreFiles_proof -------------------------
(***************************************************************************)
(* Proofs that hold for every database, every file list, and any number    *)
(* of names and interrupts.                                                *)
(***************************************************************************)
EXTENDS RestoreFiles, TLAPS

InFile == pc \in {"restore", "write", "utime"}

Listed(i) == file_list = NoList \/ i \in file_list

(* The entries step 3 is through with, in this run or in the one it        *)
(* continues.                                                              *)
Reached(i) == i < start_number \/ i < at \/ (i = at /\ pc \in {"load", "done"})

Running ==
  /\ db \in Databases /\ file_list \in Lists
  /\ IF file_list = NoList THEN file_numbers = NoList ELSE file_numbers \subseteq file_list
  /\ InFile => info.usable /\ Listed(at) /\ at >= start_number
  /\ interrupts = 0 => start_number = 1
  /\ pc = "stopped" => interrupts # 0 /\ at > 0
  /\ pc = "done" => at = Len(db) \/ (file_list # NoList /\ file_numbers = {})
  /\ file_list # NoList =>
       \A i \in file_list \ file_numbers : i < at \/ (i = at /\ ~InFile)

(* The file that RestoreFile is about to write, or has written.            *)
Writing ==
  /\ pc = "restore" => path = Base(info)
  /\ InFile /\ ~alternative => path = Base(info)
  /\ pc = "write" =>
       /\ info.outcome \in {"whole", "short"}
       /\ disk[path].version = at /\ disk[path].part = "part"
       /\ disk[path].mtime = Now
  /\ pc = "utime" =>
       IF info.outcome = "refused"
       THEN FileExist(path) =>
              ~alternative /\ (disk[path].size > 0 => disk[path].mtime < info.time)
       ELSE /\ info.outcome \in {"whole", "short"}
            /\ FileExist(path)
            /\ disk[path].version = at /\ disk[path].part = info.outcome
            /\ disk[path].mtime = Now
            /\ info.size > 0 => disk[path].size > 0

(* A file on the disk that is being written from its entry, and has the    *)
(* time of now.                                                            *)
Fresh(p) == pc \in {"write", "utime"} /\ p = path /\ disk[p].version = at

(* What is on the disk was asked for, and is not older than its version.   *)
OnDisk ==
  \A p \in DOMAIN disk :
    LET v == disk[p].version IN
    /\ v \in Wanted
    /\ interrupts = 0 => v < at \/ (v = at /\ pc # "restore")
    /\ disk[p].size > 0 =>
         /\ db[v].size > 0
         /\ db[v].time <= Now \/ (interrupts = 0 /\ ~Fresh(p))
              => disk[p].mtime >= db[v].time

(* With --alternative each version that was reached has its own file.      *)
VersionsThere ==
  alternative =>
    \A i \in Wanted : Reached(i) =>
      \E p \in DOMAIN disk : disk[p].version = i /\ disk[p].part = db[i].outcome

(* A file that is not being written is whole and has the time of its       *)
(* version, or was cut off.                                                *)
OwnOrCut(p) ==
  LET v == disk[p].version IN
  \/ disk[p].mtime = db[v].time /\ disk[p].part = db[v].outcome
  \/ interrupts # 0 /\ disk[p].mtime = Now

Times ==
  \A p \in DOMAIN disk :
    ~Fresh(p) /\ NoneRefused(db[disk[p].version].name) => OwnOrCut(p)

(* Without --alternative there is for each version that was reached a file *)
(* that is as new or newer, or a newer version is still to come, which is  *)
(* the one that is written when the file is being replaced.                *)
Kept(i) ==
  LET p == Base(db[i]) IN
  FileExist(p) /\ disk[p].size > 0 /\ disk[p].mtime >= db[i].time

NewerToCome(i) == \E w \in Versions(i) : ~Reached(w) /\ db[w].time > db[i].time

Replacing(i) == pc \in {"write", "utime"} /\ db[i].name = info.name

NewestThere ==
  ~alternative =>
    \A i \in Wanted :
      db[i].size > 0 /\ Reached(i) /\ NoneRefused(db[i].name) =>
        NewerToCome(i) \/ (Kept(i) /\ ~Replacing(i))

IInv == TypeOK /\ Running /\ Writing /\ OnDisk /\ VersionsThere /\ Times /\ NewestThere
-----------------------------------------------------------------------------
(* The database, names, and the disk.                                      *)

LEMMA Sizes == Now \in Nat /\ MaxNames \in Nat /\ MaxNames >= 1 /\ MaxInterrupts \in Nat
  BY FilesAssumption

LEMMA DbType ==
  ASSUME db \in Databases
  PROVE  /\ Len(db) \in Nat /\ DOMAIN db = 1 .. Len(db)
         /\ \A i \in DOMAIN db :
              /\ db[i].time \in Nat /\ db[i].size \in Nat
              /\ db[i].usable \in BOOLEAN
              /\ db[i].outcome \in {"whole", "short", "refused", "nocreate"}
              /\ db[i].outcome = "short" => db[i].size > 0
  <1>1. db \in Seq(Entry)
    BY FilesAssumption
  <1>2. \A i \in DOMAIN db : db[i].outcome = "short" => db[i].size > 0
    BY FilesAssumption
  <1>3. Len(db) \in Nat /\ DOMAIN db = 1 .. Len(db) /\ \A i \in DOMAIN db : db[i] \in Entry
    BY <1>1
  <1>4. \A e \in Entry : /\ e.time \in Nat /\ e.size \in Nat
                        /\ e.usable \in BOOLEAN
                        /\ e.outcome \in {"whole", "short", "refused", "nocreate"}
    BY DEF Entry, Outcomes
  <1> QED
    BY <1>2, <1>3, <1>4

LEMMA Basics ==
  ASSUME IInv
  PROVE  /\ db \in Databases
         /\ Len(db) \in Nat /\ DOMAIN db = 1 .. Len(db)
         /\ at \in Nat /\ at <= Len(db)
         /\ start_number \in Nat /\ start_number >= 1
         /\ Wanted \subseteq 1 .. Len(db)
  <1>1. db \in Databases /\ at \in 0 .. Len(db)
        /\ (start_number = 1 \/ start_number \in DOMAIN db)
    BY DEF IInv, Running, TypeOK
  <1>2. Len(db) \in Nat /\ DOMAIN db = 1 .. Len(db)
    BY <1>1, DbType
  <1>3. Wanted \subseteq 1 .. Len(db)
    BY <1>2 DEF Wanted
  <1> QED
    BY <1>1, <1>2, <1>3

(* The entry RestoreFile is called for.                                    *)
LEMMA EntryOK ==
  ASSUME IInv, InFile
  PROVE  /\ at \in DOMAIN db /\ at \in Nat /\ at > 0
         /\ info.time \in Nat /\ info.size \in Nat
         /\ info.outcome \in {"whole", "short", "refused", "nocreate"}
         /\ info.outcome = "short" => info.size > 0
         /\ at \in Wanted <=> info.outcome \in {"whole", "short"}
         /\ path \in Candidates
  <1>1. at \in 0 .. Len(db) /\ at > 0 /\ path \in Candidates
    BY DEF IInv, TypeOK, InFile
  <1>2. Len(db) \in Nat /\ at \in DOMAIN db
    BY <1>1, Basics
  <1>3. info.usable /\ Listed(at) /\ db \in Databases
    BY DEF IInv, Running
  <1>4. at \in Wanted <=> info.outcome \in {"whole", "short"}
    BY <1>2, <1>3 DEF Listed, Wanted, info
  <1>5. /\ info.time \in Nat /\ info.size \in Nat
        /\ info.outcome \in {"whole", "short", "refused", "nocreate"}
        /\ info.outcome = "short" => info.size > 0
    BY <1>2, <1>3, DbType DEF info
  <1> QED
    BY <1>1, <1>2, <1>4, <1>5

LEMMA WantedSame ==
  ASSUME UNCHANGED <<db, file_list>>
  PROVE  Wanted' = Wanted /\ \A i : Versions(i)' = Versions(i)
  BY DEF Wanted, Versions

LEMMA SameBase ==
  ASSUME NEW e, NEW f
  PROVE  Base(e) = Base(f) <=> e.name = f.name
  BY DEF Base

LEMMA OwnBase ==
  ASSUME NEW e
  PROVE  Base(e) = Name(e, 0)
  BY DEF Name

(* All names of an entry begin with its name.                              *)
LEMMA NameOf ==
  ASSUME NEW p \in Candidates
  PROVE  p[1] = info.name
  BY DEF Candidates, Name, Base

LEMMA PutOne ==
  ASSUME NEW p, NEW v, NEW part, NEW size, NEW mtime,
         disk' = Put(p, File(v, part, size, mtime))
  PROVE  /\ DOMAIN disk' = DOMAIN disk \cup {p}
         /\ disk'[p].version = v /\ disk'[p].part = part
         /\ disk'[p].size = size /\ disk'[p].mtime = mtime
         /\ \A q \in DOMAIN disk : q # p => disk'[q] = disk[q]
  BY DEF Put, File

(* A file of the disk has one of the names of its version.                 *)
LEMMA FileOf ==
  ASSUME IInv, NEW p \in DOMAIN disk
  PROVE  /\ disk[p].version \in DOMAIN db
         /\ disk[p].size \in Nat /\ disk[p].mtime \in Nat
         /\ p[1] = db[disk[p].version].name
         /\ DOMAIN disk[p] = {"version", "part", "size", "mtime"}
         /\ disk[p].version \in Wanted
  <1>1. /\ disk[p] \in [version : DOMAIN db, part : {"part", "whole", "short"},
                        size : Nat, mtime : Nat]
        /\ p \in {Name(db[disk[p].version], k) : k \in 0 .. MaxNames - 1}
    BY DEF IInv, TypeOK
  <1>2. p[1] = db[disk[p].version].name
    BY <1>1 DEF Name, Base
  <1>3. disk[p].version \in Wanted
    BY DEF IInv, OnDisk
  <1> QED
    BY <1>1, <1>2, <1>3

(* The disk is well-typed when one file of the entry at hand is put on it. *)
LEMMA PutTyped ==
  ASSUME IInv, InFile, UNCHANGED <<db, at, alternative, start_number, interrupts>>,
         NEW p \in Candidates, NEW part \in {"part", "whole", "short"},
         NEW size \in Nat, NEW mtime \in Nat,
         disk' = Put(p, File(at, part, size, mtime)),
         path' = p, pc' \in {"write", "utime"}
  PROVE  TypeOK'
  <1>1. ASSUME NEW q \in DOMAIN disk'
        PROVE  /\ disk'[q] \in [version : DOMAIN db, part : {"part", "whole", "short"},
                                size : Nat, mtime : Nat]
               /\ q \in {Name(db[disk'[q].version], k) : k \in 0 .. MaxNames - 1}
    <2>1. CASE q = p
      <3>1. disk'[q] = File(at, part, size, mtime)
        BY <2>1 DEF Put
      <3>2. at \in DOMAIN db
        BY EntryOK
      <3> QED
        BY <2>1, <3>1, <3>2 DEF Candidates, info, File
    <2>2. CASE q # p
      <3>1. q \in DOMAIN disk /\ disk'[q] = disk[q]
        BY <2>2, PutOne
      <3> QED
        BY <3>1 DEF IInv, TypeOK
    <2> QED
      BY <2>1, <2>2
  <1>2. at > 0 /\ at \in 0 .. Len(db)
        /\ (start_number = 1 \/ start_number \in DOMAIN db)
        /\ interrupts \in 0 .. MaxInterrupts
    BY DEF IInv, TypeOK, InFile
  <1>3. path' \in DOMAIN disk' /\ path' \in Candidates'
    BY PutOne DEF Candidates, info, Name, Base
  <1> QED
    BY <1>1, <1>2, <1>3 DEF TypeOK, FileExist

(* So it is when no file is in the works and no version changes.           *)
LEMMA QuietTyped ==
  ASSUME IInv, UNCHANGED <<db, disk>>,
         pc' \in {"load", "done", "failed", "stopped"}, at' \in 0 .. Len(db),
         start_number' = 1 \/ start_number' \in DOMAIN db,
         interrupts' \in 0 .. MaxInterrupts
  PROVE  TypeOK' /\ Writing'
  <1>1. TypeOK'
    BY DEF IInv, TypeOK, Name, Base
  <1> QED
    BY <1>1 DEF Writing, InFile

-----------------------------------------------------------------------------
(* Steps that leave the disk alone.                                        *)

LEMMA QuietDisk ==
  ASSUME IInv, UNCHANGED <<db, alternative, file_list, disk, interrupts>>,
         pc \notin {"write", "utime"},
         \A v \in Nat : v < at \/ (v = at /\ pc # "restore")
                          => v < at' \/ (v = at' /\ pc' # "restore")
  PROVE  OnDisk' /\ Times'
  <1>1. Wanted' = Wanted /\ Wanted \subseteq Nat
    BY WantedSame, Basics
  <1>2. \A p : ~Fresh(p)
    BY DEF Fresh
  <1>3. OnDisk'
    BY <1>1, <1>2 DEF IInv, OnDisk
  <1>4. Times'
    BY <1>2 DEF IInv, Times, NoneRefused, OwnOrCut
  <1> QED
    BY <1>3, <1>4

LEMMA QuietStep ==
  ASSUME IInv, UNCHANGED <<db, alternative, file_list, disk, interrupts>>,
         pc \notin {"write", "utime"}, pc' \notin {"write", "utime"},
         \A i \in Wanted : Reached(i)' => Reached(i),
         \A v \in Nat : v < at \/ (v = at /\ pc # "restore")
                          => v < at' \/ (v = at' /\ pc' # "restore")
  PROVE  OnDisk' /\ VersionsThere' /\ Times' /\ NewestThere'
  <1>1. Wanted' = Wanted /\ \A i : Versions(i)' = Versions(i)
    BY WantedSame
  <1>3. OnDisk' /\ Times'
    BY QuietDisk
  <1>4. VersionsThere'
    BY <1>1 DEF IInv, VersionsThere
  <1>6. NewestThere'
    <2>1. \A i : ~Replacing(i)'
      BY DEF Replacing
    <2>2. \A i \in Wanted : (Kept(i)' <=> Kept(i)) /\ (NoneRefused(db[i].name)' <=> NoneRefused(db[i].name))
      BY DEF Kept, FileExist, Base, NoneRefused
    <2>3. \A i \in Wanted : NewerToCome(i) => NewerToCome(i)'
      BY <1>1 DEF NewerToCome, Versions
    <2> QED
      BY <1>1, <2>1, <2>2, <2>3 DEF IInv, NewestThere
  <1> QED
    BY <1>3, <1>4, <1>6

(* After an interrupt less is known, and what was being written is cut off. *)
LEMMA InterruptedStep ==
  ASSUME IInv, UNCHANGED <<db, alternative, file_list, disk>>,
         interrupts' # 0, pc' \notin {"write", "utime"},
         \A i \in Wanted : Reached(i)' => Reached(i)
  PROVE  OnDisk' /\ VersionsThere' /\ Times' /\ NewestThere'
  <1>1. Wanted' = Wanted /\ \A i : Versions(i)' = Versions(i)
    BY WantedSame
  <1>2. OnDisk'
    BY <1>1 DEF IInv, OnDisk
  <1>3. VersionsThere'
    BY <1>1 DEF IInv, VersionsThere
  <1>4. Times'
    <2> SUFFICES ASSUME NEW p \in DOMAIN disk, NoneRefused(db[disk[p].version].name)
                 PROVE  OwnOrCut(p)'
      BY DEF Times, NoneRefused
    <2>1. CASE Fresh(p)
      <3>1. pc \in {"write", "utime"} /\ p = path /\ disk[p].version = at
        BY <2>1 DEF Fresh
      <3>2. at \in Wanted
        BY <3>1, FileOf
      <3>3. disk[p].mtime = Now
        BY <3>1, <3>2 DEF IInv, Writing, Wanted, info
      <3> QED
        BY <3>3, Sizes DEF OwnOrCut
    <2>2. CASE ~Fresh(p)
      BY <2>2 DEF IInv, Times, OwnOrCut
    <2> QED
      BY <2>1, <2>2
  <1>5. NewestThere'
    <2>1. \A i : ~Replacing(i)'
      BY DEF Replacing
    <2>2. \A i \in Wanted : (Kept(i)' <=> Kept(i)) /\ (NoneRefused(db[i].name)' <=> NoneRefused(db[i].name))
      BY DEF Kept, FileExist, Base, NoneRefused
    <2>3. \A i \in Wanted : NewerToCome(i) => NewerToCome(i)'
      BY <1>1 DEF NewerToCome, Versions
    <2> QED
      BY <1>1, <2>1, <2>2, <2>3 DEF IInv, NewestThere
  <1> QED
    BY <1>2, <1>3, <1>4, <1>5

LEMMA SkipFileKeeps ==
  ASSUME IInv, SkipFile
  PROVE  IInv'
  <1>1. /\ pc = "load" /\ at < Len(db) /\ Passed(at + 1)
        /\ at' = at + 1
        /\ pc' = IF LastOfList(at + 1, file_numbers) THEN "done" ELSE "load"
        /\ UNCHANGED <<db, alternative, ignore_error, file_list, start_number,
                       file_numbers, path, disk, interrupts>>
    BY DEF SkipFile, setup
  <1>2. at \in Nat /\ Len(db) \in Nat
    BY Basics
  <1>3. TypeOK' /\ Writing'
    <2>1. (start_number = 1 \/ start_number \in DOMAIN db) /\ interrupts \in 0 .. MaxInterrupts
      BY DEF IInv, TypeOK
    <2> QED
      BY <1>1, <1>2, <2>1, QuietTyped
  <1>4. Running'
    <2>1. ~InFile /\ ~InFile'
      BY <1>1 DEF InFile
    <2>2. pc' = "done" => file_list # NoList /\ file_numbers = {}
      BY <1>1 DEF LastOfList
    <2>3. pc' # "stopped"
      BY <1>1
    <2>4. \A i \in Nat : i < at \/ i = at => i < at'
      BY <1>1, <1>2
    <2>5. file_list # NoList => file_list \subseteq Nat
      BY FilesAssumption DEF IInv, Running
    <2> QED
      BY <1>1, <2>1, <2>2, <2>3, <2>4, <2>5 DEF IInv, Running
  <1>6. \A i \in Wanted : Reached(i)' => Reached(i)
    <2> SUFFICES ASSUME NEW i \in Wanted, Reached(i)'
                 PROVE  Reached(i)
      OBVIOUS
    <2>1. i \in Nat
      BY DbType DEF IInv, Running, Wanted
    <2>2. CASE i = at + 1
      <3>1. i < start_number \/ (file_list # NoList /\ i \notin file_numbers)
        BY <1>1, <2>2 DEF Passed, Wanted
      <3>2. CASE file_list # NoList /\ i \notin file_numbers
        BY <1>2, <2>2, <3>2 DEF Wanted, IInv, Running
      <3> QED
        BY <3>1, <3>2 DEF Reached
    <2> QED
      BY <1>1, <1>2, <2>1, <2>2 DEF Reached
  <1>7. OnDisk' /\ VersionsThere' /\ Times' /\ NewestThere'
    BY <1>1, <1>2, <1>6, QuietStep
  <1> QED
    BY <1>3, <1>4, <1>7 DEF IInv

LEMMA TakeFileKeeps ==
  ASSUME IInv, TakeFile
  PROVE  IInv'
  <1>1. /\ pc = "load" /\ at < Len(db) /\ ~Passed(at + 1)
        /\ at' = at + 1 /\ path' = Base(db[at + 1])
        /\ pc' = "restore"
        /\ UNCHANGED <<db, alternative, ignore_error, file_list, start_number,
                       file_numbers, disk, interrupts>>
    BY DEF TakeFile, setup
  <1>2. at \in Nat /\ Len(db) \in Nat
    BY Basics
  <1>3. path' = Base(info)' /\ path' \in Candidates'
    <2>1. path' = Base(info)'
      BY <1>1 DEF info, Base
    <2> QED
      <3>1. path' = Name(info', 0)
        BY <2>1 DEF Name, Base
      <3>2. 0 \in 0 .. MaxNames - 1
        BY Sizes
      <3> QED
        BY <2>1, <3>1, <3>2 DEF Candidates
  <1>4. TypeOK'
    BY <1>1, <1>2, <1>3 DEF IInv, TypeOK
  <1>5. Running'
    <2>1. /\ db[at + 1].usable
          /\ file_list # NoList => at + 1 \in file_numbers
          /\ at + 1 >= start_number
      BY <1>1, <1>2, Basics DEF Passed
    <2>2. ASSUME file_list # NoList
          PROVE  at + 1 \in file_list
      BY <2>1, <2>2 DEF IInv, Running
    <2>3. ~InFile /\ InFile' /\ pc' # "done" /\ pc' # "stopped"
      BY <1>1 DEF InFile
    <2>4. info'.usable /\ Listed(at)' /\ at' >= start_number
      BY <1>1, <2>1, <2>2 DEF info, Listed
    <2>5. \A i \in Nat : i < at \/ i = at => i < at'
      BY <1>1, <1>2
    <2>6. file_list # NoList => file_list \subseteq Nat
      BY FilesAssumption DEF IInv, Running
    <2> QED
      BY <1>1, <2>3, <2>4, <2>5, <2>6 DEF IInv, Running
  <1>6. Writing'
    BY <1>1, <1>3 DEF Writing, InFile
  <1>7. OnDisk' /\ VersionsThere' /\ Times' /\ NewestThere'
    <2>1. \A i \in Wanted : Reached(i)' => Reached(i)
      BY <1>1, <1>2, DbType DEF IInv, Running, Wanted, Reached
    <2> QED
      BY <1>1, <1>2, <2>1, QuietStep
  <1> QED
    BY <1>4, <1>5, <1>6, <1>7 DEF IInv

LEMMA FinishKeeps ==
  ASSUME IInv, Finish
  PROVE  IInv'
  <1>1. /\ pc = "load" /\ at = Len(db) /\ pc' = "done"
        /\ UNCHANGED <<db, alternative, ignore_error, file_list, start_number,
                       file_numbers, at, path, disk, interrupts>>
    BY DEF Finish, setup
  <1>2. at \in Nat /\ Len(db) \in Nat
    BY Basics
  <1>3. TypeOK' /\ Writing'
    <2>1. /\ start_number = 1 \/ start_number \in DOMAIN db
          /\ interrupts \in 0 .. MaxInterrupts /\ at \in 0 .. Len(db)
      BY DEF IInv, TypeOK
    <2> QED
      BY <1>1, <2>1, QuietTyped
  <1>4. Running'
    BY <1>1 DEF IInv, Running, InFile
  <1>5. \A i \in Wanted : Reached(i)' => Reached(i)
    BY <1>1 DEF Reached
  <1>6. OnDisk' /\ VersionsThere' /\ Times' /\ NewestThere'
    BY <1>1, <1>5, QuietStep
  <1> QED
    BY <1>3, <1>4, <1>6 DEF IInv

-----------------------------------------------------------------------------
(* RestoreFile.                                                            *)

LEMMA ReturnKeepsRunning ==
  ASSUME IInv, InFile, Return,
         UNCHANGED <<db, alternative, ignore_error, file_list, start_number, at, interrupts>>
  PROVE  Running' /\ pc' \in {"load", "done"}
  <1>1. /\ pc' \in {"load", "done"}
        /\ file_list = NoList => pc' = "load" /\ file_numbers' = file_numbers
        /\ file_list # NoList => /\ file_numbers' = file_numbers \ {at}
                                 /\ pc' = "done" => file_numbers' = {}
    BY DEF Return, LastOfList
  <1>2. ~InFile'
    BY <1>1 DEF InFile
  <1>3. /\ db \in Databases /\ file_list \in Lists
        /\ IF file_list = NoList THEN file_numbers = NoList ELSE file_numbers \subseteq file_list
        /\ interrupts = 0 => start_number = 1
        /\ file_list # NoList => \A i \in file_list \ file_numbers : i < at
    BY DEF IInv, Running
  <1>4. ASSUME file_list # NoList, NEW i \in file_list \ file_numbers'
        PROVE  i < at \/ i = at
    BY <1>1, <1>3, <1>4
  <1> QED
    BY <1>1, <1>2, <1>3, <1>4 DEF Running

LEMMA QuietReturn ==
  ASSUME IInv, InFile, Return,
         UNCHANGED <<db, alternative, ignore_error, file_list, start_number, at, disk, interrupts>>
  PROVE  TypeOK' /\ Writing'
  <1>1. pc' \in {"load", "done"}
    BY ReturnKeepsRunning
  <1>2. /\ start_number = 1 \/ start_number \in DOMAIN db
        /\ interrupts \in 0 .. MaxInterrupts /\ at \in 0 .. Len(db)
    BY DEF IInv, TypeOK
  <1> QED
    BY <1>1, <1>2, QuietTyped

(* What has been reached when RestoreFile returns.                         *)
LEMMA ReachedNext ==
  ASSUME IInv, InFile, UNCHANGED <<start_number, at>>
  PROVE  /\ \A i \in Wanted : Reached(i)' => Reached(i) \/ i = at
         /\ pc' \notin {"load", "done"} => \A i \in Wanted : Reached(i)' => Reached(i)
  <1>1. at \in Nat /\ Wanted \subseteq 1 .. Len(db) /\ Len(db) \in Nat
    BY Basics
  <1> QED
    BY <1>1 DEF InFile, Reached

LEMMA KeepExistingKeeps ==
  ASSUME IInv, KeepExisting
  PROVE  IInv'
  <1>1. /\ pc = "restore" /\ FileExist(path) /\ ~alternative
        /\ Keeps(disk[path], info) /\ Return
        /\ UNCHANGED <<db, alternative, ignore_error, file_list, start_number,
                       at, path, disk, interrupts>>
    BY DEF KeepExisting, setup
  <1>2. InFile
    BY <1>1 DEF InFile
  <1>3. Running' /\ pc' \in {"load", "done"}
    BY <1>1, <1>2, ReturnKeepsRunning
  <1>4. TypeOK' /\ Writing'
    BY <1>1, <1>2, QuietReturn
  <1>5. OnDisk' /\ Times'
    BY <1>1, <1>3, QuietDisk
  <1>6. VersionsThere'
    BY <1>1 DEF VersionsThere
  <1>7. NewestThere'
    <2> SUFFICES ASSUME NEW i \in Wanted, db[i].size > 0, Reached(i)',
                        NoneRefused(db[i].name)
                 PROVE  NewerToCome(i)' \/ (Kept(i)' /\ ~Replacing(i)')
      <3>1. Wanted' = Wanted
        BY <1>1, WantedSame
      <3> QED
        BY <1>1, <3>1 DEF NewestThere, NoneRefused
    <2>1. ~Replacing(i)'
      BY <1>3 DEF Replacing
    <2>2. disk[path].size > 0 /\ (disk[path].mtime >= info.time \/ info.size = 0)
          /\ path = Base(info)
      BY <1>1 DEF Keeps, Older, IInv, Writing
    <2>3. disk[path].mtime \in Nat /\ db[i].time \in Nat /\ info.time \in Nat
      BY <1>1, <1>2, FileOf, EntryOK, DbType DEF FileExist, IInv, Running, Wanted
    <2>4. ASSUME info.name = db[i].name, info.size > 0, info.time >= db[i].time
          PROVE  Kept(i)'
      <3>1. Base(db[i]) = path /\ disk[path].mtime >= db[i].time
        BY <2>2, <2>3, <2>4 DEF Base
      <3> QED
        BY <1>1, <2>2, <3>1 DEF Kept, FileExist, Base
    <2>5. CASE i = at
      BY <2>1, <2>3, <2>4, <2>5 DEF info
    <2>6. CASE i # at
      <3>1. NewerToCome(i) \/ Kept(i)
        BY <1>1, <1>2, <2>6, ReachedNext DEF IInv, NewestThere
      <3>2. CASE Kept(i)
        BY <1>1, <2>1, <3>2 DEF Kept, FileExist, Base
      <3>3. CASE NewerToCome(i)
        <4>1. PICK w \in Versions(i) : ~Reached(w) /\ db[w].time > db[i].time
          BY <3>3 DEF NewerToCome
        <4>2. CASE w = at
          <5>1. info.name = db[i].name /\ info.size > 0 /\ info.time > db[i].time
            BY <4>1, <4>2 DEF Versions, info
          <5> QED
            BY <2>1, <2>3, <2>4, <5>1
        <4>3. CASE w # at
          <5>1. ~Reached(w)'
            BY <1>1, <1>2, <4>1, <4>3, ReachedNext DEF Versions
          <5>2. w \in Versions(i)'
            BY <1>1, WantedSame
          <5> QED
            BY <1>1, <4>1, <5>1, <5>2 DEF NewerToCome
        <4> QED
          BY <4>2, <4>3
      <3> QED
        BY <3>1, <3>2, <3>3
    <2> QED
      BY <2>5, <2>6
  <1> QED
    BY <1>3, <1>4, <1>5, <1>6, <1>7 DEF IInv

LEMMA GiveUpKeeps ==
  ASSUME IInv, GiveUp
  PROVE  IInv'
  <1>1. /\ pc = "restore" /\ pc' = "failed"
        /\ UNCHANGED <<db, alternative, ignore_error, file_list, start_number,
                       file_numbers, at, path, disk, interrupts>>
    BY DEF GiveUp, setup
  <1>2. InFile /\ ~InFile'
    BY <1>1 DEF InFile
  <1>3. TypeOK' /\ Writing'
    <2>1. /\ start_number = 1 \/ start_number \in DOMAIN db
          /\ interrupts \in 0 .. MaxInterrupts /\ at \in 0 .. Len(db)
      BY DEF IInv, TypeOK
    <2> QED
      BY <1>1, <2>1, QuietTyped
  <1>4. Running'
    BY <1>1, <1>2 DEF IInv, Running
  <1>5. OnDisk' /\ VersionsThere' /\ Times' /\ NewestThere'
    <2>1. \A i \in Wanted : Reached(i)' => Reached(i)
      BY <1>1, <1>2, ReachedNext
    <2> QED
      BY <1>1, <2>1, QuietStep
  <1> QED
    BY <1>3, <1>4, <1>5 DEF IInv

LEMMA CreateFailsKeeps ==
  ASSUME IInv, CreateFails
  PROVE  IInv'
  <1>1. /\ pc = "restore" /\ info.outcome = "nocreate"
        /\ Return \/ (pc' = "failed" /\ file_numbers' = file_numbers)
        /\ UNCHANGED <<db, alternative, ignore_error, file_list, start_number,
                       at, disk, interrupts>>
    BY DEF CreateFails, setup
  <1>2. InFile
    BY <1>1 DEF InFile
  <1>3. Running' /\ pc' \in {"load", "done", "failed"}
    <2>1. CASE Return
      BY <1>1, <1>2, <2>1, ReturnKeepsRunning
    <2>2. CASE pc' = "failed" /\ file_numbers' = file_numbers
      <3>1. ~InFile'
        BY <2>2 DEF InFile
      <3> QED
        BY <1>1, <1>2, <2>2, <3>1 DEF IInv, Running
    <2> QED
      BY <1>1, <2>1, <2>2
  <1>4. TypeOK' /\ Writing'
    <2>1. /\ start_number = 1 \/ start_number \in DOMAIN db
          /\ interrupts \in 0 .. MaxInterrupts /\ at \in 0 .. Len(db)
      BY DEF IInv, TypeOK
    <2> QED
      BY <1>1, <1>3, <2>1, QuietTyped
  <1>5. OnDisk' /\ VersionsThere' /\ Times' /\ NewestThere'
    <2>1. at \notin Wanted
      BY <1>1, <1>2, EntryOK
    <2>2. \A i \in Wanted : Reached(i)' => Reached(i)
      BY <1>1, <1>2, <2>1, ReachedNext
    <2> QED
      BY <1>1, <1>3, <2>2, QuietStep
  <1> QED
    BY <1>3, <1>4, <1>5 DEF IInv

(* What lies at the name that is written to: nothing, or, without          *)
(* --alternative, a file that is not worth keeping.                        *)
LEMMA TargetOf ==
  ASSUME IInv, pc = "restore", GoesAhead, NEW p \in Candidates, Target(p)
  PROVE  /\ ~alternative => p = Base(info) /\ p = path
         /\ alternative => p \notin DOMAIN disk
         /\ p \in DOMAIN disk /\ disk[p].size > 0
              => info.size > 0 /\ disk[p].mtime < info.time
  <1>1. ~alternative => p = Base(info) /\ p = path
    BY DEF Target, IInv, Writing
  <1>2. alternative => p \notin DOMAIN disk
    BY DEF Target, Free, FileExist
  <1>3. ASSUME p \in DOMAIN disk, disk[p].size > 0
        PROVE  info.size > 0 /\ disk[p].mtime < info.time
    <2>1. ~(disk[p].mtime >= info.time) /\ info.size # 0
      BY <1>1, <1>2, <1>3 DEF GoesAhead, FileExist, Keeps, Older
    <2>2. disk[p].mtime \in Nat
      BY <1>3, FileOf
    <2>3. info.time \in Nat /\ info.size \in Nat
      BY EntryOK DEF InFile
    <2> QED
      BY <2>1, <2>2, <2>3
  <1> QED
    BY <1>1, <1>2, <1>3

LEMMA RefuseKeeps ==
  ASSUME IInv, Refuse
  PROVE  IInv'
  <1>1. PICK p \in Candidates : Target(p) /\ path' = p
    BY DEF Refuse
  <1>2. /\ pc = "restore" /\ GoesAhead /\ info.outcome = "refused" /\ pc' = "utime"
        /\ UNCHANGED <<db, alternative, ignore_error, file_list, start_number,
                       file_numbers, at, disk, interrupts>>
    BY DEF Refuse, setup
  <1>3. InFile /\ InFile' /\ info' = info
    BY <1>2 DEF InFile, info
  <1>4. /\ ~alternative => p = Base(info)
        /\ alternative => p \notin DOMAIN disk
        /\ p \in DOMAIN disk /\ disk[p].size > 0 => disk[p].mtime < info.time
    BY <1>1, <1>2, TargetOf
  <1>5. TypeOK'
    <2>1. path' \in Candidates'
      BY <1>1, <1>3 DEF Candidates, Name, Base
    <2> QED
      BY <1>2, <2>1 DEF IInv, TypeOK, Name, Base
  <1>6. Running'
    BY <1>2, <1>3 DEF IInv, Running, Listed
  <1>7. Writing'
    <2>1. ~alternative => path' = Base(info')
      BY <1>1, <1>3, <1>4 DEF Base
    <2>2. FileExist(path)' => ~alternative /\ (disk'[path'].size > 0 => disk'[path'].mtime < info.time)
      BY <1>1, <1>2, <1>4 DEF FileExist
    <2> QED
      BY <1>2, <1>3, <2>1, <2>2 DEF Writing, Base
  <1>8. OnDisk' /\ Times'
    BY <1>2, QuietDisk
  <1>9. VersionsThere'
    <2>1. \A i \in Wanted : Reached(i)' => Reached(i)
      BY <1>2, <1>3, ReachedNext
    <2>2. Wanted' = Wanted
      BY <1>2, WantedSame
    <2> QED
      BY <1>2, <2>1, <2>2 DEF IInv, VersionsThere
  <1>10. NewestThere'
    <2> SUFFICES ASSUME ~alternative, NEW i \in Wanted, db[i].size > 0, Reached(i)',
                        NoneRefused(db[i].name)
                 PROVE  NewerToCome(i)' \/ (Kept(i)' /\ ~Replacing(i)')
      <3>1. Wanted' = Wanted
        BY <1>2, WantedSame
      <3> QED
        BY <1>2, <3>1 DEF NewestThere, NoneRefused
    <2>1. at \in DOMAIN db /\ db[at].outcome = "refused"
      BY <1>2, <1>3, EntryOK DEF info
    <2>2. ~Replacing(i)'
      BY <1>2, <1>3, <2>1 DEF Replacing, NoneRefused, info
    <2>3. \A j \in Wanted : Reached(j)' => Reached(j)
      BY <1>2, <1>3, ReachedNext
    <2>4. NewerToCome(i) \/ Kept(i)
      BY <2>3 DEF IInv, NewestThere
    <2>5. Kept(i) => Kept(i)'
      BY <1>2 DEF Kept, FileExist, Base
    <2>6. NewerToCome(i) => NewerToCome(i)'
      BY <1>2, <2>3, WantedSame DEF NewerToCome, Versions
    <2> QED
      BY <2>2, <2>4, <2>5, <2>6
  <1> QED
    BY <1>5, <1>6, <1>7, <1>8, <1>9, <1>10 DEF IInv

LEMMA CreateKeeps ==
  ASSUME IInv, Create
  PROVE  IInv'
  <1>1. PICK p \in Candidates :
          Target(p) /\ path' = p /\ disk' = Put(p, File(at, "part", 0, Now))
    BY DEF Create
  <1>2. /\ pc = "restore" /\ GoesAhead /\ info.outcome \in {"whole", "short"}
        /\ pc' = "write"
        /\ UNCHANGED <<db, alternative, ignore_error, file_list, start_number,
                       file_numbers, at, interrupts>>
    BY DEF Create, setup
  <1>3. InFile /\ InFile' /\ info' = info
    BY <1>2 DEF InFile, info
  <1>4. /\ ~alternative => p = Base(info) /\ p = path
        /\ alternative => p \notin DOMAIN disk
        /\ p \in DOMAIN disk /\ disk[p].size > 0
             => info.size > 0 /\ disk[p].mtime < info.time
    BY <1>1, <1>2, TargetOf
  <1>5. /\ DOMAIN disk' = DOMAIN disk \cup {p}
        /\ disk'[p].version = at /\ disk'[p].part = "part"
        /\ disk'[p].size = 0 /\ disk'[p].mtime = Now
        /\ \A q \in DOMAIN disk : q # p => disk'[q] = disk[q]
    BY <1>1, PutOne
  <1>6. TypeOK'
    BY <1>1, <1>2, <1>3, Sizes, PutTyped
  <1>7. Running'
    BY <1>2, <1>3 DEF IInv, Running, Listed
  <1>8. Writing'
    <2>1. ~alternative => path' = Base(info')
      BY <1>1, <1>3, <1>4 DEF Base
    <2> QED
      BY <1>1, <1>2, <1>3, <1>5, <2>1 DEF Writing
  <1>9. Wanted' = Wanted /\ at \in Wanted /\ \A i : Versions(i)' = Versions(i)
    BY <1>2, <1>3, WantedSame, EntryOK
  <1>10. \A q : ~Fresh(q)
    BY <1>2 DEF Fresh
  <1>11. OnDisk'
    <2> SUFFICES ASSUME NEW q \in DOMAIN disk'
                 PROVE  /\ disk'[q].version \in Wanted
                        /\ interrupts = 0 => disk'[q].version < at \/ disk'[q].version = at
                        /\ disk'[q].size > 0 =>
                             /\ db[disk'[q].version].size > 0
                             /\ db[disk'[q].version].time <= Now
                                  \/ (interrupts = 0 /\ ~Fresh(q)')
                                  => disk'[q].mtime >= db[disk'[q].version].time
      BY <1>2, <1>9 DEF OnDisk
    <2>1. CASE q = p
      BY <1>5, <1>9, <2>1
    <2>2. CASE q # p
      <3>1. q \in DOMAIN disk /\ disk'[q] = disk[q]
        BY <1>5, <2>2
      <3> QED
        BY <1>10, <3>1 DEF IInv, OnDisk
    <2> QED
      BY <2>1, <2>2
  <1>12. VersionsThere'
    <2>1. \A i \in Wanted : Reached(i)' => Reached(i)
      BY <1>2, <1>3, ReachedNext
    <2> SUFFICES ASSUME alternative, NEW i \in Wanted, Reached(i)
                 PROVE  \E q \in DOMAIN disk' : disk'[q].version = i /\ disk'[q].part = db[i].outcome
      BY <1>2, <1>9, <2>1 DEF VersionsThere
    <2>2. PICK q \in DOMAIN disk : disk[q].version = i /\ disk[q].part = db[i].outcome
      BY DEF IInv, VersionsThere
    <2> QED
      BY <1>4, <1>5, <2>2
  <1>13. Times'
    <2> SUFFICES ASSUME NEW q \in DOMAIN disk', ~Fresh(q)',
                        NoneRefused(db[disk'[q].version].name)
                 PROVE  OwnOrCut(q)'
      BY <1>2 DEF Times, NoneRefused
    <2>1. q # p
      BY <1>1, <1>2, <1>5 DEF Fresh
    <2>2. q \in DOMAIN disk /\ disk'[q] = disk[q]
      BY <1>5, <2>1
    <2> QED
      BY <1>2, <1>10, <2>2 DEF IInv, Times, OwnOrCut
  <1>14. NewestThere'
    <2> SUFFICES ASSUME ~alternative, NEW i \in Wanted, db[i].size > 0, Reached(i)',
                        NoneRefused(db[i].name)
                 PROVE  NewerToCome(i)' \/ (Kept(i)' /\ ~Replacing(i)')
      BY <1>2, <1>9 DEF NewestThere, NoneRefused
    <2>1. \A j \in Wanted : Reached(j)' => Reached(j)
      BY <1>2, <1>3, ReachedNext
    <2>2. NewerToCome(i) \/ Kept(i)
      BY <2>1 DEF IInv, NewestThere
    <2>3. NewerToCome(i) => NewerToCome(i)'
      BY <1>2, <1>9, <2>1 DEF NewerToCome, Versions
    <2>4. CASE Kept(i) /\ db[i].name = info.name
      <3>1. Base(db[i]) = p
        BY <1>4, <2>4 DEF Base
      <3>2. p \in DOMAIN disk /\ disk[p].size > 0 /\ disk[p].mtime >= db[i].time
        BY <2>4, <3>1 DEF Kept, FileExist
      <3>3. info.size > 0 /\ disk[p].mtime < info.time /\ info.time \in Nat
        BY <1>3, <1>4, <3>2, EntryOK
      <3>4. disk[p].mtime \in Nat /\ db[i].time \in Nat
        BY <3>2, FileOf, DbType DEF IInv, Running, Wanted
      <3>5. db[at].time > db[i].time /\ at \in Versions(i)
        BY <1>9, <2>4, <3>2, <3>3, <3>4 DEF Versions, info
      <3>6. ~Reached(at)'
        <4>1. at >= start_number /\ at \in Nat /\ start_number \in Nat
          BY <1>3, Basics DEF IInv, Running
        <4> QED
          BY <1>2, <4>1 DEF Reached
      <3> QED
        BY <1>2, <1>9, <3>5, <3>6 DEF NewerToCome
    <2>5. CASE Kept(i) /\ db[i].name # info.name
      <3>1. ~Replacing(i)'
        BY <1>2, <1>3, <2>5 DEF Replacing
      <3>2. Base(db[i]) # p
        BY <1>4, <2>5 DEF Base
      <3>3. Base(db[i]) \in DOMAIN disk' /\ disk'[Base(db[i])] = disk[Base(db[i])]
        BY <1>5, <2>5, <3>2 DEF Kept, FileExist
      <3>4. Kept(i)'
        BY <1>2, <2>5, <3>3 DEF Kept, FileExist, Base
      <3> QED
        BY <3>1, <3>4
    <2> QED
      BY <2>2, <2>3, <2>4, <2>5
  <1> QED
    BY <1>6, <1>7, <1>8, <1>11, <1>12, <1>13, <1>14 DEF IInv

(* While a file is written only that file changes.                         *)
LEMMA WriteStep ==
  ASSUME IInv, pc = "write", pc' \in {"write", "utime"},
         UNCHANGED <<db, alternative, ignore_error, file_list, start_number,
                     file_numbers, at, path, interrupts>>,
         NEW part \in {"part", "whole", "short"}, NEW size \in Nat,
         size > 0 => info.size > 0,
         disk' = Put(path, File(at, part, size, Now))
  PROVE  TypeOK' /\ Running' /\ OnDisk' /\ VersionsThere' /\ Times' /\ NewestThere'
  <1>1. InFile /\ InFile' /\ info' = info
    BY DEF InFile, info
  <1>2. /\ DOMAIN disk' = DOMAIN disk \cup {path}
        /\ disk'[path].version = at /\ disk'[path].size = size
        /\ disk'[path].mtime = Now
        /\ \A q \in DOMAIN disk : q # path => disk'[q] = disk[q]
    BY PutOne
  <1>3. /\ path \in DOMAIN disk /\ path \in Candidates
        /\ disk[path].version = at /\ disk[path].part = "part"
        /\ info.outcome \in {"whole", "short"} /\ at \in Wanted
    <2>1. /\ path \in DOMAIN disk
          /\ disk[path].version = at /\ disk[path].part = "part"
          /\ info.outcome \in {"whole", "short"}
      BY DEF IInv, TypeOK, Writing, FileExist
    <2> QED
      BY <1>1, <2>1, EntryOK
  <1>4. TypeOK'
    BY <1>1, <1>3, Sizes, PutTyped
  <1>5. Running'
    BY <1>1 DEF IInv, Running, Listed
  <1>6. Wanted' = Wanted /\ \A i : Versions(i)' = Versions(i)
    BY WantedSame
  <1>7. \A i \in Wanted : Reached(i)' => Reached(i)
    BY <1>1, ReachedNext
  <1>8. /\ \A q \in DOMAIN disk : q # path => ~Fresh(q) /\ ~Fresh(q)'
        /\ Fresh(path)'
    BY <1>2 DEF Fresh
  <1>9. OnDisk'
    <2> SUFFICES ASSUME NEW q \in DOMAIN disk'
                 PROVE  /\ disk'[q].version \in Wanted
                        /\ interrupts = 0 => disk'[q].version < at \/ disk'[q].version = at
                        /\ disk'[q].size > 0 =>
                             /\ db[disk'[q].version].size > 0
                             /\ db[disk'[q].version].time <= Now
                                  \/ (interrupts = 0 /\ ~Fresh(q)')
                                  => disk'[q].mtime >= db[disk'[q].version].time
      BY <1>6 DEF OnDisk
    <2>1. CASE q = path
      <3>1. info.time \in Nat /\ Now \in Nat
        BY <1>1, EntryOK, Sizes
      <3> QED
        BY <1>2, <1>3, <1>8, <2>1, <3>1 DEF info
    <2>2. CASE q # path
      <3>1. q \in DOMAIN disk /\ disk'[q] = disk[q] /\ ~Fresh(q)
        BY <1>2, <1>8, <2>2
      <3> QED
        BY <3>1 DEF IInv, OnDisk
    <2> QED
      BY <2>1, <2>2
  <1>10. VersionsThere'
    <2> SUFFICES ASSUME alternative, NEW i \in Wanted, Reached(i)
                 PROVE  \E q \in DOMAIN disk' : disk'[q].version = i /\ disk'[q].part = db[i].outcome
      BY <1>6, <1>7 DEF VersionsThere
    <2>1. PICK q \in DOMAIN disk : disk[q].version = i /\ disk[q].part = db[i].outcome
      BY DEF IInv, VersionsThere
    <2>2. q # path
      BY <1>3, <2>1 DEF Wanted
    <2> QED
      BY <1>2, <2>1, <2>2
  <1>11. Times'
    <2> SUFFICES ASSUME NEW q \in DOMAIN disk', ~Fresh(q)',
                        NoneRefused(db[disk'[q].version].name)
                 PROVE  OwnOrCut(q)'
      BY DEF Times, NoneRefused
    <2>1. q \in DOMAIN disk /\ disk'[q] = disk[q] /\ ~Fresh(q)
      BY <1>2, <1>8
    <2> QED
      BY <2>1 DEF IInv, Times, OwnOrCut
  <1>12. NewestThere'
    <2> SUFFICES ASSUME ~alternative, NEW i \in Wanted, db[i].size > 0, Reached(i),
                        NoneRefused(db[i].name)
                 PROVE  NewerToCome(i)' \/ (Kept(i)' /\ ~Replacing(i)')
      BY <1>6, <1>7 DEF NewestThere, NoneRefused
    <2>1. NewerToCome(i) \/ (Kept(i) /\ ~Replacing(i))
      BY DEF IInv, NewestThere
    <2>2. NewerToCome(i) => NewerToCome(i)'
      BY <1>6, <1>7 DEF NewerToCome, Versions
    <2>3. ASSUME Kept(i), ~Replacing(i)
          PROVE  Kept(i)' /\ ~Replacing(i)'
      <3>1. Base(db[i]) # path
        BY <1>1, <2>3 DEF Replacing, Base, IInv, Writing
      <3>2. Base(db[i]) \in DOMAIN disk' /\ disk'[Base(db[i])] = disk[Base(db[i])]
        BY <1>2, <2>3, <3>1 DEF Kept, FileExist
      <3>3. Kept(i)'
        BY <2>3, <3>2 DEF Kept, FileExist, Base
      <3>4. ~Replacing(i)'
        BY <1>1, <2>3 DEF Replacing
      <3> QED
        BY <3>3, <3>4
    <2> QED
      BY <2>1, <2>2, <2>3
  <1> QED
    BY <1>4, <1>5, <1>9, <1>10, <1>11, <1>12

LEMMA WritePartKeeps ==
  ASSUME IInv, WritePart
  PROVE  IInv'
  <1>1. /\ pc = "write" /\ info.size > 1 /\ pc' = "write"
        /\ disk' = Put(path, File(at, "part", 1, Now))
        /\ UNCHANGED <<db, alternative, ignore_error, file_list, start_number,
                       file_numbers, at, path, interrupts>>
    BY DEF WritePart, setup
  <1>2. info.size \in Nat
    BY <1>1, EntryOK DEF InFile
  <1>3. TypeOK' /\ Running' /\ OnDisk' /\ VersionsThere' /\ Times' /\ NewestThere'
    BY <1>1, <1>2, WriteStep
  <1>4. Writing'
    <2>1. disk'[path].version = at /\ disk'[path].part = "part" /\ disk'[path].mtime = Now
      BY <1>1 DEF Put, File
    <2>2. info.outcome \in {"whole", "short"} /\ (~alternative => path = Base(info))
      BY <1>1 DEF IInv, Writing, InFile
    <2> QED
      BY <1>1, <2>1, <2>2 DEF Writing, info, Base
  <1> QED
    BY <1>3, <1>4 DEF IInv

LEMMA WriteKeeps ==
  ASSUME IInv, Write
  PROVE  IInv'
  <1>1. /\ pc = "write" /\ pc' = "utime"
        /\ UNCHANGED <<db, alternative, ignore_error, file_list, start_number,
                       file_numbers, at, path, interrupts>>
    BY DEF Write, setup
  <1>2. info.size \in Nat /\ (info.outcome = "short" => info.size > 0)
    BY <1>1, EntryOK DEF InFile
  <1>3. info.outcome \in {"whole", "short"} /\ (~alternative => path = Base(info))
    BY <1>1 DEF IInv, Writing, InFile
  <1>4. PICK size \in Nat :
          /\ disk' = Put(path, File(at, info.outcome, size, Now))
          /\ size > 0 <=> info.size > 0
    <2>1. CASE info.outcome = "whole"
      BY <1>2, <2>1 DEF Write
    <2>2. CASE info.outcome = "short"
      <3>1. disk' = Put(path, File(at, info.outcome, 1, Now))
        BY <2>2 DEF Write
      <3> QED
        BY <1>2, <2>2, <3>1
    <2> QED
      BY <1>3, <2>1, <2>2
  <1>5. TypeOK' /\ Running' /\ OnDisk' /\ VersionsThere' /\ Times' /\ NewestThere'
    BY <1>1, <1>3, <1>4, WriteStep
  <1>6. Writing'
    <2>1. /\ disk'[path].version = at /\ disk'[path].part = info.outcome
          /\ disk'[path].size = size /\ disk'[path].mtime = Now /\ path \in DOMAIN disk'
      <3>1. disk' = Put(path, File(at, info.outcome, size, Now))
        BY <1>4
      <3> QED
        BY <1>4, <3>1 DEF Put, File
    <2> QED
      BY <1>1, <1>3, <1>4, <2>1 DEF Writing, info, Base, FileExist
  <1> QED
    BY <1>5, <1>6 DEF IInv

(* utime changes nothing but the time of the file.                         *)
LEMMA TimeSet ==
  ASSUME IInv, SetTime
  PROVE  /\ DOMAIN disk' = DOMAIN disk
         /\ \A q \in DOMAIN disk :
              /\ disk'[q].version = disk[q].version
              /\ disk'[q].part = disk[q].part /\ disk'[q].size = disk[q].size
              /\ disk'[q].mtime = IF q = path THEN info.time ELSE disk[q].mtime
              /\ disk'[q] \in [version : DOMAIN db, part : {"part", "whole", "short"},
                               size : Nat, mtime : Nat]
  <1>1. CASE FileExist(path)
    <2>1. disk' = [disk EXCEPT ![path].mtime = info.time]
      BY <1>1 DEF SetTime
    <2>2. DOMAIN disk' = DOMAIN disk /\ \A q \in DOMAIN disk : q # path => disk'[q] = disk[q]
      BY <2>1, Zenon
    <2>3. path \in DOMAIN disk /\ disk'[path] = [disk[path] EXCEPT !.mtime = info.time]
      BY <1>1, <2>1, Zenon DEF FileExist
    <2>4. ASSUME NEW q \in DOMAIN disk
          PROVE  disk[q] \in [version : DOMAIN db, part : {"part", "whole", "short"},
                              size : Nat, mtime : Nat]
      BY DEF IInv, TypeOK
    <2>5. info.time \in Nat
      <3>1. InFile
        BY DEF SetTime, InFile
      <3> QED
        BY <3>1, EntryOK
    <2>6. /\ disk'[path].version = disk[path].version
          /\ disk'[path].part = disk[path].part /\ disk'[path].size = disk[path].size
          /\ disk'[path].mtime = info.time
          /\ disk'[path] \in [version : DOMAIN db, part : {"part", "whole", "short"},
                              size : Nat, mtime : Nat]
      BY <2>3, <2>4, <2>5
    <2> QED
      BY <2>2, <2>4, <2>6
  <1>2. CASE ~FileExist(path)
    <2>1. disk' = disk
      BY <1>2 DEF SetTime
    <2> QED
      BY <1>2, <2>1 DEF FileExist, IInv, TypeOK
  <1> QED
    BY <1>1, <1>2

LEMMA SetTimeKeeps ==
  ASSUME IInv, SetTime
  PROVE  IInv'
  <1>1. /\ pc = "utime" /\ Return
        /\ UNCHANGED <<db, alternative, ignore_error, file_list, start_number,
                       at, path, interrupts>>
    BY DEF SetTime, setup
  <1>2. InFile
    BY <1>1 DEF InFile
  <1>3. Running' /\ pc' \in {"load", "done"}
    BY <1>1, <1>2, ReturnKeepsRunning
  <1>4. /\ DOMAIN disk' = DOMAIN disk
        /\ \A q \in DOMAIN disk :
             /\ disk'[q].version = disk[q].version
             /\ disk'[q].part = disk[q].part /\ disk'[q].size = disk[q].size
             /\ disk'[q].mtime = IF q = path THEN info.time ELSE disk[q].mtime
             /\ disk'[q] \in [version : DOMAIN db, part : {"part", "whole", "short"},
                              size : Nat, mtime : Nat]
    BY TimeSet
  <1>5. TypeOK'
    <2>1. \A q \in DOMAIN disk : q \in {Name(db[disk[q].version], k) : k \in 0 .. MaxNames - 1}
      BY DEF IInv, TypeOK
    <2>2. /\ start_number = 1 \/ start_number \in DOMAIN db
          /\ interrupts \in 0 .. MaxInterrupts /\ at \in 0 .. Len(db)
      BY DEF IInv, TypeOK
    <2>3. \A q \in DOMAIN disk' :
            q \in {Name(db'[disk'[q].version], k) : k \in 0 .. MaxNames - 1}
      BY <1>1, <1>4, <2>1
    <2> QED
      BY <1>1, <1>3, <1>4, <2>2, <2>3 DEF TypeOK, Name, Base
  <1>6. Writing'
    BY <1>3 DEF Writing, InFile
  <1>7. Wanted' = Wanted /\ \A i : Versions(i)' = Versions(i)
    BY <1>1, WantedSame
  <1>8. \A q : ~Fresh(q)'
    BY <1>3 DEF Fresh
  <1>9. \A q \in DOMAIN disk : q # path => ~Fresh(q)
    BY DEF Fresh
  (* The file at path is the one of the entry, or the entry was refused.   *)
  <1>10. IF info.outcome = "refused"
         THEN at \notin Wanted
                /\ (path \in DOMAIN disk => ~alternative /\ path = Base(info)
                      /\ (disk[path].size > 0 => disk[path].mtime < info.time))
         ELSE at \in Wanted /\ path \in DOMAIN disk /\ disk[path].version = at
                /\ disk[path].part = info.outcome
                /\ (info.size > 0 => disk[path].size > 0)
    <2>1. at \in Wanted <=> info.outcome \in {"whole", "short"}
      BY <1>2, EntryOK
    <2>2. ~alternative => path = Base(info)
      BY <1>2 DEF IInv, Writing
    <2> QED
      BY <1>1, <2>1, <2>2 DEF IInv, Writing, FileExist
  <1>11. info.time \in Nat /\ at \in DOMAIN db /\ info.size \in Nat
    BY <1>2, EntryOK
  <1>12. OnDisk'
    <2> SUFFICES ASSUME NEW q \in DOMAIN disk
                 PROVE  /\ disk[q].version \in Wanted
                        /\ interrupts = 0 => disk[q].version < at \/ disk[q].version = at
                        /\ disk[q].size > 0 =>
                             /\ db[disk[q].version].size > 0
                             /\ db[disk[q].version].time <= Now \/ interrupts = 0
                                  => disk'[q].mtime >= db[disk[q].version].time
      BY <1>1, <1>3, <1>4, <1>7 DEF OnDisk
    <2>1. /\ disk[q].version \in Wanted
          /\ interrupts = 0 => disk[q].version < at \/ disk[q].version = at
          /\ disk[q].size > 0 =>
               /\ db[disk[q].version].size > 0
               /\ db[disk[q].version].time <= Now \/ (interrupts = 0 /\ ~Fresh(q))
                    => disk[q].mtime >= db[disk[q].version].time
      BY DEF IInv, OnDisk
    <2>2. CASE q # path
      BY <1>4, <1>9, <2>1, <2>2
    <2>3. CASE q = path
      <3>1. disk'[q].mtime = info.time
        BY <1>4, <2>3
      <3>2. CASE info.outcome = "refused"
        <4>1. ~Fresh(q)
          BY <1>10, <2>1, <3>2 DEF Fresh
        <4>2. disk[q].mtime \in Nat /\ db[disk[q].version].time \in Nat
          BY FileOf, DbType DEF IInv, Running
        <4>3. disk[q].size > 0 => disk[q].mtime < info.time
          BY <1>10, <2>3, <3>2
        <4> QED
          BY <1>11, <2>1, <3>1, <4>1, <4>2, <4>3
      <3>3. CASE info.outcome # "refused"
        <4>1. disk[q].version = at
          BY <1>10, <2>3, <3>3
        <4> QED
          BY <1>11, <2>1, <3>1, <4>1 DEF info
      <3> QED
        BY <3>2, <3>3
    <2> QED
      BY <2>2, <2>3
  <1>13. VersionsThere'
    <2> SUFFICES ASSUME alternative, NEW i \in Wanted, Reached(i)'
                 PROVE  \E q \in DOMAIN disk : disk[q].version = i /\ disk[q].part = db[i].outcome
      BY <1>1, <1>4, <1>7 DEF VersionsThere
    <2>1. CASE Reached(i)
      BY <2>1 DEF IInv, VersionsThere
    <2>2. CASE i = at
      BY <1>10, <2>2 DEF info, Wanted
    <2> QED
      BY <1>1, <1>2, <2>1, <2>2, ReachedNext
  <1>14. Times'
    <2> SUFFICES ASSUME NEW q \in DOMAIN disk, NoneRefused(db[disk[q].version].name)
                 PROVE  OwnOrCut(q)'
      BY <1>1, <1>4 DEF Times, NoneRefused
    <2>1. CASE q # path
      BY <1>1, <1>4, <1>9, <2>1 DEF IInv, Times, OwnOrCut
    <2>2. CASE q = path
      <3>1. disk'[q].mtime = info.time
        BY <1>4, <2>2
      <3>2. info.outcome # "refused"
        <4> SUFFICES ASSUME info.outcome = "refused"
                     PROVE  FALSE
          OBVIOUS
        <4>1. db[disk[q].version].name = info.name
          BY <1>10, <2>2, FileOf DEF Base
        <4> QED
          BY <1>11, <4>1 DEF NoneRefused, info
      <3> QED
        BY <1>1, <1>4, <1>10, <2>2, <3>1, <3>2 DEF info, OwnOrCut
    <2> QED
      BY <2>1, <2>2
  <1>15. NewestThere'
    <2> SUFFICES ASSUME ~alternative, NEW i \in Wanted, db[i].size > 0, Reached(i)',
                        NoneRefused(db[i].name)
                 PROVE  NewerToCome(i)' \/ (Kept(i)' /\ ~Replacing(i)')
      BY <1>1, <1>7 DEF NewestThere, NoneRefused
    <2>1. ~Replacing(i)'
      BY <1>3 DEF Replacing
    <2>2. path = Base(info)
      BY <1>2 DEF IInv, Writing
    <2>3. \A j \in Wanted : Reached(j)' => Reached(j) \/ j = at
      BY <1>1, <1>2, ReachedNext
    <2>4. Reached(i) => NewerToCome(i) \/ (Kept(i) /\ ~Replacing(i))
      BY DEF IInv, NewestThere
    <2>5. CASE db[i].name = info.name
      <3>1. info.outcome # "refused"
        BY <1>11, <2>5 DEF NoneRefused, info
      <3>2. /\ path \in DOMAIN disk' /\ disk'[path].mtime = info.time
            /\ info.size > 0 => disk'[path].size > 0
        BY <1>4, <1>10, <3>1
      <3>3. db[i].time \in Nat
        BY DbType DEF IInv, Running, Wanted
      <3>4. ASSUME info.size > 0, info.time >= db[i].time
            PROVE  Kept(i)'
        <4>1. Base(db[i]) = path
          BY <2>2, <2>5 DEF Base
        <4> QED
          BY <1>1, <3>2, <3>4, <4>1 DEF Kept, FileExist, Base
      <3>5. CASE i = at
        BY <1>11, <2>1, <3>4, <3>5 DEF info
      <3>6. CASE i # at
        <4>1. NewerToCome(i)
          BY <1>1, <2>3, <2>4, <2>5, <3>6 DEF Replacing
        <4>2. PICK w \in Versions(i) : ~Reached(w) /\ db[w].time > db[i].time
          BY <4>1 DEF NewerToCome
        <4>3. CASE w = at
          <5>1. info.size > 0 /\ info.time > db[i].time
            BY <4>2, <4>3 DEF Versions, info
          <5> QED
            BY <1>11, <2>1, <3>3, <3>4, <5>1
        <4>4. CASE w # at
          <5>1. ~Reached(w)'
            BY <2>3, <4>2, <4>4 DEF Versions
          <5> QED
            BY <1>1, <1>7, <4>2, <5>1 DEF NewerToCome
        <4> QED
          BY <4>3, <4>4
      <3> QED
        BY <3>5, <3>6
    <2>6. CASE db[i].name # info.name
      <3>1. i # at /\ at \notin Versions(i) /\ Base(db[i]) # path
        BY <2>2, <2>6 DEF Versions, info, Base
      <3>2. NewerToCome(i) \/ Kept(i)
        BY <2>3, <2>4, <3>1
      <3>3. \A j \in Versions(i) : Reached(j)' => Reached(j)
        BY <2>3, <3>1 DEF Versions
      <3>4. NewerToCome(i) => NewerToCome(i)'
        BY <1>1, <1>7, <3>3 DEF NewerToCome
      <3>5. Kept(i) => Kept(i)'
        BY <1>1, <1>4, <3>1 DEF Kept, FileExist, Base
      <3> QED
        BY <2>1, <3>2, <3>4, <3>5
    <2> QED
      BY <2>5, <2>6
  <1> QED
    BY <1>3, <1>5, <1>6, <1>12, <1>13, <1>14, <1>15 DEF IInv

-----------------------------------------------------------------------------
(* Interrupted and continued runs.                                         *)

LEMMA InterruptKeeps ==
  ASSUME IInv, Interrupt
  PROVE  IInv'
  <1>1. /\ at > 0 /\ interrupts < MaxInterrupts
        /\ interrupts' = interrupts + 1 /\ pc' = "stopped"
        /\ pc \in {"load", "restore", "write", "utime"}
        /\ UNCHANGED <<db, alternative, ignore_error, file_list, start_number,
                       file_numbers, at, path, disk>>
    BY DEF Interrupt, setup
  <1>2. interrupts \in 0 .. MaxInterrupts /\ interrupts' \in 0 .. MaxInterrupts /\ interrupts' # 0
    BY <1>1, Sizes DEF IInv, TypeOK
  <1>3. TypeOK' /\ Writing'
    <2>1. (start_number = 1 \/ start_number \in DOMAIN db) /\ at \in 0 .. Len(db)
      BY DEF IInv, TypeOK
    <2> QED
      BY <1>1, <1>2, <2>1, QuietTyped
  <1>4. Running'
    <2>1. ~InFile'
      BY <1>1 DEF InFile
    <2> QED
      BY <1>1, <1>2, <2>1 DEF IInv, Running
  <1>5. OnDisk' /\ VersionsThere' /\ Times' /\ NewestThere'
    <2>1. \A i \in Wanted : Reached(i)' => Reached(i)
      BY <1>1 DEF Reached
    <2> QED
      BY <1>1, <1>2, <2>1, InterruptedStep
  <1> QED
    BY <1>3, <1>4, <1>5 DEF IInv

LEMMA ContinueKeeps ==
  ASSUME IInv, Continue
  PROVE  IInv'
  <1>1. /\ pc = "stopped" /\ start_number' \in {1, at}
        /\ file_numbers' = file_list /\ pc' = "load" /\ at' = 0
        /\ UNCHANGED <<db, alternative, ignore_error, file_list, path, disk, interrupts>>
    BY DEF Continue
  <1>2. interrupts # 0 /\ at > 0 /\ ~InFile'
    BY <1>1 DEF IInv, Running, InFile
  <1>3. /\ at \in Nat /\ at <= Len(db) /\ Len(db) \in Nat /\ DOMAIN db = 1 .. Len(db)
        /\ start_number \in Nat /\ Wanted \subseteq 1 .. Len(db)
    BY Basics
  <1>4. TypeOK' /\ Writing'
    <2>1. start_number' = 1 \/ start_number' \in DOMAIN db
      BY <1>1, <1>2, <1>3
    <2>2. at' \in 0 .. Len(db) /\ interrupts \in 0 .. MaxInterrupts
      BY <1>1, <1>3 DEF IInv, TypeOK
    <2> QED
      BY <1>1, <2>1, <2>2, QuietTyped
  <1>5. Running'
    BY <1>1, <1>2 DEF IInv, Running
  <1>6. OnDisk' /\ VersionsThere' /\ Times' /\ NewestThere'
    <2>1. \A i \in Wanted : Reached(i)' => Reached(i)
      <3> SUFFICES ASSUME NEW i \in Wanted, Reached(i)'
                   PROVE  i < at
        BY DEF Reached
      <3> QED
        BY <1>1, <1>2, <1>3 DEF Reached
    <2> QED
      BY <1>1, <1>2, <2>1, InterruptedStep
  <1> QED
    BY <1>4, <1>5, <1>6 DEF IInv

-----------------------------------------------------------------------------
(* The inductive invariant.                                                *)

LEMMA InitIInv == Init => IInv
  <1> SUFFICES ASSUME Init
               PROVE  IInv
    OBVIOUS
  <1>1. /\ db \in Databases /\ file_list \in Lists /\ file_numbers = file_list
        /\ start_number = 1 /\ pc = "load" /\ at = 0 /\ interrupts = 0
        /\ DOMAIN disk = {}
    BY DEF Init
  <1>2. Len(db) \in Nat /\ DOMAIN db = 1 .. Len(db)
    BY <1>1, DbType
  <1>3. TypeOK
    BY <1>1, <1>2, Sizes DEF TypeOK
  <1>4. Running /\ Writing
    BY <1>1 DEF Running, Writing, InFile
  <1>5. OnDisk /\ Times
    BY <1>1 DEF OnDisk, Times
  <1>6. VersionsThere /\ NewestThere
    <2>1. \A i \in Wanted : ~Reached(i)
      BY <1>1, <1>2 DEF Wanted, Reached
    <2> QED
      BY <2>1 DEF VersionsThere, NewestThere
  <1> QED
    BY <1>3, <1>4, <1>5, <1>6 DEF IInv

LEMMA NextIInv == IInv /\ [Next]_vars => IInv'
  <1> SUFFICES ASSUME IInv, [Next]_vars
               PROVE  IInv'
    OBVIOUS
  <1>1. CASE SkipFile \/ TakeFile \/ Finish
    BY <1>1, SkipFileKeeps, TakeFileKeeps, FinishKeeps
  <1>2. CASE KeepExisting \/ GiveUp \/ Refuse \/ CreateFails
    BY <1>2, KeepExistingKeeps, GiveUpKeeps, RefuseKeeps, CreateFailsKeeps
  <1>3. CASE Create \/ WritePart \/ Write \/ SetTime
    BY <1>3, CreateKeeps, WritePartKeeps, WriteKeeps, SetTimeKeeps
  <1>4. CASE Interrupt \/ Continue
    BY <1>4, InterruptKeeps, ContinueKeeps
  <1>5. CASE UNCHANGED vars
    <2>1. UNCHANGED <<db, alternative, ignore_error, file_list, start_number,
                      file_numbers, pc, at, path, disk, interrupts>>
      BY <1>5 DEF vars
    <2>2. TypeOK' /\ Running' /\ Writing'
      BY <2>1 DEF IInv, TypeOK, Running, Writing, InFile, Listed, info, FileExist,
                  Candidates, Name, Base
    <2>3. Wanted' = Wanted /\ (\A i : Versions(i)' = Versions(i))
          /\ \A i : Reached(i)' <=> Reached(i)
      BY <2>1, WantedSame DEF Reached
    <2>4. \A q : Fresh(q)' <=> Fresh(q)
      BY <2>1 DEF Fresh
    <2>5. OnDisk' /\ Times'
      BY <2>1, <2>3, <2>4 DEF IInv, OnDisk, Times, NoneRefused, OwnOrCut
    <2>6. VersionsThere'
      BY <2>1, <2>3 DEF IInv, VersionsThere
    <2>7. NewestThere'
      <3>1. \A i : (Kept(i)' <=> Kept(i)) /\ (Replacing(i)' <=> Replacing(i))
        BY <2>1 DEF Kept, Replacing, FileExist, Base, info
      <3>2. \A i : NewerToCome(i)' <=> NewerToCome(i)
        BY <2>1, <2>3 DEF NewerToCome
      <3>3. \A i : NoneRefused(db[i].name)' <=> NoneRefused(db[i].name)
        BY <2>1 DEF NoneRefused
      <3> QED
        BY <2>1, <2>3, <3>1, <3>2, <3>3 DEF IInv, NewestThere
    <2> QED
      BY <2>2, <2>5, <2>6, <2>7 DEF IInv
  <1> QED
    BY <1>1, <1>2, <1>3, <1>4, <1>5 DEF Next

LEMMA Invariance == Spec => []IInv
  BY InitIInv, NextIInv, PTL DEF Spec

(* The loop, the disk and the names stay within their types.               *)
THEOREM TypeCorrect == Spec => []TypeOK
  <1>1. IInv => TypeOK
    BY DEF IInv
  <1> QED
    BY Invariance, <1>1, PTL

(* When step 3 is done, every entry that was asked for has been reached.   *)
LEMMA AllReached ==
  ASSUME IInv, pc = "done"
  PROVE  \A i \in Wanted : Reached(i)
  <1> SUFFICES ASSUME NEW i \in Wanted
               PROVE  Reached(i)
    OBVIOUS
  <1>1. i \in 1 .. Len(db) /\ Len(db) \in Nat /\ at \in Nat
    BY Basics
  <1>2. CASE at = Len(db)
    BY <1>1, <1>2 DEF Reached
  <1>3. CASE file_list # NoList /\ file_numbers = {}
    <2>1. i \in file_list \ file_numbers
      BY <1>3 DEF Wanted
    <2> QED
      BY <1>3, <2>1 DEF IInv, Running, Reached
  <1> QED
    BY <1>2, <1>3 DEF IInv, Running

(* Step 3 (RestoreFiles, RestoreFile): when it is done, in whatever runs,  *)
(* the newest version of each file of which none is refused is there, or   *)
(* one that was cut off by an interrupt; with --alternative all versions   *)
(* are there, or all before the one at which the program gave up; and a    *)
(* file of which no version is refused has the time of its own version,    *)
(* unless it was cut off.                                                  *)
THEOREM UserGetsRightVersions == Spec => []RightVersions
  <1>1. IInv => RightVersions
    <2> SUFFICES ASSUME IInv
                 PROVE  RightVersions
      OBVIOUS
    <2>1. LatestOrCutOff
      <3> SUFFICES ASSUME pc = "done", ~alternative, NEW i \in Wanted, db[i].size > 0,
                          NoneRefused(db[i].name)
                   PROVE  LET p == Base(db[i]) IN
                          \/ HasLatest(i)
                          \/ /\ FileExist(p) /\ CutOff(p)
                             /\ disk[p].size > 0 /\ disk[p].version \in Versions(i)
        BY DEF LatestOrCutOff
      <3> DEFINE p == Base(db[i])
                 v == disk[p].version
      <3>1. ASSUME NEW j \in Versions(i)
            PROVE  p \in DOMAIN disk /\ disk[p].size > 0 /\ disk[p].mtime >= db[j].time
        <4>1. j \in Wanted /\ db[j].size > 0 /\ db[j].name = db[i].name
          BY DEF Versions
        <4>2. NewerToCome(j) \/ Kept(j)
          BY <4>1, AllReached DEF IInv, NewestThere
        <4>3. ~NewerToCome(j)
          BY AllReached DEF NewerToCome, Versions
        <4> QED
          BY <4>1, <4>2, <4>3 DEF Kept, FileExist, Base
      <3>2. p \in DOMAIN disk /\ disk[p].size > 0
        BY <3>1 DEF Versions
      <3>3. v \in Wanted /\ db[v].name = db[i].name /\ db[v].size > 0
        <4>1. p[1] = db[i].name
          BY DEF Base
        <4>2. v \in Wanted /\ p[1] = db[v].name
          BY <3>2, FileOf
        <4>3. db[v].size > 0
          BY <3>2 DEF IInv, OnDisk
        <4> QED
          BY <4>1, <4>2, <4>3
      <3>4. v \in Versions(i)
        BY <3>3 DEF Versions
      <3>5. OwnOrCut(p)
        BY <3>2, <3>3 DEF IInv, Times, Fresh
      <3>6. CASE interrupts # 0 /\ disk[p].mtime = Now
        <4>1. interrupts > 0
          BY <3>6, Sizes DEF IInv, TypeOK
        <4> QED
          BY <3>2, <3>4, <3>6, <4>1 DEF CutOff, FileExist
      <3>7. CASE disk[p].mtime = db[v].time /\ disk[p].part = db[v].outcome
        <4>1. \A j \in Versions(i) : db[j].time <= db[v].time
          <5> SUFFICES ASSUME NEW j \in Versions(i)
                       PROVE  db[j].time <= db[v].time
            OBVIOUS
          <5>1. db[j].time \in Nat /\ db[v].time \in Nat
            BY <3>3, DbType DEF IInv, Running, Wanted, Versions
          <5> QED
            BY <3>1, <3>7, <5>1
        <4>2. HasLatest(i)
          BY <3>2, <3>4, <3>7, <4>1 DEF HasLatest, FileExist
        <4> QED
          BY <4>2
      <3> QED
        BY <3>5, <3>6, <3>7 DEF OwnOrCut
    <2>2. AllVersionsThere
      <3> SUFFICES ASSUME pc \in {"done", "failed"}, alternative, NEW i \in Wanted,
                          pc = "done" \/ i < at
                   PROVE  \E p \in DOMAIN disk :
                            disk[p].version = i /\ disk[p].part = db[i].outcome
        BY DEF AllVersionsThere
      <3>1. Reached(i)
        BY AllReached DEF Reached
      <3> QED
        BY <3>1 DEF IInv, VersionsThere
    <2>3. OwnTime
      <3> SUFFICES ASSUME pc = "done", NEW p \in DOMAIN disk,
                          NoneRefused(db[disk[p].version].name)
                   PROVE  \/ /\ disk[p].mtime = db[disk[p].version].time
                             /\ disk[p].part = db[disk[p].version].outcome
                          \/ CutOff(p)
        BY DEF OwnTime
      <3>1. OwnOrCut(p)
        BY DEF IInv, Times, Fresh
      <3>2. interrupts # 0 => interrupts > 0
        BY Sizes DEF IInv, TypeOK
      <3> QED
        BY <3>1, <3>2 DEF OwnOrCut, CutOff
    <2> QED
      BY <2>1, <2>2, <2>3 DEF RightVersions
  <1> QED
    BY Invariance, <1>1, PTL

(* Only the creation of a file puts another version in its place, and      *)
(* only RestoreFile's comparison of the times stands before it.            *)
LEMMA StepKeepsVersions ==
  ASSUME IInv, [Next]_vars
  PROVE  NeverOlder /\ NothingOverwritten
  <1>1. CASE Create
    <2>1. PICK p \in Candidates :
            Target(p) /\ disk' = Put(p, File(at, "part", 0, Now))
      BY <1>1 DEF Create
    <2>2. pc = "restore" /\ GoesAhead
      BY <1>1 DEF Create
    <2>3. /\ alternative => p \notin DOMAIN disk
          /\ p \in DOMAIN disk /\ disk[p].size > 0
               => info.size > 0 /\ disk[p].mtime < info.time
      BY <2>1, <2>2, TargetOf
    <2>4. disk'[p].version = at /\ \A q \in DOMAIN disk : q # p => disk'[q] = disk[q]
      BY <2>1 DEF Put, File
    <2>5. NothingOverwritten
      BY <2>3, <2>4 DEF NothingOverwritten
    <2>6. NeverOlder
      <3> SUFFICES ASSUME p \in DOMAIN disk, disk[p].size > 0,
                          interrupts = 0 \/ db[disk[p].version].time <= Now
                   PROVE  db[at].time > db[disk[p].version].time /\ db[at].size > 0
        BY <2>4 DEF NeverOlder
      <3>1. disk[p].mtime >= db[disk[p].version].time
        BY <2>2 DEF IInv, OnDisk, Fresh
      <3>2. disk[p].mtime \in Nat /\ db[disk[p].version].time \in Nat
        BY FileOf, DbType DEF IInv, Running
      <3>3. info.time \in Nat /\ info.size > 0 /\ disk[p].mtime < info.time
        BY <2>2, <2>3, EntryOK DEF InFile
      <3> QED
        BY <3>1, <3>2, <3>3 DEF info
    <2> QED
      BY <2>5, <2>6
  <1>2. CASE WritePart \/ Write
    <2>1. pc = "write"
      BY <1>2 DEF WritePart, Write
    <2>2. /\ \A q \in DOMAIN disk : q # path => disk'[q] = disk[q]
          /\ disk'[path].version = at
      BY <1>2 DEF WritePart, Write, Put, File
    <2>3. disk[path].version = at /\ disk[path].part = "part"
      BY <2>1 DEF IInv, Writing
    <2> QED
      BY <2>2, <2>3 DEF NeverOlder, NothingOverwritten
  <1>3. CASE SetTime
    BY <1>3, TimeSet DEF NeverOlder, NothingOverwritten
  <1>4. CASE UNCHANGED disk
    BY <1>4 DEF NeverOlder, NothingOverwritten
  <1>5. Create \/ WritePart \/ Write \/ SetTime \/ UNCHANGED disk
    BY DEF Next, vars, SkipFile, TakeFile, Finish, KeepExisting, GiveUp, Refuse,
           CreateFails, Interrupt, Continue
  <1> QED
    BY <1>1, <1>2, <1>3, <1>4, <1>5

(* No step of step 3, in any run, puts a worse file in a better one's      *)
(* place, nor with --alternative any file in another's (RestoreFile).      *)
THEOREM VersionsAreKept == Spec => VersionsKept
  <1>1. IInv /\ [Next]_vars => [NeverOlder /\ NothingOverwritten]_vars
    BY StepKeepsVersions
  <1> QED
    BY Invariance, <1>1, PTL DEF Spec, VersionsKept
=============================================================================
