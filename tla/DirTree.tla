------------------------------ MODULE DirTree ------------------------------
(***************************************************************************)
(* Step 4, RestoreDirectories (src/hfsprescue.cpp): the tree of folders    *)
(* below restored/newroot.  For each folder of foldertable.db its path of  *)
(* ids is built, a shell script makes the directories with ids for names   *)
(* and a file with the id in each, and then the directories are renamed    *)
(* to the folders' names, from the leaves up, while the directory they     *)
(* lie in is being read.                                                   *)
(*                                                                         *)
(* A name is the number atoi reads off its front (0 when it has no digit   *)
(* there) and what follows.  A directory keeps its number in the model     *)
(* when it is renamed or moved; newroot is directory 0.                    *)
(***************************************************************************)
EXTENDS Integers, FiniteSets, SequencesExt

CONSTANTS
  Words,         \* what a name may have behind its number, "nothing" if so
  Tables,        \* the foldertable.db to choose from, sequences of lines
  MaxDepth,      \* ids a path may have (PATH_MAX_LENGTH - 100 characters)
  MaxRepeats     \* bound: interrupted and repeated runs of a step

Name == [num : Nat, rest : Words]

(* A line of foldertable.db; valid is the verdict of ValidEncoding.        *)
Line == [folder : Nat, parent : Nat, name : Name, valid : BOOLEAN]

ASSUME DirTreeAssumption ==
  /\ {"nothing", "recovered", "x_directory_problem"} \subseteq Words
  /\ Tables \subseteq Seq(Line)
  /\ MaxDepth \in Nat \ {0, 1}
  /\ MaxRepeats \in Nat

newroot == 0
NoId == 0
RootId == 2

IdName(id) == [num |-> id, rest |-> "nothing"]
Plain(text) == [num |-> 0, rest |-> text]

VARIABLES
  entries,     \* the vector of folders
  pc,          \* the loop the program is in, or between the steps
  path,        \* path of FindParentDirectory, ids from the top
  id,          \* and the id it was called with
  script,      \* mkdir.sh, a path in each line; when it runs, what is left
  at,          \* the directory mkdir -p has come to
  dirs,        \* the directories below newroot: where they lie, their
               \* names, their id files, and the folder they were made for
  stack,       \* the directories being read, innermost last
  repeats      \* interrupted and repeated runs

vars4 == <<entries, pc, path, id, script, at, dirs, stack, repeats>>

Indices == DOMAIN entries

Children(d, up) == {n \in DOMAIN d : d[n].up = up}

(* Slip of EntryOf: the loop stops before the last entry.                  *)
EntryOf_ButLast(f) == {i \in 1 .. Len(entries) - 1 : entries[i].folder = f}

(* The entry of a folder id: at most one has it.                           *)
EntryOf(f) == {i \in Indices : entries[i].folder = f}

(* Loading: a folder needs ids above 1 that are not the same, a valid      *)
(* name, and an id that no folder loaded before it has.                    *)
Good(l) == l.folder > 1 /\ l.parent > 1 /\ l.folder # l.parent /\ l.valid

Loaded(t) ==
  LET New(i) == Good(t[i]) /\ \A j \in 1 .. i - 1 : Good(t[j]) => t[j].folder # t[i].folder
      kept == {i \in DOMAIN t : New(i)}
      At(n) == CHOOSE i \in kept : Cardinality({j \in kept : j <= i}) = n
  IN  [n \in 1 .. Cardinality(kept) |-> t[At(n)]]

StartPath(n) ==
  IF n <= Len(entries)
  THEN pc' = "paths" /\ path' = <<entries[n].folder>> /\ id' = entries[n].parent
  ELSE pc' = "script" /\ UNCHANGED <<path, id>>

Init4 ==
  /\ \E t \in Tables : entries = Loaded(t)
  /\ pc = "load"
  /\ path = <<>> /\ id = NoId
  /\ script = <<>>
  /\ at = newroot
  /\ dirs = [n \in {} |-> {}]
  /\ stack = <<>>
  /\ repeats = 0

(* mkdir.sh begins with the root folder.                                   *)
Load ==
  /\ pc = "load"
  /\ script' = << <<RootId>> >>
  /\ StartPath(1)
  /\ UNCHANGED <<entries, at, dirs, stack, repeats>>

-----------------------------------------------------------------------------
(* FindParentDirectory.                                                    *)

(* strstr (path, "/id/"): neither the first id of a path has a slash       *)
(* before it nor the last one a slash behind it.                           *)
Looping == \E k \in 2 .. Len(path) - 1 : path[k] = id

(* Slip of TooBig: one id too many.                                        *)
TooBig_Late == Len(path) > MaxDepth

TooBig == Len(path) >= MaxDepth

(* One call: the parent is put in front ...                                *)
Climb ==
  /\ pc = "paths"
  /\ ~TooBig /\ ~Looping
  /\ id # NoId
  /\ path' = <<id>> \o path
  /\ id' = IF id = RootId \/ EntryOf(id) = {} THEN NoId
           ELSE entries[CHOOSE i \in EntryOf(id) : TRUE].parent
  /\ UNCHANGED <<entries, at, pc, script, dirs, stack, repeats>>

(* ... until it is the root, unknown, in the path already or too far.      *)
PathDone ==
  /\ pc = "paths"
  /\ id = NoId \/ TooBig \/ Looping
  /\ script' = Append(script, path)
  /\ StartPath(Len(script) + 1)
  /\ UNCHANGED <<entries, at, dirs, stack, repeats>>

-----------------------------------------------------------------------------
(* The disk.                                                               *)

(* The number of a new directory, and the tree with it.                    *)
NewDir == Max(DOMAIN dirs \cup {newroot}) + 1

WithNew(up, name, made) ==
  [n \in DOMAIN dirs \cup {NewDir} |->
     IF n = NewDir THEN [up |-> up, name |-> name, id |-> NoId, made |-> made]
     ELSE dirs[n]]

(* Slip of Renamed: what has the new name is replaced, whatever it holds.  *)
Renamed_Always(n, up, name) ==
  [m \in DOMAIN dirs \ {o \in Children(dirs, up) : dirs[o].name = name /\ o # n} |->
     IF m = n THEN [dirs[m] EXCEPT !.up = up, !.name = name] ELSE dirs[m]]

(* rename of directory n: a directory that has the new name is replaced    *)
(* when it is empty; otherwise rename fails.                               *)
Renamed(n, up, name) ==
  LET others == {o \in Children(dirs, up) : dirs[o].name = name /\ o # n}
      empty == {o \in others : dirs[o].id = NoId /\ Children(dirs, o) = {}}
  IN  IF others # empty THEN dirs
      ELSE [m \in DOMAIN dirs \ others |->
              IF m = n THEN [dirs[m] EXCEPT !.up = up, !.name = name] ELSE dirs[m]]

(* A directory stream: the names it must return, those there when it was   *)
(* opened, and those it has returned.  A name that appears later may be    *)
(* returned or not; no name is returned twice.                             *)
Stream(n) == [dir |-> n, open |-> {dirs[c].name : c \in Children(dirs, n)}, seen |-> {}]

top == stack[Len(stack)]

Unread(n) == n \in Children(dirs, top.dir) /\ dirs[n].name \notin top.seen

AtEnd == top.open \cap {dirs[c].name : c \in Children(dirs, top.dir)} \subseteq top.seen

Seen(n) == [stack EXCEPT ![Len(stack)].seen = @ \cup {dirs[n].name}]

-----------------------------------------------------------------------------
(* The script and the two passes over the tree.                            *)

(* mkdir -p goes down one directory, which it makes unless it is there.    *)
Mkdir ==
  /\ pc = "script" /\ script # <<>> /\ Head(script) # <<>>
  /\ LET name == IdName(Head(Head(script)))
         there == {n \in Children(dirs, at) : dirs[n].name = name}
     IN  IF there # {}
         THEN at' = (CHOOSE n \in there : TRUE) /\ UNCHANGED dirs
         ELSE at' = NewDir /\ dirs' = WithNew(at, name, name.num)
  /\ script' = <<Tail(Head(script))>> \o Tail(script)
  /\ UNCHANGED <<entries, pc, path, id, stack, repeats>>

(* echo: the last id of the line, which is the name of the directory mkdir *)
(* has come to, is written into the id file there, over what is in it: a   *)
(* step that is repeated may find a directory of another folder under that *)
(* name, one that got it in RenameDirectory.                               *)
Echo ==
  /\ pc = "script" /\ script # <<>> /\ Head(script) = <<>>
  /\ dirs' = [dirs EXCEPT ![at].id = dirs[at].name.num]
  /\ at' = newroot
  /\ script' = Tail(script)
  /\ UNCHANGED <<entries, pc, path, id, stack, repeats>>

(* SIGINT from the terminal ends the shell.  system () ignores it in the   *)
(* program, which goes on with the directories it has.  (Without newroot   *)
(* it crashes in readdir, and the user starts as in Again4.)               *)
ScriptKilled ==
  /\ pc = "script" /\ script # <<>> /\ DOMAIN dirs # {}
  /\ repeats < MaxRepeats
  /\ repeats' = repeats + 1
  /\ script' = <<>> /\ at' = newroot
  /\ UNCHANGED <<entries, pc, path, id, dirs, stack>>

(* RenameDirectory (restored, newroot).                                    *)
ScriptDone ==
  /\ pc = "script" /\ script = <<>>
  /\ pc' = "rename"
  /\ stack' = <<Stream(newroot)>>
  /\ UNCHANGED <<entries, at, path, id, script, dirs, repeats>>

Descend ==
  /\ pc = "rename"
  /\ \E n \in DOMAIN dirs : Unread(n) /\ stack' = Append(Seen(n), Stream(n))
  /\ UNCHANGED <<entries, at, pc, path, id, script, dirs, repeats>>

(* The name of the entry atoi (d_name) points at; the loop over the        *)
(* entries finds none for a name without a number.                         *)
Rename ==
  /\ pc = "rename" /\ AtEnd /\ top.dir # newroot
  /\ LET n == top.dir
         own == EntryOf(dirs[n].name.num)
     IN  dirs' = IF own = {} THEN dirs
                 ELSE Renamed(n, dirs[n].up, entries[CHOOSE i \in own : TRUE].name)
  /\ stack' = Front(stack)
  /\ UNCHANGED <<entries, at, pc, path, id, script, repeats>>

Problem == Plain("x_directory_problem")

ProblemDir == {n \in Children(dirs, newroot) : dirs[n].name = Problem}

(* MoveUnlinkableDirectories: its directory is made ...                    *)
StartUnlinkable ==
  /\ pc = "rename" /\ AtEnd /\ top.dir = newroot
  /\ pc' = "unlink"
  /\ dirs' = IF ProblemDir # {} THEN dirs ELSE WithNew(newroot, Problem, NoId)
  /\ stack' = <<[top EXCEPT !.open = {dirs[c].name : c \in Children(dirs, newroot)},
                            !.seen = {IdName(RootId), Problem}]>>
  /\ UNCHANGED <<entries, at, path, id, script, repeats>>

(* Slip of Unlinkable: the root folder is not spared.                      *)
Unlinkable_Root ==
  /\ pc = "unlink"
  /\ \E n \in DOMAIN dirs :
       /\ Unread(n) \/ (n \in Children(dirs, newroot) /\ dirs[n].name = IdName(RootId))
       /\ stack' = Seen(n)
       /\ dirs' = Renamed(n, CHOOSE p \in ProblemDir : TRUE, dirs[n].name)
  /\ UNCHANGED <<entries, at, pc, path, id, script, repeats>>

(* ... and everything in newroot that is not the root folder is moved.     *)
Unlinkable ==
  /\ pc = "unlink"
  /\ \E n \in DOMAIN dirs :
       /\ Unread(n)
       /\ stack' = Seen(n)
       /\ dirs' = Renamed(n, CHOOSE p \in ProblemDir : TRUE, dirs[n].name)
  /\ UNCHANGED <<entries, at, pc, path, id, script, repeats>>

Recovered ==
  /\ pc = "unlink" /\ AtEnd
  /\ LET root == {n \in Children(dirs, newroot) : dirs[n].name = IdName(RootId)} IN
     dirs' = IF root = {} THEN dirs
             ELSE Renamed(CHOOSE n \in root : TRUE, newroot, Plain("recovered"))
  /\ stack' = <<>>
  /\ pc' = "step4_done"
  /\ UNCHANGED <<entries, at, path, id, script, repeats>>

(* SIGINT while the program itself runs: it exits.  The user starts the    *)
(* step again, maybe also one that was complete, and the vector of folders *)
(* is loaded from the same file.                                           *)
Again4 ==
  /\ pc \in {"paths", "rename", "unlink", "step4_done"}
  /\ repeats < MaxRepeats
  /\ repeats' = repeats + 1
  /\ pc' = "load"
  /\ path' = <<>> /\ id' = NoId /\ script' = <<>> /\ at' = newroot /\ stack' = <<>>
  /\ UNCHANGED <<entries, dirs>>

Step4 ==
  \/ Load \/ Climb \/ PathDone
  \/ Mkdir \/ Echo \/ ScriptKilled \/ ScriptDone
  \/ Descend \/ Rename \/ StartUnlinkable \/ Unlinkable \/ Recovered
  \/ Again4
=============================================================================
