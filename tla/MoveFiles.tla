----------------------------- MODULE MoveFiles -----------------------------
(***************************************************************************)
(* Steps 5 and 6 (src/hfsprescue.cpp) on the tree that step 4 has built:   *)
(* MoveFiles moves the files of restored/<id> to the directory of the      *)
(* folder with that id, which it knows by its id file, or else by the      *)
(* number its name begins with; MoveUnknownDirectories and Cleanup move    *)
(* what is left to x_unknown and remove the id files.                      *)
(*                                                                         *)
(* The three steps run one after the other, each on what the one before    *)
(* left on the disk.                                                       *)
(***************************************************************************)
EXTENDS DirTree

CONSTANT
  FileSets     \* the files of step 3 to choose from

(* A file of step 3, in restored/<folder>.                                 *)
File == [folder : Nat, name : Name]

ASSUME FilesAssumption == \A fs \in FileSets : fs \subseteq File

VARIABLES
  files,       \* where the files are: in restored/<dir>, in a directory of
               \* the tree, in x_unknown/<dir>, or overwritten
  moving       \* the files MoveDirectoryFiles has yet to read

vars == <<vars4, files, moving>>

In(f, where, dir) == files[f] = [where |-> where, dir |-> dir]

InRestored(folder) == {f \in DOMAIN files : In(f, "restored", folder)}

Init ==
  /\ Init4
  /\ \E fs \in FileSets :
       files = [f \in fs |-> [where |-> "restored", dir |-> f.folder]]
  /\ moving = {}

-----------------------------------------------------------------------------
(* MoveFiles (restored, newroot): down the tree ...                        *)

Start5 ==
  /\ pc = "step4_done"
  /\ pc' = "move"
  /\ stack' = <<Stream(newroot)>>
  /\ UNCHANGED <<entries, at, path, id, script, dirs, repeats, files, moving>>

(* Slip of Enter: a directory without an id file is skipped.               *)
Enter_Marked ==
  /\ pc = "move"
  /\ \E n \in DOMAIN dirs :
       /\ Unread(n)
       /\ stack' = IF dirs[n].id = NoId THEN Seen(n) ELSE Append(Seen(n), Stream(n))
  /\ UNCHANGED <<entries, at, pc, path, id, script, dirs, repeats, files, moving>>

Enter ==
  /\ pc = "move"
  /\ \E n \in DOMAIN dirs : Unread(n) /\ stack' = Append(Seen(n), Stream(n))
  /\ UNCHANGED <<entries, at, pc, path, id, script, dirs, repeats, files, moving>>

(* Slip of FolderOf: the number of the name is taken before the id file.   *)
FolderOf_Name(n) ==
  IF n = newroot THEN 0
  ELSE IF dirs[n].name.num # 0 THEN dirs[n].name.num ELSE dirs[n].id

(* The id in the id file, or atoi (d_name).                                *)
FolderOf(n) ==
  IF n = newroot THEN 0
  ELSE IF dirs[n].id # NoId THEN dirs[n].id ELSE dirs[n].name.num

(* ... and behind its last directory to MoveDirectoryFiles.                *)
OpenFolder ==
  /\ pc = "move" /\ AtEnd
  /\ pc' = "files"
  /\ moving' = InRestored(FolderOf(top.dir))
  /\ UNCHANGED <<entries, at, path, id, script, dirs, stack, repeats, files>>

(* The rename of f to the directory n: a file there that has its name is   *)
(* replaced.                                                               *)
Moved(f, n) ==
  [g \in DOMAIN files |->
     IF g = f THEN [where |-> "tree", dir |-> n]
     ELSE IF In(g, "tree", n) /\ g.name = f.name THEN [where |-> "lost", dir |-> n]
     ELSE files[g]]

(* rename of a file fails when a directory has its name.                   *)
Blocked(f, n) == \E c \in Children(dirs, n) : dirs[c].name = f.name

(* Slip of MoveFile: to the directory above.                               *)
MoveFile_Path ==
  /\ pc = "files"
  /\ \E f \in moving :
       /\ moving' = moving \ {f}
       /\ files' = Moved(f, IF top.dir = newroot THEN newroot ELSE dirs[top.dir].up)
  /\ UNCHANGED <<entries, at, pc, path, id, script, dirs, stack, repeats>>

MoveFile ==
  /\ pc = "files"
  /\ \E f \in moving :
       /\ moving' = moving \ {f}
       /\ files' = IF Blocked(f, top.dir) THEN files ELSE Moved(f, top.dir)
  /\ UNCHANGED <<entries, at, pc, path, id, script, dirs, stack, repeats>>

(* Slip of CloseFolder: the directory is read once more.                   *)
CloseFolder_Again ==
  /\ pc = "files" /\ moving = {}
  /\ pc' = "move"
  /\ stack' = IF Len(stack) = 1 THEN stack ELSE Front(stack)
  /\ UNCHANGED <<entries, at, path, id, script, dirs, repeats, files, moving>>

(* rmdir of restored/<id>, which fails unless it is empty; MoveFiles       *)
(* returns.                                                                *)
CloseFolder ==
  /\ pc = "files" /\ moving = {}
  /\ stack' = Front(stack)
  /\ pc' = IF Len(stack) = 1 THEN "step5_done" ELSE "move"
  /\ UNCHANGED <<entries, at, path, id, script, dirs, repeats, files, moving>>

(* SIGINT, or a second run of a complete step 5.                           *)
Again5 ==
  /\ pc \in {"move", "files", "step5_done"}
  /\ repeats < MaxRepeats
  /\ repeats' = repeats + 1
  /\ pc' = "move"
  /\ stack' = <<Stream(newroot)>> /\ moving' = {}
  /\ UNCHANGED <<entries, at, path, id, script, dirs, files>>

-----------------------------------------------------------------------------
(* MoveUnknownDirectories: a directory of restored that still is there.    *)
Unknown ==
  /\ pc \in {"step5_done", "unknown"}
  /\ pc' = "unknown"
  /\ \E folder \in {f.folder : f \in DOMAIN files} :
       /\ InRestored(folder) # {}
       /\ files' = [f \in DOMAIN files |->
                      IF f \in InRestored(folder)
                      THEN [where |-> "unknown", dir |-> folder] ELSE files[f]]
  /\ UNCHANGED <<entries, at, path, id, script, dirs, stack, repeats, moving>>

(* Cleanup, without -k.                                                    *)
Cleanup ==
  /\ pc \in {"step5_done", "unknown"}
  /\ \A f \in DOMAIN files : files[f].where # "restored"
  /\ dirs' = [n \in DOMAIN dirs |-> [dirs[n] EXCEPT !.id = NoId]]
  /\ pc' = "done"
  /\ UNCHANGED <<entries, at, path, id, script, stack, repeats, files, moving>>

Next ==
  \/ Step4 /\ UNCHANGED <<files, moving>>
  \/ Start5 \/ Enter \/ OpenFolder \/ MoveFile \/ CloseFolder \/ Again5
  \/ Unknown \/ Cleanup

Spec == Init /\ [][Next]_vars

(* One thread, and a user who runs the steps in their order.               *)
FairSpec == Spec /\ WF_vars(Next)

-----------------------------------------------------------------------------
(* Properties.                                                             *)

TypeOK ==
  /\ pc \in {"load", "paths", "script", "rename", "unlink", "step4_done",
             "move", "files", "step5_done", "unknown", "done"}
  /\ Len(path) <= MaxDepth
  /\ \A n \in DOMAIN dirs :
       /\ dirs[n].up \in DOMAIN dirs \cup {newroot}
       /\ dirs[n].id \in Nat
  /\ \A k \in DOMAIN stack : stack[k].dir \in DOMAIN dirs \cup {newroot}
  /\ repeats \in 0 .. MaxRepeats
  /\ \A f \in DOMAIN files :
       files[f].where = "tree" => files[f].dir \in DOMAIN dirs \cup {newroot}

(* A directory lies below another one: who goes up from it, comes there.   *)
Below(n, m) ==
  \A S \in SUBSET (DOMAIN dirs \cup {newroot}) :
    dirs[n].up \in S /\ (\A o \in S \ {newroot} : dirs[o].up \in S) => m \in S

(* A path from the root: each id is the parent of the next one.            *)
FromRoot(p) ==
  /\ p # <<>> /\ p[1] = RootId
  /\ \A k \in 2 .. Len(p) : \E j \in EntryOf(p[k]) : entries[j].parent = p[k - 1]

(* The parents of a folder lead to the root, in a path that is not too     *)
(* long.                                                                   *)
Reaches(i) ==
  \E p \in SeqOf({RootId} \cup {entries[j].folder : j \in Indices}, MaxDepth) :
    FromRoot(p) /\ Last(p) = entries[i].folder

(* Nothing was interrupted, no folder has the id of the root, and none the *)
(* name of the directory for unlinkable ones: what lies in newroot and has *)
(* the name of a directory in such a folder would not be moved.            *)
Undisturbed ==
  /\ repeats = 0
  /\ EntryOf(RootId) = {}
  /\ \A i \in Indices : entries[i].name # Problem

(* For every table, with loops, orphans and folders that share a name,     *)
(* each folder has exactly one directory with its id when step 4 is done.  *)
(* It lies in a directory made for its parent; when its parents lead to    *)
(* the root that is the parent's own one, below "recovered", and else it   *)
(* is below "x_directory_problem".                                         *)
TreeRight ==
  pc = "step4_done" /\ Undisturbed =>
    \A i \in Indices :
      \E n \in DOMAIN dirs :
        /\ {m \in DOMAIN dirs : dirs[m].id = entries[i].folder} = {n}
        /\ dirs[n].up # newroot
        /\ dirs[dirs[n].up].made = entries[i].parent
        /\ IF Reaches(i)
           THEN /\ dirs[dirs[n].up].id = entries[i].parent
                /\ \E m \in Children(dirs, newroot) :
                     dirs[m].name = Plain("recovered") /\ Below(n, m)
           ELSE \E m \in ProblemDir : Below(n, m)

(* No folder's name begins with a number.                                  *)
NoNumbers == \A i \in Indices : entries[i].name.num = 0

(* A directory of a folder has the folder's name when step 4 is done, or   *)
(* its id when another one beside it has the name, although directories    *)
(* are renamed while they are read.                                        *)
NamesRight ==
  pc = "step4_done" /\ Undisturbed /\ NoNumbers =>
    \A n \in DOMAIN dirs, i \in Indices :
      dirs[n].made = entries[i].folder =>
        \/ dirs[n].name = entries[i].name
        \/ /\ dirs[n].name = IdName(dirs[n].made)
           /\ \E m \in Children(dirs, dirs[n].up) : dirs[m].name = entries[i].name

(* The tree of step 4 is the one of the table: every folder in its place,  *)
(* under its name.                                                         *)
FoldersPlaced == TreeRight /\ NamesRight

(* Whatever is interrupted, killed or run twice: no directory with an id   *)
(* file is replaced by one that gets its name, and the only one that ever  *)
(* leaves the directory it lies in goes from newroot to                    *)
(* x_directory_problem.                                                    *)
DirsKept ==
  \A n \in DOMAIN dirs :
    dirs[n].id # NoId =>
      /\ n \in DOMAIN dirs'
      /\ \/ dirs'[n].up = dirs[n].up
         \/ dirs[n].up = newroot /\ dirs'[n].up \in ProblemDir

(* No file is overwritten by another one, although step 5 may be ended     *)
(* anywhere and run again.                                                 *)
FilesKept == \A f \in DOMAIN files : files[f].where # "lost"

(* Steps 4 to 6, run in this order, each as often as it is interrupted or  *)
(* repeated before the next one begins, lose no directory of a folder and  *)
(* no file.                                                                *)
NothingLost == [][DirsKept /\ FilesKept']_vars

(* Every directory without an id file is of a folder the table has not.    *)
AllMarked == \A n \in DOMAIN dirs : dirs[n].id = NoId => EntryOf(dirs[n].made) = {}

(* No directory has the id file of another folder than it was made for.    *)
OwnIds == \A n \in DOMAIN dirs : dirs[n].id \in {NoId, dirs[n].made}

(* A moved file is in a directory made for its folder.  (A parent id of 0, *)
(* which nothing excludes, names no folder: such a file is moved to the    *)
(* first directory that has no id, x_directory_problem or newroot.)        *)
InCorrectDirectory(f) ==
  files[f].where = "tree" /\ f.folder # 0 =>
    /\ files[f].dir # newroot
    /\ dirs[files[f].dir].made = f.folder

(* Step 5 moves files to the directories of their folders when no folder's *)
(* name begins with a number, whatever was interrupted and run again; and  *)
(* for all names when step 4 has left each folder with its own id file.    *)
FilesRight ==
  pc \in {"move", "files", "step5_done"} /\ (NoNumbers \/ (AllMarked /\ OwnIds)) =>
    \A f \in DOMAIN files : InCorrectDirectory(f)

(* What the comment in front of step 5 says, "Move restored files to       *)
(* correct directory", for all names.                                      *)
FilesInCorrectDirectory == \A f \in DOMAIN files : InCorrectDirectory(f)

(* No file is left in restored/<id> by step 5 when its folder has a        *)
(* directory, except when a directory in there has the name of the file.   *)
FilesMoved ==
  pc = "step5_done" =>
    \A f \in DOMAIN files, n \in DOMAIN dirs :
      dirs[n].id = f.folder /\ f.folder # NoId =>
        files[f].where # "restored" \/ Blocked(f, n)

(* Step 5 brings every file to its folder.                                 *)
FilesPlaced == FilesRight /\ FilesMoved

(* The steps end, and with them every file is below newroot.               *)
Termination == <>(pc = "done")
=============================================================================
