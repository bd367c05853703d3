-------------------------- MODULE MoveFiles_proof --------------------------
(***************************************************************************)
(* Proofs that hold for every table of folders, every set of files and any *)
(* number of interrupted and repeated runs of steps 4 and 5.               *)
(***************************************************************************)
EXTENDS MoveFiles, FiniteSetTheorems, SequenceTheorems, WellFoundedInduction, TLAPS

(* The program knows valid folders only.                                   *)
EntriesOK == entries \in Seq(Line) /\ \A i \in Indices : Good(entries[i])

Dir == [up : Nat, name : Name, id : Nat, made : Nat]

(* The name of a directory is the id of its folder, a name without a       *)
(* number, or the name of some folder, which only a known one gets.        *)
NameKnown(e) ==
  \/ e.name = IdName(e.made)
  \/ e.name.num = 0
  \/ EntryOf(e.made) # {} /\ \E i \in Indices : e.name = entries[i].name

(* What was made for no folder gets no id file.  Another folder's id is    *)
(* only written into a directory that has got a number for a name.         *)
IdKnown(e) ==
  /\ e.made = NoId => e.id = NoId
  /\ NoNumbers => e.id \in {NoId, e.made}

(* A tree: every directory lies in one that is there and nearer to         *)
(* newroot, under a name of its own.                                       *)
TreeOK(d) ==
  /\ \E k \in Nat : DOMAIN d \subseteq 1 .. k
  /\ d \in [DOMAIN d -> Dir]
  /\ \A n \in DOMAIN d : /\ d[n].up \in DOMAIN d \cup {newroot}
                         /\ IdKnown(d[n])
                         /\ NameKnown(d[n])
  /\ \A n, m \in DOMAIN d : d[n].up = d[m].up /\ d[n].name = d[m].name => n = m
  /\ \E r \in [DOMAIN d -> Nat] :
       \A n \in DOMAIN d : d[n].up # newroot => r[d[n].up] < r[n]

PCs4 == {"load", "paths", "script", "rename", "unlink", "step4_done"}
PCs5 == {"move", "files", "step5_done", "unknown"}

Control ==
  /\ pc \in PCs4 \cup PCs5 \cup {"done"}
  /\ path \in Seq(Nat) /\ Len(path) <= MaxDepth /\ id \in Nat
  /\ script \in Seq(Seq(Nat))
  /\ at \in DOMAIN dirs \cup {newroot}
  /\ pc # "script" \/ script = <<>> => at = newroot
  /\ repeats \in 0 .. MaxRepeats

Frame == [dir : Nat, open : SUBSET Name, seen : SUBSET Name]

(* The directories being read lie in one another.                          *)
Stacked ==
  /\ stack \in Seq(Frame)
  /\ stack # <<>> => stack[1].dir = newroot
  /\ pc \in {"rename", "unlink", "move", "files"} => stack # <<>>
  /\ \A k \in 1 .. Len(stack) - 1 : stack[k + 1].dir \in Children(dirs, stack[k].dir)
  /\ pc = "unlink" => Len(stack) = 1 /\ Problem \in stack[1].seen /\ ProblemDir # {}

(* Where the files are; those in the tree are in a directory that is       *)
(* taken for their folder's.                                               *)
Placed ==
  /\ \E fs \in FileSets :
       files \in [fs -> [where : {"restored", "tree", "unknown"}, dir : Nat]]
  /\ moving \subseteq DOMAIN files
  /\ \A f \in DOMAIN files :
       /\ files[f].where = "restored" => files[f].dir = f.folder
       /\ files[f].where = "tree" =>
            /\ files[f].dir \in DOMAIN dirs \cup {newroot}
            /\ pc \in PCs5 \cup {"done"}
            /\ pc # "done" => FolderOf(files[f].dir) = f.folder
  /\ pc = "files" =>
       \A f \in moving : files[f].where = "restored" /\ f.folder = FolderOf(top.dir)

(* Step 5 is through with directory n.                                     *)
Emptied(n) ==
  \A f \in DOMAIN files :
    FolderOf(n) = f.folder => files[f].where # "restored" \/ Blocked(f, n)

(* Step 5 has been in the directories of a set; what it has seen of a      *)
(* directory it is still reading is in there, or the one it is in.         *)
Behind(done) ==
  /\ \A n \in done : Emptied(n) /\ Children(dirs, n) \subseteq done
  /\ \A k \in DOMAIN stack : \A c \in Children(dirs, stack[k].dir) :
       /\ dirs[c].name \in stack[k].open
       /\ dirs[c].name \in stack[k].seen =>
            c \in done \/ (k < Len(stack) /\ c = stack[k + 1].dir)

Traversed ==
  /\ pc \in {"move", "files"} => \E done \in SUBSET DOMAIN dirs : Behind(done)
  /\ pc = "files" =>
       /\ \A c \in Children(dirs, top.dir) : dirs[c].name \in top.seen
       /\ \A f \in DOMAIN files :
            FolderOf(top.dir) = f.folder =>
              files[f].where # "restored" \/ Blocked(f, top.dir) \/ f \in moving
  /\ pc = "step5_done" => \A n \in DOMAIN dirs : Emptied(n)

IInv == EntriesOK /\ TreeOK(dirs) /\ Control /\ Stacked /\ Placed /\ Traversed
-----------------------------------------------------------------------------
LEMMA Sizes ==
  /\ Tables \subseteq Seq(Line) /\ MaxDepth \in Nat /\ MaxDepth > 1 /\ MaxRepeats \in Nat
  /\ \A fs \in FileSets : fs \subseteq [folder : Nat, name : Name]
  BY DirTreeAssumption, FilesAssumption DEF File

LEMMA NamesTyped ==
  /\ \A i \in Nat : IdName(i) \in Name /\ IdName(i).num = i
  /\ Problem \in Name /\ Problem.num = 0
  /\ Plain("recovered") \in Name /\ Plain("recovered").num = 0
  BY DirTreeAssumption DEF IdName, Plain, Problem, Name

LEMMA LessWellFounded == IsWellFoundedOn({p \in Nat \X Nat : p[1] < p[2]}, Nat)
  <1>1. OpToRel(<, Nat) = {p \in Nat \X Nat : p[1] < p[2]}
    BY DEF OpToRel
  <1> QED
    BY <1>1, NatLessThanWellFounded

LEMMA SmallestOf ==
  ASSUME NEW S, S \subseteq Nat, S # {}
  PROVE  \E m \in S : \A n \in S : m <= n
  <1> DEFINE R == {p \in Nat \X Nat : p[1] < p[2]}
  <1>1. IsWellFoundedOn(R, Nat)
    BY LessWellFounded
  <1> HIDE DEF R
  <1>2. PICK m \in S : \A y \in S : ~(<<y, m>> \in R)
    BY <1>1, WFMin
  <1>3. ASSUME NEW n \in S, n < m
        PROVE  FALSE
    <2>1. m \in Nat /\ n \in Nat /\ <<n, m>>[1] = n /\ <<n, m>>[2] = m
      OBVIOUS
    <2>2. <<n, m>> \in R
      BY <1>3, <2>1 DEF R
    <2> QED
      BY <1>2, <2>2
  <1>4. \A n \in S : m <= n
    BY <1>3
  <1> QED
    BY <1>4

LEMMA FiniteBelow ==
  ASSUME NEW n \in Nat, NEW S, S \subseteq 1 .. n
  PROVE  IsFiniteSet(S) /\ Cardinality(S) \in Nat
  <1>1. IsFiniteSet(1 .. n)
    <2>1. 1 \in Int /\ n \in Int
      OBVIOUS
    <2> QED
      BY <2>1, FS_Interval
  <1>2. S \in SUBSET (1 .. n)
    OBVIOUS
  <1>3. IsFiniteSet(S)
    BY <1>1, <1>2, FS_Subset
  <1> QED
    BY <1>3, FS_CardinalityType

(* The k-th element of a finite set of numbers is there to be chosen.      *)
LEMMA KthOf ==
  ASSUME NEW n \in Nat, NEW S, S \subseteq 1 .. n, NEW k \in 1 .. Cardinality(S)
  PROVE  \E i \in S : Cardinality({j \in S : j <= i}) = k
  <1> DEFINE Upto(i) == {j \in S : j <= i}
  <1>1. ASSUME NEW i
        PROVE  IsFiniteSet(Upto(i)) /\ Cardinality(Upto(i)) \in Nat
    <2>1. Upto(i) \subseteq 1 .. n
      OBVIOUS
    <2> QED
      BY <2>1, FiniteBelow
  <1>2. Cardinality(S) \in Nat
    BY FiniteBelow
  <1>3. Upto(n) = S /\ Upto(0) = {}
    <2>1. \A j \in S : j <= n /\ ~(j <= 0)
      OBVIOUS
    <2> QED
      BY <2>1
  <1>4. ASSUME NEW i \in Nat, i # 0
        PROVE  /\ i \in S => Upto(i) = Upto(i - 1) \cup {i} /\ i \notin Upto(i - 1)
               /\ i \notin S => Upto(i) = Upto(i - 1)
    <2>1. \A j \in S : j \in Nat /\ (j <= i <=> j <= i - 1 \/ j = i) /\ ~(i <= i - 1)
      OBVIOUS
    <2> QED
      BY <2>1
  <1> HIDE DEF Upto
  <1> DEFINE T == {i \in Nat : Cardinality(Upto(i)) >= k}
  <1>5. n \in T
    BY <1>2, <1>3
  <1>6. PICK i \in T : \A m \in T : i <= m
    <2>1. T \subseteq Nat /\ T # {}
      BY <1>5
    <2> HIDE DEF T
    <2> QED
      BY <2>1, SmallestOf
  <1>7. i \in Nat /\ Cardinality(Upto(i)) >= k
    OBVIOUS
  <1>8. i # 0
    <2>1. Cardinality(Upto(0)) = 0
      BY <1>3, FS_EmptySet
    <2> QED
      BY <1>7, <2>1
  <1>9. Cardinality(Upto(i - 1)) < k
    <2>1. i - 1 \in Nat /\ ~(i <= i - 1)
      BY <1>7, <1>8
    <2>2. i - 1 \notin T
      BY <1>6, <2>1
    <2>3. Cardinality(Upto(i - 1)) \in Nat
      BY <1>1
    <2> QED
      BY <2>1, <2>2, <2>3
  <1>10. i \in S
    BY <1>4, <1>7, <1>8, <1>9, <1>1
  <1>11. Cardinality(Upto(i)) = Cardinality(Upto(i - 1)) + 1
    <2>1. i \notin Upto(i - 1) /\ Upto(i) = Upto(i - 1) \cup {i}
      BY <1>4, <1>7, <1>8, <1>10
    <2>2. IsFiniteSet(Upto(i - 1))
      BY <1>1
    <2> QED
      BY <2>1, <2>2, FS_AddElement
  <1>12. Cardinality(Upto(i)) = k
    <2>1. Cardinality(Upto(i - 1)) \in Nat
      BY <1>1
    <2> QED
      BY <1>7, <1>9, <1>11, <2>1
  <1> QED
    BY <1>10, <1>12 DEF Upto

(* Loading keeps valid lines only.                                         *)
LEMMA LoadedGood ==
  ASSUME NEW t \in Tables
  PROVE  Loaded(t) \in Seq(Line) /\ \A i \in DOMAIN Loaded(t) : Good(Loaded(t)[i])
  <1> DEFINE New(i) == Good(t[i]) /\ \A j \in 1 .. i - 1 : Good(t[j]) => t[j].folder # t[i].folder
             kept == {i \in DOMAIN t : New(i)}
             At(n) == CHOOSE i \in kept : Cardinality({j \in kept : j <= i}) = n
             c == Cardinality(kept)
  <1>1. Loaded(t) = [n \in 1 .. c |-> t[At(n)]]
    BY DEF Loaded
  <1>2. t \in Seq(Line) /\ Len(t) \in Nat /\ DOMAIN t = 1 .. Len(t) /\ kept \subseteq 1 .. Len(t)
    BY Sizes
  <1>3. c \in Nat
    <2> HIDE DEF kept
    <2> QED
      BY <1>2, FiniteBelow
  <1>4. ASSUME NEW n \in 1 .. c
        PROVE  t[At(n)] \in Line /\ Good(t[At(n)])
    <2>1. \E i \in kept : Cardinality({j \in kept : j <= i}) = n
      <3> HIDE DEF kept
      <3> QED
        BY <1>2, <1>4, KthOf
    <2>2. At(n) \in kept
      <3> HIDE DEF kept
      <3> QED
        BY <2>1
    <2> QED
      BY <1>2, <2>2
  <1> HIDE DEF At, c
  <1>5. Loaded(t) \in Seq(Line)
    BY <1>1, <1>3, <1>4
  <1> QED
    BY <1>1, <1>4, <1>5

-----------------------------------------------------------------------------
(* The tree.                                                               *)

LEMMA NewDirIsNew ==
  ASSUME TreeOK(dirs)
  PROVE  /\ NewDir \in Nat /\ NewDir # newroot /\ NewDir \notin DOMAIN dirs
         /\ newroot \notin DOMAIN dirs /\ DOMAIN dirs \subseteq Nat
         /\ \E k \in Nat : DOMAIN dirs \cup {NewDir} \subseteq 1 .. k
  <1>1. PICK k \in Nat : DOMAIN dirs \subseteq 1 .. k
    BY DEF TreeOK
  <1> DEFINE S == DOMAIN dirs \cup {newroot}
             T == {k - x : x \in S}
  <1>2. T \subseteq Nat /\ T # {} /\ S \subseteq 0 .. k
    BY <1>1 DEF newroot
  <1>3. PICK m \in T : \A y \in T : m <= y
    <2> HIDE DEF T
    <2> QED
      BY <1>2, SmallestOf
  <1>4. PICK x \in S : m = k - x
    OBVIOUS
  <1>5. ASSUME NEW y \in S
        PROVE  x >= y
    <2>1. k - y \in T /\ x \in Nat /\ y \in Nat
      BY <1>2
    <2>2. k - x <= k - y
      BY <1>3, <1>4, <2>1
    <2> HIDE DEF S, T
    <2> QED
      BY <2>1, <2>2
  <1> DEFINE M == CHOOSE z \in S : \A y \in S : z >= y
  <1>6. M \in S /\ \A y \in S : M >= y
    BY <1>4, <1>5
  <1>7. NewDir = M + 1
    BY DEF NewDir, Max
  <1> HIDE DEF M, S
  <1>8. M \in 0 .. k
    BY <1>2, <1>6
  <1>9. NewDir \notin S
    BY <1>2, <1>6, <1>7, <1>8
  <1>10. NewDir \in 1 .. k + 1
    BY <1>7, <1>8
  <1> QED
    BY <1>1, <1>9, <1>10 DEF S, newroot

(* A new directory in one that is there, under a name nothing there has.   *)
LEMMA NewTree ==
  ASSUME EntriesOK, TreeOK(dirs), NEW up \in DOMAIN dirs \cup {newroot},
         NEW name \in Name, NEW made \in Nat,
         name = IdName(made) \/ name.num = 0,
         \A n \in Children(dirs, up) : dirs[n].name # name
  PROVE  TreeOK(WithNew(up, name, made))
  <1> DEFINE d == WithNew(up, name, made)
             new == [up |-> up, name |-> name, id |-> NoId, made |-> made]
  <1>1. /\ NewDir \in Nat /\ NewDir # newroot /\ NewDir \notin DOMAIN dirs
        /\ newroot \notin DOMAIN dirs /\ DOMAIN dirs \subseteq Nat
        /\ \E k \in Nat : DOMAIN dirs \cup {NewDir} \subseteq 1 .. k
    BY NewDirIsNew
  <1>2. /\ DOMAIN d = DOMAIN dirs \cup {NewDir}
        /\ \A n \in DOMAIN dirs : d[n] = dirs[n]
        /\ d[NewDir] = new
        /\ d = [n \in DOMAIN d |-> d[n]]
    BY <1>1 DEF WithNew
  <1>3. new \in Dir /\ new.up = up /\ new.name = name /\ new.id = NoId /\ new.made = made
    BY <1>1 DEF Dir, NoId, newroot
  <1>4. /\ dirs \in [DOMAIN dirs -> Dir]
        /\ \A n \in DOMAIN dirs : /\ dirs[n].up \in DOMAIN dirs \cup {newroot}
                                  /\ IdKnown(dirs[n])
                                  /\ NameKnown(dirs[n])
        /\ \A n, m \in DOMAIN dirs :
             dirs[n].up = dirs[m].up /\ dirs[n].name = dirs[m].name => n = m
    BY DEF TreeOK
  <1> HIDE DEF d, new
  <1>5. d \in [DOMAIN d -> Dir]
    BY <1>2, <1>3, <1>4
  <1>6. NameKnown(new) /\ IdKnown(new)
    BY <1>3 DEF NameKnown, IdKnown
  <1>7. \A n \in DOMAIN d : /\ d[n].up \in DOMAIN d \cup {newroot}
                            /\ IdKnown(d[n])
                            /\ NameKnown(d[n])
    BY <1>2, <1>3, <1>4, <1>6
  <1>8. \A n, m \in DOMAIN d : d[n].up = d[m].up /\ d[n].name = d[m].name => n = m
    BY <1>2, <1>3, <1>4 DEF Children
  <1>9. PICK r \in [DOMAIN dirs -> Nat] :
          \A n \in DOMAIN dirs : dirs[n].up # newroot => r[dirs[n].up] < r[n]
    BY DEF TreeOK
  <1> DEFINE s == [n \in DOMAIN d |-> IF n \in DOMAIN dirs THEN r[n]
                                      ELSE IF up = newroot THEN 0 ELSE r[up] + 1]
  <1>10. s \in [DOMAIN d -> Nat]
    BY <1>2, <1>9
  <1>11. \A n \in DOMAIN d : d[n].up # newroot => s[d[n].up] < s[n]
    <2> SUFFICES ASSUME NEW n \in DOMAIN d, d[n].up # newroot
                 PROVE  s[d[n].up] < s[n]
      OBVIOUS
    <2>1. CASE n \in DOMAIN dirs
      BY <1>2, <1>4, <1>9, <2>1
    <2>2. CASE n \notin DOMAIN dirs
      <3>1. d[n].up = up /\ up \in DOMAIN dirs
        BY <1>2, <1>3, <2>2
      <3> QED
        BY <1>2, <1>9, <2>2, <3>1
    <2> QED
      BY <2>1, <2>2
  <1>12. TreeOK(d)
    BY <1>1, <1>2, <1>5, <1>7, <1>8, <1>10, <1>11 DEF TreeOK
  <1> QED
    BY <1>12 DEF d

(* What rename replaces: an empty directory beside n.                      *)
Gone(n, up, name) == {o \in Children(dirs, up) : dirs[o].name = name /\ o # n}

LEMMA RenamedTree ==
  ASSUME EntriesOK, TreeOK(dirs), NEW n \in DOMAIN dirs,
         NEW up \in DOMAIN dirs \cup {newroot}, NEW name \in Name,
         NameKnown([dirs[n] EXCEPT !.up = up, !.name = name]),
         \/ up = dirs[n].up
         \/ /\ dirs[n].up = newroot /\ up \in DOMAIN dirs
            /\ dirs[up].up = newroot /\ up # n
  PROVE  LET d == Renamed(n, up, name) IN
         /\ TreeOK(d)
         /\ DOMAIN d \subseteq DOMAIN dirs /\ n \in DOMAIN d
         /\ \A m \in DOMAIN dirs :
              dirs[m].id # NoId \/ Children(dirs, m) # {} \/ dirs[m].up # up => m \in DOMAIN d
         /\ \A m \in DOMAIN d : m # n => d[m] = dirs[m]
         /\ d[n].up \in {dirs[n].up, up} /\ d[n].id = dirs[n].id /\ d[n].made = dirs[n].made
  <1> DEFINE d == Renamed(n, up, name)
             gone == Gone(n, up, name)
             new == [dirs[n] EXCEPT !.up = up, !.name = name]
  <1>1. /\ dirs \in [DOMAIN dirs -> Dir]
        /\ \A m \in DOMAIN dirs : /\ dirs[m].up \in DOMAIN dirs \cup {newroot}
                                  /\ IdKnown(dirs[m])
                                  /\ NameKnown(dirs[m])
        /\ \A m, o \in DOMAIN dirs :
             dirs[o].up = dirs[m].up /\ dirs[o].name = dirs[m].name => o = m
        /\ DOMAIN dirs \subseteq Nat
    BY NewDirIsNew DEF TreeOK
  <1>2. CASE d = dirs
    BY <1>2
  <1>3. CASE d # dirs
    <2>1. /\ \A o \in gone : dirs[o].id = NoId /\ Children(dirs, o) = {}
          /\ d = [m \in DOMAIN dirs \ gone |-> IF m = n THEN new ELSE dirs[m]]
      <3> DEFINE empty == {o \in gone : dirs[o].id = NoId /\ Children(dirs, o) = {}}
      <3>1. d = IF gone # empty THEN dirs
                ELSE [m \in DOMAIN dirs \ gone |-> IF m = n THEN new ELSE dirs[m]]
        BY DEF Renamed, Gone
      <3>2. gone = empty
        BY <1>3, <3>1
      <3> QED
        BY <3>1, <3>2
    <2>2. gone \subseteq DOMAIN dirs /\ n \notin gone
          /\ \A o \in gone : dirs[o].up = up
      BY DEF Gone, Children
    <2>3. /\ DOMAIN d = DOMAIN dirs \ gone /\ n \in DOMAIN d /\ d[n] = new
          /\ \A m \in DOMAIN d : m # n => d[m] = dirs[m]
          /\ d = [m \in DOMAIN d |-> d[m]]
      BY <2>1, <2>2
    <2>4. /\ new \in Dir /\ new.up = up /\ new.name = name
          /\ new.id = dirs[n].id /\ new.made = dirs[n].made
      <3>1. dirs[n] \in Dir
        BY <1>1
      <3>2. up \in Nat
        BY <1>1 DEF newroot
      <3> QED
        BY <3>1, <3>2 DEF Dir
    <2>5. PICK r \in [DOMAIN dirs -> Nat] :
            \A m \in DOMAIN dirs : dirs[m].up # newroot => r[dirs[m].up] < r[m]
      BY DEF TreeOK
    <2>6. up \notin gone
      <3> SUFFICES ASSUME up \in gone
                   PROVE  FALSE
        OBVIOUS
      <3>1. up \in DOMAIN dirs /\ dirs[up].up = up /\ up # newroot
        BY <2>2, NewDirIsNew
      <3> QED
        BY <2>5, <3>1
    <2>7. NameKnown(new) /\ IdKnown(new)
      BY <1>1, <2>4 DEF IdKnown
    <2> HIDE DEF d, new, gone
    <2>8. d \in [DOMAIN d -> Dir]
      BY <1>1, <2>3, <2>4
    <2>9. \A m \in DOMAIN d : dirs[m].up \in DOMAIN d \cup {newroot}
      <3> SUFFICES ASSUME NEW m \in DOMAIN d, dirs[m].up \in gone
                   PROVE  FALSE
        BY <1>1, <2>3
      <3>1. m \in Children(dirs, dirs[m].up)
        BY <2>3 DEF Children
      <3> QED
        BY <2>1, <3>1
    <2>10. \A m \in DOMAIN d : /\ d[m].up \in DOMAIN d \cup {newroot}
                               /\ IdKnown(d[m])
                               /\ NameKnown(d[m])
      BY <1>1, <2>3, <2>4, <2>6, <2>7, <2>9
    <2>11. ASSUME NEW m \in DOMAIN d, m # n
           PROVE  ~(dirs[m].up = up /\ dirs[m].name = name)
      BY <2>3, <2>11 DEF gone, Gone, Children
    <2>12. \A m, o \in DOMAIN d : d[o].up = d[m].up /\ d[o].name = d[m].name => o = m
      BY <1>1, <2>3, <2>4, <2>11
    <2>13. \E s \in [DOMAIN d -> Nat] :
             \A m \in DOMAIN d : d[m].up # newroot => s[d[m].up] < s[m]
      <3>1. CASE up = dirs[n].up
        <4> DEFINE s == [m \in DOMAIN d |-> r[m]]
        <4>1. s \in [DOMAIN d -> Nat]
          BY <2>3, <2>5
        <4>2. \A m \in DOMAIN d : d[m].up = dirs[m].up
          BY <2>3, <2>4, <3>1
        <4>3. \A m \in DOMAIN d : d[m].up # newroot => s[d[m].up] < s[m]
          BY <2>3, <2>5, <2>10, <4>2
        <4> QED
          BY <4>1, <4>3
      <3>2. CASE /\ dirs[n].up = newroot /\ up \in DOMAIN dirs
                 /\ dirs[up].up = newroot /\ up # n
        <4> DEFINE s == [m \in DOMAIN d |-> IF m = up THEN r[up] ELSE r[m] + r[up] + 1]
        <4>1. s \in [DOMAIN d -> Nat] /\ r[up] \in Nat
          BY <2>3, <2>5, <3>2
        <4>2. ASSUME NEW m \in DOMAIN d, d[m].up # newroot
              PROVE  s[d[m].up] < s[m]
          <5>1. d[m].up \in DOMAIN d /\ m \in DOMAIN dirs /\ r[m] \in Nat
            BY <2>3, <2>5, <2>10, <4>2
          <5>2. m # up
            BY <2>3, <3>2, <4>2
          <5>3. CASE d[m].up = up
            BY <4>1, <5>1, <5>2, <5>3
          <5>4. CASE d[m].up # up
            <6>1. m # n /\ d[m].up = dirs[m].up
              BY <2>3, <2>4, <5>4
            <6>2. r[dirs[m].up] < r[m] /\ dirs[m].up \in DOMAIN dirs /\ r[dirs[m].up] \in Nat
              BY <2>3, <2>5, <4>2, <5>1, <6>1
            <6> QED
              BY <4>1, <5>1, <5>2, <5>4, <6>1, <6>2
          <5> QED
            BY <5>3, <5>4
        <4> HIDE DEF s
        <4> QED
          BY <4>1, <4>2
      <3> QED
        BY <3>1, <3>2
    <2>14. \E k \in Nat : DOMAIN d \subseteq 1 .. k
      <3>1. \E k \in Nat : DOMAIN dirs \subseteq 1 .. k
        BY DEF TreeOK
      <3> QED
        BY <2>3, <3>1
    <2>15. TreeOK(d)
      BY <2>8, <2>10, <2>12, <2>13, <2>14 DEF TreeOK
    <2>16. \A m \in DOMAIN dirs :
             dirs[m].id # NoId \/ Children(dirs, m) # {} \/ dirs[m].up # up => m \in DOMAIN d
      BY <2>1, <2>2, <2>3
    <2> QED
      BY <2>3, <2>4, <2>15, <2>16 DEF d
  <1> QED
    BY <1>2, <1>3

-----------------------------------------------------------------------------
(* Step 4 leaves the files alone, and step 5 the directories.              *)

LEMMA Basics ==
  ASSUME IInv
  PROVE  /\ EntriesOK /\ TreeOK(dirs) /\ Control /\ Stacked /\ Placed /\ Traversed
         /\ stack \in Seq(Frame) /\ Len(stack) \in Nat
         /\ DOMAIN stack = 1 .. Len(stack)
         /\ newroot \notin DOMAIN dirs /\ dirs \in [DOMAIN dirs -> Dir]
         /\ \A n \in DOMAIN dirs : dirs[n].up \in DOMAIN dirs \cup {newroot}
  <1>1. /\ EntriesOK /\ TreeOK(dirs) /\ Control /\ Stacked /\ Placed /\ Traversed
    BY DEF IInv
  <1>2. stack \in Seq(Frame)
    BY <1>1 DEF Stacked
  <1>3. Len(stack) \in Nat /\ DOMAIN stack = 1 .. Len(stack)
    BY <1>2
  <1>4. newroot \notin DOMAIN dirs
    BY <1>1, NewDirIsNew
  <1>5. /\ dirs \in [DOMAIN dirs -> Dir]
        /\ \A n \in DOMAIN dirs : dirs[n].up \in DOMAIN dirs \cup {newroot}
    BY <1>1 DEF TreeOK
  <1> QED
    BY <1>1, <1>2, <1>3, <1>4, <1>5

LEMMA TreeSame ==
  ASSUME UNCHANGED entries, TreeOK(dirs')
  PROVE  TreeOK(dirs)'
  BY DEF TreeOK, NameKnown, IdKnown, NoNumbers, EntryOf, Indices

LEMMA Step4Files ==
  ASSUME IInv, pc \in PCs4, pc' \in PCs4, UNCHANGED <<files, moving>>
  PROVE  Placed' /\ Traversed'
  BY DEF IInv, Placed, Traversed, PCs4, PCs5

(* What is known of the stack as long as no directory is opened or left.   *)
LEMMA StackStays ==
  ASSUME IInv, stack' = stack \/ stack' = <<>>,
         pc' \in {"rename", "unlink", "move", "files"} => stack' # <<>>,
         \A m \in DOMAIN dirs : m \in DOMAIN dirs' /\ dirs'[m].up = dirs[m].up,
         pc' # "unlink"
  PROVE  Stacked'
  <1>1. CASE stack' = <<>>
    BY <1>1 DEF Stacked
  <1>2. CASE stack' = stack
    <2>1. /\ stack \in Seq(Frame)
          /\ stack # <<>> => stack[1].dir = newroot
          /\ \A k \in 1 .. Len(stack) - 1 : stack[k + 1].dir \in Children(dirs, stack[k].dir)
      BY Basics DEF Stacked
    <2>2. \A u : Children(dirs, u) \subseteq Children(dirs', u)
      BY DEF Children
    <2>3. \A k \in 1 .. Len(stack') - 1 :
            stack'[k + 1].dir \in Children(dirs', stack'[k].dir)
      BY <1>2, <2>1, <2>2
    <2>4. stack' \in Seq(Frame) /\ (stack' # <<>> => stack'[1].dir = newroot)
      BY <1>2, <2>1
    <2> QED
      BY <2>3, <2>4 DEF Stacked
  <1> QED
    BY <1>1, <1>2

LEMMA StartPathTyped ==
  ASSUME IInv, NEW n \in Nat, n > 0, StartPath(n)
  PROVE  /\ pc' \in {"paths", "script"} /\ path' \in Seq(Nat) /\ Len(path') <= MaxDepth
         /\ id' \in Nat
  <1>1. entries \in Seq(Line) /\ path \in Seq(Nat) /\ Len(path) <= MaxDepth /\ id \in Nat
    BY DEF IInv, EntriesOK, Control
  <1>2. CASE n <= Len(entries)
    <2>1. entries[n] \in Line
      BY <1>1, <1>2
    <2>2. entries[n].folder \in Nat /\ entries[n].parent \in Nat
      BY <2>1 DEF Line
    <2>3. pc' = "paths" /\ path' = <<entries[n].folder>> /\ id' = entries[n].parent
      BY <1>2 DEF StartPath
    <2> QED
      BY <2>2, <2>3, Sizes
  <1>3. CASE ~(n <= Len(entries))
    BY <1>1, <1>3 DEF StartPath
  <1> QED
    BY <1>2, <1>3

LEMMA InitIInv == Init => IInv
  <1> SUFFICES ASSUME Init
               PROVE  IInv
    OBVIOUS
  <1>1. /\ pc = "load" /\ path = <<>> /\ id = NoId /\ script = <<>> /\ at = newroot
        /\ dirs = [n \in {} |-> {}] /\ stack = <<>> /\ repeats = 0 /\ moving = {}
    BY DEF Init, Init4
  <1>2. EntriesOK
    BY LoadedGood DEF Init, Init4, EntriesOK, Indices
  <1>3. TreeOK(dirs)
    <2>1. DOMAIN dirs = {}
      BY <1>1
    <2>2. DOMAIN dirs \subseteq 1 .. 0 /\ 0 \in Nat
      BY <2>1
    <2>3. dirs \in [DOMAIN dirs -> Dir] /\ dirs \in [DOMAIN dirs -> Nat]
      BY <1>1, <2>1
    <2> QED
      BY <2>1, <2>2, <2>3 DEF TreeOK
  <1>4. Control
    BY <1>1, Sizes DEF Control, PCs4, NoId
  <1>5. Stacked
    BY <1>1 DEF Stacked
  <1>6. Placed
    <2>1. PICK fs \in FileSets : files = [f \in fs |-> [where |-> "restored", dir |-> f.folder]]
      BY DEF Init
    <2>2. \A f \in fs : f.folder \in Nat
      BY Sizes
    <2>3. files \in [fs -> [where : {"restored", "tree", "unknown"}, dir : Nat]]
      BY <2>1, <2>2
    <2> QED
      BY <1>1, <2>1, <2>3 DEF Placed
  <1>7. Traversed
    BY <1>1 DEF Traversed
  <1> QED
    BY <1>2, <1>3, <1>4, <1>5, <1>6, <1>7 DEF IInv

LEMMA LoadIInv ==
  ASSUME IInv, Load, UNCHANGED <<files, moving>>
  PROVE  IInv'
  <1>1. /\ pc = "load" /\ script' = << <<RootId>> >> /\ StartPath(1)
        /\ UNCHANGED <<entries, at, dirs, stack, repeats>>
    BY DEF Load
  <1>2. /\ pc' \in {"paths", "script"} /\ path' \in Seq(Nat) /\ Len(path') <= MaxDepth
        /\ id' \in Nat
    BY <1>1, StartPathTyped
  <1>3. script' \in Seq(Seq(Nat)) /\ script' # <<>>
    BY <1>1 DEF RootId
  <1>4. Control'
    BY <1>1, <1>2, <1>3, Basics DEF Control, PCs4
  <1>5. Stacked'
    BY <1>1, <1>2, Basics, StackStays
  <1>6. Placed' /\ Traversed'
    BY <1>1, <1>2, Step4Files DEF PCs4
  <1> QED
    BY <1>1, <1>4, <1>5, <1>6, TreeSame DEF IInv, EntriesOK, Indices

LEMMA ClimbIInv ==
  ASSUME IInv, Climb, UNCHANGED <<files, moving>>
  PROVE  IInv'
  <1>1. /\ pc = "paths" /\ ~TooBig /\ path' = <<id>> \o path
        /\ id' = IF id = RootId \/ EntryOf(id) = {} THEN NoId
                 ELSE entries[CHOOSE i \in EntryOf(id) : TRUE].parent
        /\ UNCHANGED <<entries, at, pc, script, dirs, stack, repeats>>
    BY DEF Climb
  <1>2. path \in Seq(Nat) /\ id \in Nat
    BY DEF IInv, Control
  <1>3. path' \in Seq(Nat) /\ Len(path') <= MaxDepth
    BY <1>1, <1>2, Sizes DEF TooBig
  <1>4. id' \in Nat
    <2>1. ASSUME NEW i \in EntryOf(id)
          PROVE  entries[i].parent \in Nat
      <3>1. entries[i] \in Line
        BY DEF EntryOf, Indices, IInv, EntriesOK
      <3> QED
        BY <3>1 DEF Line
    <2> QED
      BY <1>1, <2>1 DEF NoId
  <1>5. Control'
    BY <1>1, <1>3, <1>4, Basics DEF Control, PCs4
  <1>6. Stacked'
    BY <1>1, Basics, StackStays
  <1>7. Placed' /\ Traversed'
    BY <1>1, Step4Files DEF PCs4
  <1> QED
    BY <1>1, <1>5, <1>6, <1>7, TreeSame DEF IInv, EntriesOK, Indices

LEMMA PathDoneIInv ==
  ASSUME IInv, PathDone, UNCHANGED <<files, moving>>
  PROVE  IInv'
  <1>1. /\ pc = "paths" /\ script' = Append(script, path) /\ StartPath(Len(script) + 1)
        /\ UNCHANGED <<entries, at, dirs, stack, repeats>>
    BY DEF PathDone
  <1>2. path \in Seq(Nat) /\ script \in Seq(Seq(Nat)) /\ Len(script) + 1 \in Nat
        /\ Len(script) + 1 > 0
    BY DEF IInv, Control
  <1>3. /\ pc' \in {"paths", "script"} /\ path' \in Seq(Nat) /\ Len(path') <= MaxDepth
        /\ id' \in Nat
    BY <1>1, <1>2, StartPathTyped
  <1>4. script' \in Seq(Seq(Nat)) /\ script' # <<>>
    BY <1>1, <1>2
  <1>5. Control'
    BY <1>1, <1>3, <1>4, Basics DEF Control, PCs4
  <1>6. Stacked'
    BY <1>1, <1>3, Basics, StackStays
  <1>7. Placed' /\ Traversed'
    BY <1>1, <1>3, Step4Files DEF PCs4
  <1> QED
    BY <1>1, <1>5, <1>6, <1>7, TreeSame DEF IInv, EntriesOK, Indices

LEMMA MkdirIInv ==
  ASSUME IInv, Mkdir, UNCHANGED <<files, moving>>
  PROVE  IInv'
  <1> PICK name, there : name = IdName(Head(Head(script)))
                         /\ there = {n \in Children(dirs, at) : dirs[n].name = name}
    OBVIOUS
  <1>1. /\ pc = "script" /\ script # <<>> /\ Head(script) # <<>>
        /\ IF there # {}
           THEN at' = (CHOOSE n \in there : TRUE) /\ UNCHANGED dirs
           ELSE at' = NewDir /\ dirs' = WithNew(at, name, name.num)
        /\ script' = <<Tail(Head(script))>> \o Tail(script)
        /\ UNCHANGED <<entries, pc, path, id, stack, repeats>>
    BY DEF Mkdir
  <1>2. script \in Seq(Seq(Nat)) /\ at \in DOMAIN dirs \cup {newroot}
    BY DEF IInv, Control
  <1>3. Head(script) \in Seq(Nat) /\ Tail(script) \in Seq(Seq(Nat))
    BY <1>1, <1>2
  <1>4. Head(Head(script)) \in Nat /\ Tail(Head(script)) \in Seq(Nat)
    BY <1>1, <1>3
  <1>5. name \in Name /\ name.num \in Nat /\ name = IdName(name.num)
    BY <1>4, NamesTyped
  <1>6. script' \in Seq(Seq(Nat)) /\ script' # <<>>
    BY <1>1, <1>3, <1>4
  <1>7. /\ TreeOK(dirs') /\ at' \in DOMAIN dirs' \cup {newroot}
        /\ \A m \in DOMAIN dirs : m \in DOMAIN dirs' /\ dirs'[m].up = dirs[m].up
    <2>1. CASE there # {}
      <3>1. (CHOOSE n \in there : TRUE) \in DOMAIN dirs
        BY <2>1 DEF Children
      <3> QED
        BY <1>1, <2>1, <3>1, Basics
    <2>2. CASE there = {}
      <3>1. \A n \in Children(dirs, at) : dirs[n].name # name
        BY <2>2
      <3>2. /\ TreeOK(WithNew(at, name, name.num))
            /\ DOMAIN WithNew(at, name, name.num) = DOMAIN dirs \cup {NewDir}
            /\ \A n \in DOMAIN dirs : WithNew(at, name, name.num)[n] = dirs[n]
        <4>1. EntriesOK /\ TreeOK(dirs)
          BY Basics
        <4>2. name = IdName(name.num) \/ name.num = 0
          BY <1>5
        <4>3. TreeOK(WithNew(at, name, name.num))
          BY <1>2, <1>5, <3>1, <4>1, <4>2, NewTree
        <4>4. /\ DOMAIN WithNew(at, name, name.num) = DOMAIN dirs \cup {NewDir}
              /\ \A n \in DOMAIN dirs : WithNew(at, name, name.num)[n] = dirs[n]
          BY <4>1, NewDirIsNew DEF WithNew
        <4> QED
          BY <4>3, <4>4
      <3> QED
        BY <1>1, <2>2, <3>2
    <2> QED
      BY <2>1, <2>2
  <1>8. Control'
    BY <1>1, <1>6, <1>7, Basics DEF Control, PCs4
  <1>9. Stacked'
    BY <1>1, <1>7, StackStays
  <1>10. Placed' /\ Traversed'
    BY <1>1, Step4Files DEF PCs4
  <1> QED
    BY <1>1, <1>7, <1>8, <1>9, <1>10, Basics, TreeSame DEF IInv, EntriesOK, Indices

(* What a step changes of ids only leaves the tree a tree.                 *)
LEMMA IdsOnly ==
  ASSUME TreeOK(dirs), NEW ids \in [DOMAIN dirs -> Nat],
         \A n \in DOMAIN dirs : IdKnown([dirs[n] EXCEPT !.id = ids[n]])
  PROVE  LET d == [n \in DOMAIN dirs |-> [dirs[n] EXCEPT !.id = ids[n]]] IN
         TreeOK(d) /\ \A n \in DOMAIN dirs : d[n].up = dirs[n].up
  <1> DEFINE d == [n \in DOMAIN dirs |-> [dirs[n] EXCEPT !.id = ids[n]]]
  <1>1. dirs \in [DOMAIN dirs -> Dir]
    BY DEF TreeOK
  <1>2. ASSUME NEW n \in DOMAIN dirs
        PROVE  /\ d[n] \in Dir /\ d[n].up = dirs[n].up /\ d[n].name = dirs[n].name
               /\ d[n].made = dirs[n].made /\ d[n].id = ids[n]
    <2>1. dirs[n] \in Dir /\ ids[n] \in Nat
      BY <1>1
    <2> QED
      BY <2>1 DEF Dir
  <1>3. DOMAIN d = DOMAIN dirs /\ d = [n \in DOMAIN d |-> d[n]]
    OBVIOUS
  <1> HIDE DEF d
  <1>4. d \in [DOMAIN d -> Dir]
    BY <1>2, <1>3
  <1>5. \A n \in DOMAIN d : /\ d[n].up \in DOMAIN d \cup {newroot}
                            /\ IdKnown(d[n])
                            /\ NameKnown(d[n])
    <2>1. \A n \in DOMAIN d : d[n] = [dirs[n] EXCEPT !.id = ids[n]]
      BY DEF d
    <2>2. \A n \in DOMAIN d : IdKnown(d[n])
      BY <1>3, <2>1
    <2> QED
      BY <1>2, <1>3, <2>2 DEF TreeOK, NameKnown
  <1>6. \A n, m \in DOMAIN d : d[n].up = d[m].up /\ d[n].name = d[m].name => n = m
    BY <1>2, <1>3 DEF TreeOK
  <1>7. \E r \in [DOMAIN d -> Nat] :
          \A n \in DOMAIN d : d[n].up # newroot => r[d[n].up] < r[n]
    BY <1>2, <1>3 DEF TreeOK
  <1>8. \E k \in Nat : DOMAIN d \subseteq 1 .. k
    BY <1>3 DEF TreeOK
  <1> QED
    BY <1>2, <1>4, <1>5, <1>6, <1>7, <1>8 DEF TreeOK, d

LEMMA EchoTree ==
  ASSUME IInv, Echo
  PROVE  /\ TreeOK(dirs') /\ DOMAIN dirs' = DOMAIN dirs
         /\ \A m \in DOMAIN dirs : dirs'[m].up = dirs[m].up
  <1>1. dirs' = [dirs EXCEPT ![at].id = dirs[at].name.num]
    BY DEF Echo
  <1> DEFINE ids == [n \in DOMAIN dirs |-> IF n = at THEN dirs[n].name.num ELSE dirs[n].id]
             d == [n \in DOMAIN dirs |-> [dirs[n] EXCEPT !.id = ids[n]]]
  <1>2. /\ \A n \in DOMAIN dirs : dirs[n] \in Dir /\ IdKnown(dirs[n]) /\ NameKnown(dirs[n])
        /\ dirs = [n \in DOMAIN dirs |-> dirs[n]]
    BY Basics DEF TreeOK
  <1>3. /\ ids \in [DOMAIN dirs -> Nat]
        /\ \A n \in DOMAIN dirs : dirs[n].made = NoId => ids[n] = NoId
        /\ NoNumbers => \A n \in DOMAIN dirs : ids[n] \in {NoId, dirs[n].made}
    <2>1. ids \in [DOMAIN dirs -> Nat]
      BY <1>2 DEF Dir, Name
    <2>2. ASSUME NEW n \in DOMAIN dirs
          PROVE  /\ dirs[n].made = NoId => dirs[n].name.num = NoId
                 /\ NoNumbers => dirs[n].name.num \in {NoId, dirs[n].made}
      <3>1. EntryOf(NoId) = {}
        BY Basics DEF EntriesOK, EntryOf, Good, NoId
      <3>2. NameKnown(dirs[n])
        BY <1>2
      <3>3. dirs[n].name = IdName(dirs[n].made) => dirs[n].name.num = dirs[n].made
        BY DEF IdName
      <3> QED
        BY <3>1, <3>2, <3>3 DEF NameKnown, NoNumbers, NoId
    <2> QED
      BY <1>2, <2>1, <2>2 DEF IdKnown
  <1>4. \A n \in DOMAIN dirs : [dirs[n] EXCEPT !.id = dirs[n].id] = dirs[n]
    BY <1>2 DEF Dir
  <1>5. dirs' = d
    <2>1. ASSUME NEW n \in DOMAIN dirs
          PROVE  dirs'[n] = d[n]
      <3>1. CASE n = at
        <4>1. dirs'[n] = [dirs[n] EXCEPT !.id = dirs[n].name.num]
          BY <1>1, <3>1
        <4> QED
          BY <3>1, <4>1
      <3>2. CASE n # at
        BY <1>1, <1>4, <3>2
      <3> QED
        BY <3>1, <3>2
    <2>2. DOMAIN dirs' = DOMAIN dirs /\ dirs' = [n \in DOMAIN dirs |-> dirs'[n]]
      BY <1>1
    <2> QED
      BY <2>1, <2>2
  <1>6. TreeOK(d) /\ \A n \in DOMAIN dirs : d[n].up = dirs[n].up
    <2>1. TreeOK(dirs)
      BY Basics
    <2>2. ASSUME NEW n \in DOMAIN dirs
          PROVE  IdKnown([dirs[n] EXCEPT !.id = ids[n]])
      <3>1. PICK e : e = [dirs[n] EXCEPT !.id = ids[n]]
        OBVIOUS
      <3>2. e.id = ids[n] /\ e.made = dirs[n].made
        BY <1>2, <3>1 DEF Dir
      <3>3. /\ dirs[n].made = NoId => ids[n] = NoId
            /\ NoNumbers => ids[n] \in {NoId, dirs[n].made}
        <4> HIDE DEF ids
        <4> QED
          BY <1>3
      <3>4. IdKnown(e)
        <4> HIDE DEF ids
        <4>1. e.made = NoId => e.id = NoId
          BY ONLY <3>2, <3>3
        <4>2. NoNumbers => e.id \in {NoId, e.made}
          BY ONLY <3>2, <3>3
        <4> QED
          BY ONLY <4>1, <4>2 DEF IdKnown
      <3> QED
        BY <3>1, <3>4
    <2> HIDE DEF ids
    <2> QED
      BY <1>3, <2>1, <2>2, IdsOnly
  <1>7. DOMAIN d = DOMAIN dirs
    OBVIOUS
  <1> HIDE DEF d
  <1> QED
    BY <1>5, <1>6, <1>7

LEMMA EchoIInv ==
  ASSUME IInv, Echo, UNCHANGED <<files, moving>>
  PROVE  IInv'
  <1>1. /\ pc = "script" /\ script # <<>> /\ at' = newroot /\ script' = Tail(script)
        /\ UNCHANGED <<entries, pc, path, id, stack, repeats>>
    BY DEF Echo
  <1>2. /\ TreeOK(dirs') /\ DOMAIN dirs' = DOMAIN dirs
        /\ \A m \in DOMAIN dirs : dirs'[m].up = dirs[m].up
    BY EchoTree
  <1>3. script' \in Seq(Seq(Nat))
    BY <1>1, Basics DEF Control
  <1>4. Control'
    BY <1>1, <1>3, Basics DEF Control
  <1>5. Stacked'
    BY <1>1, <1>2, StackStays
  <1>6. Placed' /\ Traversed'
    BY <1>1, Step4Files DEF PCs4
  <1> QED
    BY <1>1, <1>2, <1>4, <1>5, <1>6, Basics, TreeSame DEF IInv, EntriesOK, Indices

LEMMA ScriptKilledIInv ==
  ASSUME IInv, ScriptKilled, UNCHANGED <<files, moving>>
  PROVE  IInv'
  <1>1. /\ pc = "script" /\ repeats < MaxRepeats /\ repeats' = repeats + 1
        /\ script' = <<>> /\ at' = newroot
        /\ UNCHANGED <<entries, pc, path, id, dirs, stack>>
    BY DEF ScriptKilled
  <1>2. repeats' \in 0 .. MaxRepeats
    BY <1>1, Basics, Sizes DEF Control
  <1>3. Control'
    BY <1>1, <1>2, Basics DEF Control
  <1>4. Stacked'
    BY <1>1, StackStays
  <1>5. Placed' /\ Traversed'
    BY <1>1, Step4Files DEF PCs4
  <1> QED
    BY <1>1, <1>3, <1>4, <1>5, Basics, TreeSame DEF IInv, EntriesOK, Indices

LEMMA StreamTyped ==
  ASSUME IInv, NEW n \in DOMAIN dirs \cup {newroot}
  PROVE  /\ Stream(n) \in Frame /\ Stream(n).dir = n /\ Stream(n).seen = {}
         /\ \A c \in Children(dirs, n) : dirs[c].name \in Stream(n).open
  <1>1. n \in Nat
    BY Basics, NewDirIsNew DEF newroot
  <1>2. \A c \in Children(dirs, n) : dirs[c].name \in Name
    BY Basics DEF Children, Dir
  <1> QED
    BY <1>1, <1>2 DEF Stream, Frame

LEMMA ScriptDoneIInv ==
  ASSUME IInv, ScriptDone, UNCHANGED <<files, moving>>
  PROVE  IInv'
  <1>1. /\ pc = "script" /\ script = <<>> /\ pc' = "rename" /\ stack' = <<Stream(newroot)>>
        /\ UNCHANGED <<entries, at, path, id, script, dirs, repeats>>
    BY DEF ScriptDone
  <1>2. Control'
    BY <1>1, Basics DEF Control, PCs4
  <1>3. Stream(newroot) \in Frame /\ Stream(newroot).dir = newroot
    BY StreamTyped
  <1>4. Stacked'
    BY <1>1, <1>3 DEF Stacked
  <1>5. Placed' /\ Traversed'
    BY <1>1, Step4Files DEF PCs4
  <1> QED
    BY <1>1, <1>2, <1>4, <1>5, Basics, TreeSame DEF IInv, EntriesOK, Indices

-----------------------------------------------------------------------------
(* The directories being read.                                             *)

LEMMA TopFrame ==
  ASSUME IInv, stack # <<>>
  PROVE  /\ Len(stack) \in DOMAIN stack /\ Len(stack) >= 1
         /\ top = stack[Len(stack)] /\ top \in Frame
         /\ top.dir \in DOMAIN dirs \cup {newroot}
         /\ Len(stack) > 1 => top.dir \in DOMAIN dirs
         /\ Len(stack) = 1 => top.dir = newroot
  <1>1. stack \in Seq(Frame) /\ Len(stack) \in Nat /\ DOMAIN stack = 1 .. Len(stack)
    BY Basics
  <1>2. Len(stack) >= 1 /\ Len(stack) \in DOMAIN stack
    BY <1>1
  <1>3. top = stack[Len(stack)] /\ top \in Frame
    BY <1>1, <1>2 DEF top
  <1>4. Len(stack) = 1 => top.dir = newroot
    BY <1>3, Basics DEF Stacked
  <1>5. ASSUME Len(stack) > 1
        PROVE  top.dir \in DOMAIN dirs
    <2>1. PICK k \in 1 .. Len(stack) - 1 : k + 1 = Len(stack)
      <3>1. Len(stack) - 1 \in 1 .. Len(stack) - 1 /\ (Len(stack) - 1) + 1 = Len(stack)
        BY <1>1, <1>5
      <3> QED
        BY <3>1
    <2>2. stack[k + 1].dir \in Children(dirs, stack[k].dir)
      BY Basics DEF Stacked
    <2> QED
      BY <1>3, <2>1, <2>2 DEF Children
  <1> QED
    BY <1>1, <1>2, <1>3, <1>4, <1>5

LEMMA SeenFrames ==
  ASSUME IInv, stack # <<>>, NEW n \in DOMAIN dirs
  PROVE  /\ Seen(n) \in Seq(Frame) /\ Len(Seen(n)) = Len(stack)
         /\ \A k \in 1 .. Len(stack) :
              /\ Seen(n)[k] \in Frame
              /\ Seen(n)[k].dir = stack[k].dir /\ Seen(n)[k].open = stack[k].open
              /\ k # Len(stack) => Seen(n)[k].seen = stack[k].seen
              /\ k = Len(stack) => Seen(n)[k].seen = stack[k].seen \cup {dirs[n].name}
  <1>1. stack \in Seq(Frame) /\ Len(stack) \in Nat /\ DOMAIN stack = 1 .. Len(stack)
    BY Basics
  <1>2. dirs[n].name \in Name
    <2>1. dirs[n] \in Dir
      BY Basics
    <2> QED
      BY <2>1 DEF Dir
  <1>3. Len(stack) \in 1 .. Len(stack)
    BY TopFrame, <1>1
  <1>4. Seen(n) = [stack EXCEPT ![Len(stack)] =
                     [stack[Len(stack)] EXCEPT !.seen = @ \cup {dirs[n].name}]]
    BY DEF Seen
  <1>5. ASSUME NEW k \in 1 .. Len(stack)
        PROVE  /\ Seen(n)[k] \in Frame
               /\ Seen(n)[k].dir = stack[k].dir /\ Seen(n)[k].open = stack[k].open
               /\ k # Len(stack) => Seen(n)[k].seen = stack[k].seen
               /\ k = Len(stack) => Seen(n)[k].seen = stack[k].seen \cup {dirs[n].name}
    <2>1. stack[k] \in Frame
      BY <1>1
    <2>2. CASE k = Len(stack)
      <3>1. Seen(n)[k] = [stack[k] EXCEPT !.seen = @ \cup {dirs[n].name}]
        BY <1>1, <1>4, <2>2
      <3> QED
        BY <1>2, <2>1, <2>2, <3>1 DEF Frame
    <2>3. CASE k # Len(stack)
      <3>1. Seen(n)[k] = stack[k]
        BY <1>1, <1>4, <2>3
      <3> QED
        BY <2>1, <2>3, <3>1
    <2> QED
      BY <2>2, <2>3
  <1>6. Len(Seen(n)) = Len(stack) /\ Seen(n) \in Seq(Frame)
    <2>1. DOMAIN Seen(n) = 1 .. Len(stack)
      BY <1>1, <1>4
    <2>2. Seen(n) = [k \in 1 .. Len(stack) |-> Seen(n)[k]]
      BY <1>4, <2>1
    <2>3. Seen(n) \in Seq(Frame)
      BY <1>1, <1>5, <2>2
    <2> QED
      BY <1>1, <2>1, <2>3
  <1> QED
    BY <1>5, <1>6

(* Going down into a directory.                                            *)
LEMMA Deeper ==
  ASSUME IInv, stack # <<>>, NEW n \in DOMAIN dirs, Unread(n),
         stack' = Append(Seen(n), Stream(n))
  PROVE  /\ stack' \in Seq(Frame) /\ Len(stack') = Len(stack) + 1
         /\ \A k \in 1 .. Len(stack) : stack'[k] = Seen(n)[k]
         /\ stack'[Len(stack) + 1] = Stream(n)
         /\ UNCHANGED <<dirs, pc>> /\ pc # "unlink" => Stacked'
  <1>1. Len(stack) \in Nat /\ Len(stack) >= 1
    BY Basics, TopFrame
  <1>2. Seen(n) \in Seq(Frame) /\ Len(Seen(n)) = Len(stack)
    BY SeenFrames
  <1>3. Stream(n) \in Frame /\ Stream(n).dir = n
    BY StreamTyped
  <1>4. /\ stack' \in Seq(Frame) /\ Len(stack') = Len(stack) + 1
        /\ \A k \in 1 .. Len(stack) : stack'[k] = Seen(n)[k]
        /\ stack'[Len(stack) + 1] = Stream(n)
    BY <1>1, <1>2, <1>3
  <1>5. ASSUME UNCHANGED <<dirs, pc>>, pc # "unlink"
        PROVE  Stacked'
    <2>1. stack'[1].dir = newroot
      <3>1. stack'[1].dir = stack[1].dir
        BY <1>1, <1>4, SeenFrames
      <3> QED
        BY <3>1, Basics DEF Stacked
    <2>2. ASSUME NEW k \in 1 .. Len(stack') - 1
          PROVE  stack'[k + 1].dir \in Children(dirs', stack'[k].dir)
      <3>1. k \in 1 .. Len(stack) /\ stack'[k].dir = stack[k].dir
        BY <1>1, <1>4, SeenFrames
      <3>2. CASE k = Len(stack)
        <4>1. n \in Children(dirs, stack[k].dir)
          BY <3>2 DEF Unread, top
        <4> QED
          BY <1>3, <1>4, <1>5, <3>1, <3>2, <4>1
      <3>3. CASE k # Len(stack)
        <4>1. k \in 1 .. Len(stack) - 1 /\ k + 1 \in 1 .. Len(stack)
          BY <1>1, <3>1, <3>3
        <4>2. stack'[k + 1].dir = stack[k + 1].dir
          BY <1>4, <4>1, SeenFrames
        <4>3. stack[k + 1].dir \in Children(dirs, stack[k].dir)
          BY <4>1, Basics DEF Stacked
        <4> QED
          BY <1>5, <3>1, <4>2, <4>3
      <3> QED
        BY <3>2, <3>3
    <2>3. stack' # <<>>
      BY <1>1, <1>4
    <2> QED
      BY <1>4, <1>5, <2>1, <2>2, <2>3 DEF Stacked
  <1> QED
    BY <1>4, <1>5

LEMMA DescendIInv ==
  ASSUME IInv, Descend, UNCHANGED <<files, moving>>
  PROVE  IInv'
  <1>1. /\ pc = "rename" /\ stack # <<>>
        /\ UNCHANGED <<entries, at, pc, path, id, script, dirs, repeats>>
    BY Basics DEF Descend, Stacked
  <1>2. PICK n \in DOMAIN dirs : Unread(n) /\ stack' = Append(Seen(n), Stream(n))
    BY DEF Descend
  <1>3. Stacked'
    BY <1>1, <1>2, Deeper
  <1>4. Control'
    BY <1>1, Basics DEF Control
  <1>5. Placed' /\ Traversed'
    BY <1>1, Step4Files DEF PCs4
  <1> QED
    BY <1>1, <1>3, <1>4, <1>5, Basics, TreeSame DEF IInv, EntriesOK, Indices

LEMMA FrontFrames ==
  ASSUME IInv, stack # <<>>
  PROVE  /\ Front(stack) \in Seq(Frame) /\ Len(Front(stack)) = Len(stack) - 1
         /\ \A k \in 1 .. Len(stack) - 1 : Front(stack)[k] = stack[k]
         /\ Len(stack) = 1 <=> Front(stack) = <<>>
  <1>1. stack \in Seq(Frame) /\ Len(stack) \in Nat /\ Len(stack) >= 1
    BY Basics, TopFrame
  <1>2. PICK n \in Nat, s \in Seq(Frame) : n = Len(stack) - 1 /\ s = stack /\ Front(stack) = SubSeq(s, 1, n)
    BY <1>1 DEF Front
  <1>3. \A i \in 1 .. n : s[i] \in Frame
    BY <1>1, <1>2
  <1>4. n \in Int /\ 1 \in Int /\ n - 1 + 1 = n
    BY <1>2
  <1>5. SubSeq(s, 1, n) \in Seq(Frame)
    BY <1>3, <1>4, SubSeqProperties
  <1>6. Len(SubSeq(s, 1, n)) = n
    BY <1>2, <1>3, <1>4, SubSeqProperties
  <1>7. ASSUME NEW i \in 1 .. n
        PROVE  SubSeq(s, 1, n)[i] = s[i]
    <2>1. i \in 1 .. n - 1 + 1 /\ 1 + i - 1 = i
      BY <1>2
    <2> QED
      BY <1>3, <1>4, <2>1, SubSeqProperties
  <1> QED
    BY <1>1, <1>2, <1>5, <1>6, <1>7

(* Leaving a directory: those above it are still open.                     *)
LEMMA FrontStacked ==
  ASSUME IInv, stack # <<>>, stack' = Front(stack), Len(stack) > 1 \/ pc' \notin PCs4 \cup PCs5
           \/ pc' \in {"step5_done"},
         pc' # "unlink",
         \A m \in DOMAIN dirs : Children(dirs, m) # {} => m \in DOMAIN dirs' /\ dirs'[m].up = dirs[m].up
  PROVE  Stacked'
  <1>1. /\ stack' \in Seq(Frame) /\ Len(stack') = Len(stack) - 1
        /\ \A k \in 1 .. Len(stack) - 1 : stack'[k] = stack[k]
        /\ Len(stack) \in Nat /\ Len(stack) >= 1
    BY FrontFrames, TopFrame, Basics
  <1>2. stack' # <<>> => stack'[1].dir = newroot
    BY <1>1, Basics DEF Stacked
  <1>3. pc' \in {"rename", "unlink", "move", "files"} => stack' # <<>>
    BY <1>1 DEF PCs4, PCs5
  <1>4. ASSUME NEW k \in 1 .. Len(stack') - 1
        PROVE  stack'[k + 1].dir \in Children(dirs', stack'[k].dir)
    <2>1. /\ k \in 1 .. Len(stack) - 1 /\ k + 1 \in 1 .. Len(stack) - 1
          /\ (k + 1) + 1 \in 1 .. Len(stack)
      BY <1>1
    <2>2. stack'[k] = stack[k] /\ stack'[k + 1] = stack[k + 1]
      BY <1>1, <2>1
    <2>3. stack[k + 1].dir \in Children(dirs, stack[k].dir)
      BY <2>1, Basics DEF Stacked
    <2>4. stack[(k + 1) + 1].dir \in Children(dirs, stack[k + 1].dir)
      BY <2>1, Basics DEF Stacked
    <2> QED
      BY <2>2, <2>3, <2>4 DEF Children
  <1> QED
    BY <1>1, <1>2, <1>3, <1>4 DEF Stacked

(* The renames of step 4 keep the tree, and what is in a directory or says *)
(* whose it is.                                                            *)
Kept ==
  /\ TreeOK(dirs')
  /\ DOMAIN dirs' \subseteq DOMAIN dirs
  /\ \A m \in DOMAIN dirs : dirs[m].id # NoId \/ Children(dirs, m) # {} => m \in DOMAIN dirs'

LEMMA RenameTree ==
  ASSUME IInv, Rename
  PROVE  Kept /\ \A m \in DOMAIN dirs' : dirs'[m].up = dirs[m].up
  <1>1. PICK n : n = top.dir
    OBVIOUS
  <1>2. n \in DOMAIN dirs
    <2>1. pc = "rename" /\ top.dir # newroot
      BY DEF Rename
    <2>2. stack # <<>>
      BY <2>1, Basics DEF Stacked
    <2> QED
      BY <1>1, <2>1, <2>2, TopFrame
  <1>3. CASE EntryOf(dirs[n].name.num) = {}
    <2>1. dirs' = dirs
      BY <1>1, <1>3 DEF Rename
    <2> QED
      BY <2>1, Basics DEF Kept
  <1>4. CASE EntryOf(dirs[n].name.num) # {}
    <2>1. PICK i \in EntryOf(dirs[n].name.num) :
            dirs' = Renamed(n, dirs[n].up, entries[i].name)
      BY <1>1, <1>4 DEF Rename
    <2>2. PICK name, up, d :
            name = entries[i].name /\ up = dirs[n].up /\ d = Renamed(n, up, name)
      OBVIOUS
    <2>3. i \in Indices /\ entries[i] \in Line /\ Good(entries[i])
      BY Basics DEF EntryOf, EntriesOK, Indices
    <2>4. name \in Name
      BY <2>2, <2>3 DEF Line
    <2>5. up \in DOMAIN dirs \cup {newroot} /\ dirs[n] \in Dir
      BY <1>2, <2>2, Basics
    <2>6. EntryOf(dirs[n].made) # {}
      <3>1. NameKnown(dirs[n])
        BY <1>2, Basics DEF TreeOK
      <3>2. entries[i].folder = dirs[n].name.num /\ entries[i].folder > 1
        BY <2>3 DEF EntryOf, Good
      <3>3. dirs[n].name.num # 0
        BY <3>2
      <3>4. dirs[n].name = IdName(dirs[n].made) => dirs[n].name.num = dirs[n].made
        BY DEF IdName
      <3> QED
        BY <1>4, <3>1, <3>3, <3>4 DEF NameKnown
    <2>7. NameKnown([dirs[n] EXCEPT !.up = up, !.name = name])
      <3>1. PICK e : e = [dirs[n] EXCEPT !.up = up, !.name = name]
        OBVIOUS
      <3>2. e.name = name /\ e.made = dirs[n].made
        BY <2>5, <3>1 DEF Dir
      <3>3. NameKnown(e)
        BY <2>2, <2>3, <2>6, <3>2 DEF NameKnown
      <3> QED
        BY <3>1, <3>3
    <2>8. EntriesOK /\ TreeOK(dirs)
      BY Basics
    <2> USE <1>2, <2>2, <2>4, <2>5, <2>7, <2>8, RenamedTree
    <2>9. TreeOK(d)
      OBVIOUS
    <2>10. DOMAIN d \subseteq DOMAIN dirs
      OBVIOUS
    <2>11. \A m \in DOMAIN dirs : dirs[m].id # NoId \/ Children(dirs, m) # {} => m \in DOMAIN d
      OBVIOUS
    <2>12. ASSUME NEW m \in DOMAIN d
           PROVE  d[m].up = dirs[m].up
      <3>1. CASE m = n
        BY <3>1
      <3>2. CASE m # n
        <4>1. d[m] = dirs[m]
          BY <3>2
        <4> QED
          BY <4>1
      <3> QED
        BY <3>1, <3>2
    <2> QED
      BY ONLY <2>1, <2>2, <2>9, <2>10, <2>11, <2>12 DEF Kept
  <1> QED
    BY <1>3, <1>4

LEMMA RenameIInv ==
  ASSUME IInv, Rename, UNCHANGED <<files, moving>>
  PROVE  IInv'
  <1>1. /\ pc = "rename" /\ stack # <<>> /\ top.dir # newroot /\ stack' = Front(stack)
        /\ UNCHANGED <<entries, at, pc, path, id, script, repeats>>
    BY Basics DEF Rename, Stacked
  <1>2. Len(stack) > 1
    BY <1>1, TopFrame, Basics
  <1>3. Kept /\ \A m \in DOMAIN dirs' : dirs'[m].up = dirs[m].up
    BY RenameTree
  <1>4. Stacked'
    BY <1>1, <1>2, <1>3, FrontStacked DEF Kept
  <1>5. Control'
    BY <1>1, Basics DEF Control
  <1>6. Placed' /\ Traversed'
    BY <1>1, Step4Files DEF PCs4
  <1> QED
    BY <1>1, <1>3, <1>4, <1>5, <1>6, Basics, TreeSame DEF Kept, IInv, EntriesOK, Indices

LEMMA StartUnlinkableTree ==
  ASSUME IInv, StartUnlinkable
  PROVE  /\ TreeOK(dirs')
         /\ \A m \in DOMAIN dirs : m \in DOMAIN dirs' /\ dirs'[m] = dirs[m]
         /\ (ProblemDir # {})'
  <1>1. CASE ProblemDir # {}
    <2>1. dirs' = dirs
      BY <1>1 DEF StartUnlinkable
    <2> QED
      BY <1>1, <2>1, Basics DEF ProblemDir
  <1>2. CASE ProblemDir = {}
    <2>1. dirs' = WithNew(newroot, Problem, NoId)
      BY <1>2 DEF StartUnlinkable
    <2>2. EntriesOK /\ TreeOK(dirs)
      BY Basics
    <2>3. TreeOK(WithNew(newroot, Problem, NoId))
      <3>1. \A n \in Children(dirs, newroot) : dirs[n].name # Problem
        BY <1>2 DEF ProblemDir
      <3>2. NoId \in Nat /\ newroot \in DOMAIN dirs \cup {newroot}
        BY DEF NoId
      <3> QED
        BY <2>2, <3>1, <3>2, NamesTyped, NewTree
    <2>4. /\ DOMAIN dirs' = DOMAIN dirs \cup {NewDir}
          /\ \A n \in DOMAIN dirs : dirs'[n] = dirs[n]
          /\ dirs'[NewDir] = [up |-> newroot, name |-> Problem, id |-> NoId, made |-> NoId]
      BY <2>1, <2>2, NewDirIsNew DEF WithNew
    <2>5. NewDir \in Children(dirs', newroot) /\ dirs'[NewDir].name = Problem
      BY <2>4 DEF Children
    <2> QED
      BY <2>1, <2>3, <2>4, <2>5 DEF ProblemDir
  <1> QED
    BY <1>1, <1>2

LEMMA StartUnlinkableIInv ==
  ASSUME IInv, StartUnlinkable, UNCHANGED <<files, moving>>
  PROVE  IInv'
  <1> DEFINE frame == [top EXCEPT !.open = {dirs[c].name : c \in Children(dirs, newroot)},
                                  !.seen = {IdName(RootId), Problem}]
  <1>1. /\ pc = "rename" /\ stack # <<>> /\ top.dir = newroot /\ pc' = "unlink"
        /\ stack' = <<frame>>
        /\ UNCHANGED <<entries, at, path, id, script, repeats>>
    BY Basics DEF StartUnlinkable, Stacked
  <1>2. frame \in Frame /\ frame.dir = newroot /\ Problem \in frame.seen
    <2>1. top \in Frame
      BY <1>1, TopFrame
    <2>2. \A c \in Children(dirs, newroot) : dirs[c].name \in Name
      BY Basics DEF Children, Dir
    <2>3. IdName(RootId) \in Name /\ Problem \in Name
      BY NamesTyped DEF RootId
    <2> QED
      BY <1>1, <2>1, <2>2, <2>3 DEF Frame
  <1> HIDE DEF frame
  <1>3. Stacked'
    <2>1. (ProblemDir # {})'
      BY StartUnlinkableTree
    <2>2. stack' \in Seq(Frame) /\ Len(stack') = 1 /\ stack'[1] = frame /\ stack' # <<>>
      BY <1>1, <1>2
    <2> QED
      BY <1>1, <1>2, <2>1, <2>2 DEF Stacked
  <1>4. Control'
    BY <1>1, Basics, StartUnlinkableTree DEF Control, PCs4
  <1>5. Placed' /\ Traversed'
    BY <1>1, Step4Files DEF PCs4
  <1> QED
    BY <1>1, <1>3, <1>4, <1>5, Basics, StartUnlinkableTree, TreeSame DEF IInv, EntriesOK, Indices

LEMMA UnlinkableTree ==
  ASSUME IInv, Unlinkable
  PROVE  /\ Kept
         /\ \A m \in DOMAIN dirs' :
              dirs'[m].up = dirs[m].up \/ (dirs[m].up = newroot /\ dirs'[m].up \in ProblemDir)
         /\ (ProblemDir # {})'
  <1>1. /\ pc = "unlink" /\ stack # <<>> /\ top.dir = newroot /\ Problem \in top.seen
        /\ ProblemDir # {}
    BY Basics, TopFrame DEF Unlinkable, Stacked
  <1>2. PICK n \in DOMAIN dirs :
          Unread(n) /\ dirs' = Renamed(n, CHOOSE p \in ProblemDir : TRUE, dirs[n].name)
    BY DEF Unlinkable
  <1>3. PICK up \in ProblemDir : up = CHOOSE p \in ProblemDir : TRUE
    BY <1>1
  <1>4. PICK name, d : name = dirs[n].name /\ d = Renamed(n, up, name)
    OBVIOUS
  <1>5. dirs[n].up = newroot /\ name # Problem
    BY <1>1, <1>2, <1>4 DEF Unread, Children
  <1>6. up \in DOMAIN dirs /\ dirs[up].up = newroot /\ dirs[up].name = Problem
    BY <1>3 DEF ProblemDir, Children
  <1>7. up # n /\ up # newroot
    BY <1>4, <1>5, <1>6, Basics
  <1>8. dirs[n] \in Dir /\ name \in Name /\ up \in DOMAIN dirs \cup {newroot}
    <2>1. dirs[n] \in Dir
      BY Basics
    <2> QED
      BY <1>4, <1>6, <2>1 DEF Dir
  <1>9. NameKnown([dirs[n] EXCEPT !.up = up, !.name = name])
    <2>1. PICK e : e = [dirs[n] EXCEPT !.up = up, !.name = name]
      OBVIOUS
    <2>2. e.name = dirs[n].name /\ e.made = dirs[n].made
      BY <1>4, <1>8, <2>1 DEF Dir
    <2>3. NameKnown(dirs[n])
      BY Basics DEF TreeOK
    <2>4. NameKnown(e)
      BY <2>2, <2>3 DEF NameKnown
    <2> QED
      BY <2>1, <2>4
  <1>10. EntriesOK /\ TreeOK(dirs)
    BY Basics
  <1> USE <1>4, <1>5, <1>6, <1>7, <1>8, <1>9, <1>10, RenamedTree
  <1>11. TreeOK(d)
    OBVIOUS
  <1>12. DOMAIN d \subseteq DOMAIN dirs
    OBVIOUS
  <1>13. \A m \in DOMAIN dirs : dirs[m].id # NoId \/ Children(dirs, m) # {} => m \in DOMAIN d
    OBVIOUS
  <1>14. up \in DOMAIN d /\ d[up] = dirs[up]
    <2>1. up \in DOMAIN d
      OBVIOUS
    <2> QED
      BY <2>1
  <1>15. ASSUME NEW m \in DOMAIN d
         PROVE  d[m].up = dirs[m].up \/ (dirs[m].up = newroot /\ d[m].up = up)
    <2>1. CASE m = n
      BY <2>1
    <2>2. CASE m # n
      <3>1. d[m] = dirs[m]
        BY <2>2
      <3> QED
        BY <3>1
    <2> QED
      BY <2>1, <2>2
  <1>16. dirs' = d
    BY ONLY <1>2, <1>3, <1>4
  <1>17. up \in ProblemDir'
    BY ONLY <1>6, <1>14, <1>16 DEF ProblemDir, Children
  <1> QED
    BY ONLY <1>3, <1>11, <1>12, <1>13, <1>15, <1>16, <1>17 DEF Kept

LEMMA UnlinkableIInv ==
  ASSUME IInv, Unlinkable, UNCHANGED <<files, moving>>
  PROVE  IInv'
  <1>1. /\ pc = "unlink" /\ stack # <<>> /\ Len(stack) = 1
        /\ stack[1].dir = newroot /\ Problem \in stack[1].seen
        /\ UNCHANGED <<entries, at, pc, path, id, script, repeats>>
    BY Basics DEF Unlinkable, Stacked
  <1>2. PICK n \in DOMAIN dirs : stack' = Seen(n)
    BY DEF Unlinkable
  <1>3. stack' \in Seq(Frame) /\ Len(stack') = 1
    BY <1>1, <1>2, SeenFrames
  <1>4. stack'[1].dir = newroot /\ Problem \in stack'[1].seen
    BY <1>1, <1>2, SeenFrames
  <1>5. Stacked'
    <2>1. Len(<<>>) = 0
      OBVIOUS
    <2>2. stack' # <<>>
      BY ONLY <1>3, <2>1
    <2> QED
      BY <1>1, <1>3, <1>4, <2>2, UnlinkableTree DEF Stacked
  <1>6. Control'
    BY <1>1, Basics DEF Control
  <1>7. Placed' /\ Traversed'
    BY <1>1, Step4Files DEF PCs4
  <1> QED
    BY <1>1, <1>5, <1>6, <1>7, Basics, UnlinkableTree, TreeSame
    DEF Kept, IInv, EntriesOK, Indices

LEMMA RecoveredTree ==
  ASSUME IInv, Recovered
  PROVE  Kept /\ \A m \in DOMAIN dirs' : dirs'[m].up = dirs[m].up
  <1>1. PICK root : root = {n \in Children(dirs, newroot) : dirs[n].name = IdName(RootId)}
    OBVIOUS
  <1>2. CASE root = {}
    <2>1. dirs' = dirs
      BY <1>1, <1>2 DEF Recovered
    <2> QED
      BY <2>1, Basics DEF Kept
  <1>3. CASE root # {}
    <2>1. PICK n \in root : dirs' = Renamed(n, newroot, Plain("recovered"))
      BY <1>1, <1>3 DEF Recovered
    <2>2. PICK name, up, d :
            name = Plain("recovered") /\ up = newroot /\ d = Renamed(n, up, name)
      OBVIOUS
    <2>3. n \in DOMAIN dirs /\ dirs[n].up = up
      BY <1>1, <2>2 DEF Children
    <2>4. name \in Name /\ name.num = 0
      BY <2>2, NamesTyped
    <2>5. up \in DOMAIN dirs \cup {newroot} /\ dirs[n] \in Dir
      BY <2>2, <2>3, Basics
    <2>6. NameKnown([dirs[n] EXCEPT !.up = up, !.name = name])
      <3>1. PICK e : e = [dirs[n] EXCEPT !.up = up, !.name = name]
        OBVIOUS
      <3>2. e.name = name
        BY <2>5, <3>1 DEF Dir
      <3>3. NameKnown(e)
        BY <2>4, <3>2 DEF NameKnown
      <3> QED
        BY <3>1, <3>3
    <2>7. EntriesOK /\ TreeOK(dirs)
      BY Basics
    <2> USE <2>2, <2>3, <2>4, <2>5, <2>6, <2>7, RenamedTree
    <2>8. TreeOK(d)
      OBVIOUS
    <2>9. DOMAIN d \subseteq DOMAIN dirs
      OBVIOUS
    <2>10. \A m \in DOMAIN dirs : dirs[m].id # NoId \/ Children(dirs, m) # {} => m \in DOMAIN d
      OBVIOUS
    <2>11. ASSUME NEW m \in DOMAIN d
           PROVE  d[m].up = dirs[m].up
      <3>1. CASE m = n
        BY <3>1
      <3>2. CASE m # n
        <4>1. d[m] = dirs[m]
          BY <3>2
        <4> QED
          BY <4>1
      <3> QED
        BY <3>1, <3>2
    <2> QED
      BY ONLY <2>1, <2>2, <2>8, <2>9, <2>10, <2>11 DEF Kept
  <1> QED
    BY <1>2, <1>3

LEMMA RecoveredIInv ==
  ASSUME IInv, Recovered, UNCHANGED <<files, moving>>
  PROVE  IInv'
  <1>1. /\ pc = "unlink" /\ pc' = "step4_done" /\ stack' = <<>>
        /\ UNCHANGED <<entries, at, path, id, script, repeats>>
    BY DEF Recovered
  <1>2. Stacked'
    BY <1>1 DEF Stacked
  <1>3. Control'
    BY <1>1, Basics DEF Control, PCs4
  <1>4. Placed' /\ Traversed'
    BY <1>1, Step4Files DEF PCs4
  <1> QED
    BY <1>1, <1>2, <1>3, <1>4, Basics, RecoveredTree, TreeSame DEF Kept, IInv, EntriesOK, Indices

LEMMA Again4IInv ==
  ASSUME IInv, Again4, UNCHANGED <<files, moving>>
  PROVE  IInv'
  <1>1. /\ pc \in PCs4 /\ pc' = "load" /\ repeats < MaxRepeats /\ repeats' = repeats + 1
        /\ path' = <<>> /\ id' = NoId /\ script' = <<>> /\ at' = newroot /\ stack' = <<>>
        /\ UNCHANGED <<entries, dirs>>
    BY DEF Again4, PCs4
  <1>2. repeats' \in 0 .. MaxRepeats
    BY <1>1, Basics, Sizes DEF Control
  <1>3. Control'
    BY <1>1, <1>2, Basics, Sizes DEF Control, PCs4, NoId
  <1>4. Stacked'
    BY <1>1 DEF Stacked
  <1>5. Placed' /\ Traversed'
    BY <1>1, Step4Files DEF PCs4
  <1> QED
    BY <1>1, <1>3, <1>4, <1>5, Basics, TreeSame DEF IInv, EntriesOK, Indices

-----------------------------------------------------------------------------
(* Step 5.                                                                 *)

LEMMA Step5Tree ==
  ASSUME IInv, pc \in PCs5 \cup {"step4_done"}, pc' \in PCs5, repeats' \in 0 .. MaxRepeats,
         UNCHANGED <<entries, at, path, id, script, dirs>>
  PROVE  EntriesOK' /\ TreeOK(dirs)' /\ Control'
  <1>1. EntriesOK' /\ TreeOK(dirs)'
    BY Basics, TreeSame DEF EntriesOK, Indices
  <1>2. pc # "script" /\ pc' # "script" /\ pc' \in PCs4 \cup PCs5 \cup {"done"}
    BY DEF PCs5
  <1> QED
    BY <1>1, <1>2, Basics DEF Control

LEMMA RepeatsTyped ==
  ASSUME IInv
  PROVE  repeats \in 0 .. MaxRepeats /\ (repeats < MaxRepeats => repeats + 1 \in 0 .. MaxRepeats)
  BY Basics, Sizes DEF Control

(* At the first directory nothing is behind step 5.                        *)
LEMMA AtFirst ==
  ASSUME IInv, stack' = <<Stream(newroot)>>, pc' = "move", UNCHANGED dirs
  PROVE  Stacked' /\ Traversed'
  <1>1. PICK s : s = Stream(newroot)
    OBVIOUS
  <1>2. /\ s \in Frame /\ s.dir = newroot /\ s.seen = {}
        /\ \A c \in Children(dirs, newroot) : dirs[c].name \in s.open
    BY <1>1, StreamTyped
  <1>3. /\ stack' = <<s>> /\ stack' \in Seq(Frame) /\ Len(stack') = 1 /\ stack'[1] = s
        /\ stack' # <<>> /\ DOMAIN stack' = {1}
    BY <1>1, <1>2
  <1>4. Stacked'
    BY <1>2, <1>3 DEF Stacked
  <1>5. Behind({})'
    BY <1>2, <1>3 DEF Behind
  <1>6. {} \in SUBSET DOMAIN dirs'
    OBVIOUS
  <1> QED
    BY <1>4, <1>5, <1>6 DEF Traversed

LEMMA Start5IInv ==
  ASSUME IInv, Start5
  PROVE  IInv'
  <1>1. /\ pc = "step4_done" /\ pc' = "move" /\ stack' = <<Stream(newroot)>>
        /\ UNCHANGED <<entries, at, path, id, script, dirs, repeats, files, moving>>
    BY DEF Start5
  <1>2. EntriesOK' /\ TreeOK(dirs)' /\ Control'
    BY <1>1, Step5Tree, RepeatsTyped DEF PCs5
  <1>3. Stacked' /\ Traversed'
    BY <1>1, AtFirst
  <1>4. Placed'
    BY <1>1, Basics DEF Placed, PCs5
  <1> QED
    BY <1>2, <1>3, <1>4 DEF IInv

LEMMA Again5IInv ==
  ASSUME IInv, Again5
  PROVE  IInv'
  <1>1. /\ pc \in PCs5 /\ pc' = "move" /\ stack' = <<Stream(newroot)>> /\ moving' = {}
        /\ repeats < MaxRepeats /\ repeats' = repeats + 1
        /\ UNCHANGED <<entries, at, path, id, script, dirs, files>>
    BY DEF Again5, PCs5
  <1>2. EntriesOK' /\ TreeOK(dirs)' /\ Control'
    BY <1>1, Step5Tree, RepeatsTyped DEF PCs5
  <1>3. Stacked' /\ Traversed'
    BY <1>1, AtFirst
  <1>4. Placed'
    BY <1>1, Basics DEF Placed, PCs5, FolderOf
  <1> QED
    BY <1>2, <1>3, <1>4 DEF IInv

LEMMA EnterIInv ==
  ASSUME IInv, Enter
  PROVE  IInv'
  <1>1. /\ pc = "move" /\ stack # <<>>
        /\ UNCHANGED <<entries, at, pc, path, id, script, dirs, repeats, files, moving>>
    BY Basics DEF Enter, Stacked
  <1>2. PICK n \in DOMAIN dirs : Unread(n) /\ stack' = Append(Seen(n), Stream(n))
    BY DEF Enter
  <1>3. EntriesOK' /\ TreeOK(dirs)' /\ Control'
    BY <1>1, Step5Tree, RepeatsTyped DEF PCs5
  <1>4. Stacked'
    BY <1>1, <1>2, Deeper
  <1>5. Placed'
    BY <1>1, Basics DEF Placed, PCs5, FolderOf
  <1>6. PICK done \in SUBSET DOMAIN dirs : Behind(done)
    BY <1>1, Basics DEF Traversed
  <1>7. Behind(done)'
    <2>1. \A m \in done : Emptied(m)' /\ Children(dirs', m) \subseteq done
      BY <1>1, <1>6 DEF Behind, Emptied, FolderOf, Blocked
    <2>2. Len(stack) \in Nat /\ Len(stack) >= 1 /\ DOMAIN stack = 1 .. Len(stack)
      BY <1>1, Basics, TopFrame
    <2>3. /\ stack' \in Seq(Frame) /\ Len(stack') = Len(stack) + 1
          /\ \A k \in 1 .. Len(stack) : stack'[k] = Seen(n)[k]
          /\ stack'[Len(stack) + 1] = Stream(n)
      BY <1>1, <1>2, Deeper
    <2>4. ASSUME NEW k \in DOMAIN stack', NEW c \in Children(dirs, stack'[k].dir)
          PROVE  /\ dirs[c].name \in stack'[k].open
                 /\ dirs[c].name \in stack'[k].seen =>
                      c \in done \/ (k < Len(stack') /\ c = stack'[k + 1].dir)
      <3>1. k \in 1 .. Len(stack) + 1
        BY <2>3
      <3>2. CASE k = Len(stack) + 1
        <4>1. stack'[k] = Stream(n)
          BY <2>3, <3>2
        <4> QED
          BY <2>4, <4>1, StreamTyped
      <3>3. CASE k \in 1 .. Len(stack) - 1
        <4>1. k \in 1 .. Len(stack) /\ k + 1 \in 1 .. Len(stack) /\ k # Len(stack)
          BY <2>2, <3>3
        <4>2. /\ stack'[k].dir = stack[k].dir /\ stack'[k].open = stack[k].open
              /\ stack'[k].seen = stack[k].seen /\ stack'[k + 1].dir = stack[k + 1].dir
          BY <1>1, <2>3, <4>1, SeenFrames
        <4>3. k \in DOMAIN stack /\ c \in Children(dirs, stack[k].dir)
          BY <2>2, <2>4, <4>1, <4>2
        <4>4. /\ dirs[c].name \in stack[k].open
              /\ dirs[c].name \in stack[k].seen =>
                   c \in done \/ (k < Len(stack) /\ c = stack[k + 1].dir)
          BY <1>6, <4>3 DEF Behind
        <4> QED
          BY <2>2, <2>3, <3>3, <4>2, <4>4
      <3>4. CASE k = Len(stack)
        <4>1. k \in 1 .. Len(stack) /\ k \in DOMAIN stack
          BY <2>2, <3>4
        <4>2. /\ stack'[k].dir = stack[k].dir /\ stack'[k].open = stack[k].open
              /\ stack'[k].seen = stack[k].seen \cup {dirs[n].name}
          BY <1>1, <2>3, <3>4, <4>1, SeenFrames
        <4>3. c \in Children(dirs, stack[k].dir)
          BY <2>4, <4>2
        <4>4. dirs[c].name \in stack[k].open
          BY <1>6, <4>1, <4>3 DEF Behind
        <4>5. dirs[c].name \in stack[k].seen => c \in done
          <5>1. ~(k < Len(stack))
            BY <2>2, <3>4
          <5> QED
            BY <1>6, <4>1, <4>3, <5>1 DEF Behind
        <4>6. dirs[c].name = dirs[n].name => c = n
          <5>1. n \in Children(dirs, stack[k].dir)
            BY <1>2, <3>4 DEF Unread, top
          <5>2. \A m, o \in DOMAIN dirs :
                  dirs[m].up = dirs[o].up /\ dirs[m].name = dirs[o].name => m = o
            BY Basics DEF TreeOK
          <5> QED
            BY <4>3, <5>1, <5>2 DEF Children
        <4>7. stack'[k + 1].dir = n /\ k < Len(stack')
          BY <2>2, <2>3, <3>4, StreamTyped
        <4> QED
          BY <4>2, <4>4, <4>5, <4>6, <4>7
      <3> QED
        BY <2>2, <3>1, <3>2, <3>3, <3>4
    <2> QED
      BY <1>1, <2>1, <2>4 DEF Behind
  <1>8. Traversed'
    BY <1>1, <1>6, <1>7 DEF Traversed
  <1> QED
    BY <1>3, <1>4, <1>5, <1>8 DEF IInv

LEMMA FileTyped ==
  ASSUME IInv, NEW f \in DOMAIN files
  PROVE  /\ f \in File /\ f.folder \in Nat
         /\ files[f] \in [where : {"restored", "tree", "unknown"}, dir : Nat]
         /\ files[f].where = "restored" =>
              files[f].dir = f.folder /\ In(f, "restored", f.folder)
  <1>1. PICK fs \in FileSets :
          files \in [fs -> [where : {"restored", "tree", "unknown"}, dir : Nat]]
    BY Basics DEF Placed
  <1>2. f \in File /\ f.folder \in Nat
    BY <1>1, Sizes DEF File
  <1>3. files[f] \in [where : {"restored", "tree", "unknown"}, dir : Nat]
    BY <1>1
  <1>4. files[f].where = "restored" => files[f].dir = f.folder
    BY Basics DEF Placed
  <1>5. files[f] = [where |-> files[f].where, dir |-> files[f].dir]
    BY <1>3
  <1> QED
    BY <1>2, <1>3, <1>4, <1>5 DEF In

LEMMA OpenFolderIInv ==
  ASSUME IInv, OpenFolder
  PROVE  IInv'
  <1>1. /\ pc = "move" /\ AtEnd /\ pc' = "files" /\ stack # <<>>
        /\ moving' = InRestored(FolderOf(top.dir))
        /\ UNCHANGED <<entries, at, path, id, script, dirs, stack, repeats, files>>
    BY Basics DEF OpenFolder, Stacked
  <1>2. EntriesOK' /\ TreeOK(dirs)' /\ Control'
    BY <1>1, Step5Tree, RepeatsTyped DEF PCs5
  <1>3. Stacked'
    BY <1>1, StackStays
  <1>4. top' = top /\ FolderOf(top.dir)' = FolderOf(top.dir)
    BY <1>1 DEF top, FolderOf
  <1>5. Placed'
    <2>1. \A f \in moving' : f \in DOMAIN files /\ In(f, "restored", FolderOf(top.dir))
      BY <1>1 DEF InRestored
    <2>2. ASSUME NEW f \in moving'
          PROVE  files[f].where = "restored" /\ f.folder = FolderOf(top.dir)
      <3>1. files[f].where = "restored" /\ files[f].dir = FolderOf(top.dir)
        BY <2>1 DEF In
      <3> QED
        BY <2>1, <3>1, FileTyped
    <2> QED
      BY <1>1, <1>4, <2>1, <2>2, Basics DEF Placed, PCs5, FolderOf
  <1>6. PICK done \in SUBSET DOMAIN dirs : Behind(done)
    BY <1>1, Basics DEF Traversed
  <1>7. Behind(done)'
    BY <1>1, <1>6 DEF Behind, Emptied, FolderOf, Blocked
  <1>8. \A c \in Children(dirs, top.dir) : dirs[c].name \in top.seen
    <2>1. ASSUME NEW c \in Children(dirs, top.dir)
          PROVE  dirs[c].name \in top.open
      BY <1>1, <1>6, TopFrame DEF Behind
    <2> QED
      BY <1>1, <2>1 DEF AtEnd
  <1>9. ASSUME NEW f \in DOMAIN files, FolderOf(top.dir) = f.folder,
               files[f].where = "restored"
        PROVE  f \in moving'
    BY <1>1, <1>9, FileTyped DEF InRestored
  <1>10. Traversed'
    BY <1>1, <1>4, <1>6, <1>7, <1>8, <1>9 DEF Traversed
  <1> QED
    BY <1>2, <1>3, <1>5, <1>10 DEF IInv

(* Files leave restored/<id> and never come back.                          *)
LEMMA StillEmptied ==
  ASSUME UNCHANGED dirs, DOMAIN files' = DOMAIN files,
         \A f \in DOMAIN files : files[f].where # "restored" => files'[f].where # "restored",
         NEW n, Emptied(n)
  PROVE  Emptied(n)'
  BY DEF Emptied, FolderOf, Blocked

(* No file is replaced: the one that has the name is another's.            *)
LEMMA MovedAway ==
  ASSUME IInv, pc = "files", NEW f \in moving
  PROVE  /\ DOMAIN Moved(f, top.dir) = DOMAIN files
         /\ Moved(f, top.dir) = [g \in DOMAIN files |-> Moved(f, top.dir)[g]]
         /\ Moved(f, top.dir)[f] = [where |-> "tree", dir |-> top.dir]
         /\ \A g \in DOMAIN files : g # f => Moved(f, top.dir)[g] = files[g]
  <1>1. f \in DOMAIN files /\ f.folder = FolderOf(top.dir) /\ f \in File
    <2>1. moving \subseteq DOMAIN files
      BY Basics DEF Placed
    <2> QED
      BY <2>1, Basics, FileTyped DEF Placed
  <1>2. ASSUME NEW g \in DOMAIN files, In(g, "tree", top.dir), g.name = f.name
        PROVE  g = f
    <2>1. files[g].where = "tree" /\ files[g].dir = top.dir
      BY <1>2 DEF In
    <2>2. FolderOf(files[g].dir) = g.folder
      <3>1. pc # "done"
        OBVIOUS
      <3> QED
        BY <2>1, <3>1, Basics DEF Placed
    <2>3. g \in File
      BY FileTyped
    <2>4. g.folder = f.folder
      BY <1>1, <2>1, <2>2
    <2> QED
      BY <1>1, <1>2, <2>3, <2>4 DEF File
  <1> QED
    BY <1>1, <1>2 DEF Moved

LEMMA MoveFileFiles ==
  ASSUME IInv, MoveFile
  PROVE  \E f \in moving :
           /\ moving' = moving \ {f} /\ f \in DOMAIN files
           /\ DOMAIN files' = DOMAIN files /\ files' = [g \in DOMAIN files |-> files'[g]]
           /\ \A g \in DOMAIN files : g # f => files'[g] = files[g]
           /\ \/ files' = files /\ Blocked(f, top.dir)
              \/ files'[f] = [where |-> "tree", dir |-> top.dir]
  <1>1. pc = "files"
    BY DEF MoveFile
  <1>2. PICK f \in moving :
          /\ moving' = moving \ {f}
          /\ files' = IF Blocked(f, top.dir) THEN files ELSE Moved(f, top.dir)
    BY DEF MoveFile
  <1>3. f \in DOMAIN files
    BY Basics DEF Placed
  <1>4. CASE Blocked(f, top.dir)
    <2>1. files = [g \in DOMAIN files |-> files[g]]
      BY Basics DEF Placed
    <2> QED
      BY <1>2, <1>3, <1>4, <2>1
  <1>5. CASE ~Blocked(f, top.dir)
    BY <1>1, <1>2, <1>3, <1>5, MovedAway
  <1> QED
    BY <1>4, <1>5

LEMMA MoveFileIInv ==
  ASSUME IInv, MoveFile
  PROVE  IInv'
  <1>1. /\ pc = "files" /\ stack # <<>>
        /\ UNCHANGED <<entries, at, pc, path, id, script, dirs, stack, repeats>>
    BY Basics DEF MoveFile, Stacked
  <1>2. EntriesOK' /\ TreeOK(dirs)' /\ Control'
    BY <1>1, Step5Tree, RepeatsTyped DEF PCs5
  <1>3. Stacked'
    BY <1>1, StackStays
  <1>4. /\ top' = top /\ top.dir \in DOMAIN dirs \cup {newroot} /\ top.dir \in Nat
        /\ \A n : FolderOf(n)' = FolderOf(n)
        /\ \A f, n : Blocked(f, n)' = Blocked(f, n)
    <2>1. top' = top
      BY <1>1 DEF top
    <2>2. top.dir \in DOMAIN dirs \cup {newroot} /\ top.dir \in Nat
      BY <1>1, TopFrame DEF Frame
    <2> QED
      BY <1>1, <2>1, <2>2 DEF FolderOf, Blocked
  <1>5. PICK f \in moving :
          /\ moving' = moving \ {f} /\ f \in DOMAIN files
          /\ DOMAIN files' = DOMAIN files /\ files' = [g \in DOMAIN files |-> files'[g]]
          /\ \A g \in DOMAIN files : g # f => files'[g] = files[g]
          /\ \/ files' = files /\ Blocked(f, top.dir)
             \/ files'[f] = [where |-> "tree", dir |-> top.dir]
    BY MoveFileFiles
  <1>6. f.folder = FolderOf(top.dir) /\ files[f].where = "restored"
    BY <1>1, Basics DEF Placed
  <1>7. Placed'
    <2>1. CASE files' = files
      BY <1>1, <1>4, <1>5, <2>1, Basics DEF Placed
    <2>2. CASE files'[f] = [where |-> "tree", dir |-> top.dir]
      <3>1. PICK fs \in FileSets :
              files \in [fs -> [where : {"restored", "tree", "unknown"}, dir : Nat]]
        BY Basics DEF Placed
      <3>2. files'[f].where = "tree" /\ files'[f].dir = top.dir
        BY <2>2
      <3>3. files' \in [fs -> [where : {"restored", "tree", "unknown"}, dir : Nat]]
        <4>1. \A g \in fs : files'[g] \in [where : {"restored", "tree", "unknown"}, dir : Nat]
          BY <1>4, <1>5, <2>2, <3>1
        <4>2. files' = [g \in fs |-> files'[g]]
          BY <1>5, <3>1
        <4> QED
          BY <4>1, <4>2
      <3>4. ASSUME NEW g \in DOMAIN files'
            PROVE  /\ files'[g].where = "restored" => files'[g].dir = g.folder
                   /\ files'[g].where = "tree" =>
                        /\ files'[g].dir \in DOMAIN dirs \cup {newroot}
                        /\ FolderOf(files'[g].dir) = g.folder
        <4>1. CASE g = f
          BY <1>4, <1>6, <3>2, <4>1
        <4>2. CASE g # f
          <5>1. g \in DOMAIN files /\ files'[g] = files[g]
            BY <1>5, <4>2
          <5>2. pc # "done"
            BY <1>1
          <5> QED
            BY <5>1, <5>2, Basics DEF Placed
        <4> QED
          BY <4>1, <4>2
      <3>5. \A g \in moving' : files'[g].where = "restored" /\ g.folder = FolderOf(top.dir)
        <4>1. \A g \in moving' : g \in moving /\ g \in DOMAIN files /\ g # f
          BY <1>5, Basics DEF Placed
        <4>2. \A g \in moving : files[g].where = "restored" /\ g.folder = FolderOf(top.dir)
          BY <1>1, Basics DEF Placed
        <4> QED
          BY <1>5, <4>1, <4>2
      <3>6. moving' \subseteq DOMAIN files'
        BY <1>5, Basics DEF Placed
      <3>7. pc' \in PCs5
        BY <1>1 DEF PCs5
      <3> QED
        BY <1>1, <1>4, <3>3, <3>4, <3>5, <3>6, <3>7 DEF Placed
    <2> QED
      BY <1>5, <2>1, <2>2
  <1>8. \A g \in DOMAIN files : files[g].where # "restored" => files'[g].where # "restored"
    BY <1>5, <1>6
  <1>9. PICK done \in SUBSET DOMAIN dirs : Behind(done)
    BY <1>1, Basics DEF Traversed
  <1>10. Behind(done)'
    <2>1. \A n \in done : Emptied(n)' /\ Children(dirs', n) \subseteq done
      BY <1>1, <1>5, <1>8, <1>9, StillEmptied DEF Behind
    <2> QED
      BY <1>1, <1>9, <2>1 DEF Behind
  <1>11. ASSUME NEW g \in DOMAIN files, FolderOf(top.dir) = g.folder
         PROVE  files'[g].where # "restored" \/ Blocked(g, top.dir) \/ g \in moving'
    <2>1. files[g].where # "restored" \/ Blocked(g, top.dir) \/ g \in moving
      BY <1>1, <1>11, Basics DEF Traversed
    <2>2. CASE g = f
      BY <1>5, <2>2
    <2>3. CASE g # f
      BY <1>5, <1>8, <2>1, <2>3
    <2> QED
      BY <2>2, <2>3
  <1>12. \A c \in Children(dirs, top.dir) : dirs[c].name \in top.seen
    BY <1>1, Basics DEF Traversed
  <1>13. Traversed'
    BY <1>1, <1>4, <1>5, <1>9, <1>10, <1>11, <1>12 DEF Traversed
  <1> QED
    BY <1>2, <1>3, <1>7, <1>13 DEF IInv

(* Who has been in newroot's directories, and in those of every directory  *)
(* it has been in, has been everywhere: the tree has no others.            *)
LEMMA AllOfTree ==
  ASSUME IInv, NEW done \in SUBSET DOMAIN dirs, Children(dirs, newroot) \subseteq done,
         \A n \in done : Children(dirs, n) \subseteq done
  PROVE  done = DOMAIN dirs
  <1> SUFFICES ASSUME DOMAIN dirs \ done # {}
               PROVE  FALSE
    OBVIOUS
  <1>1. PICK r \in [DOMAIN dirs -> Nat] :
          \A n \in DOMAIN dirs : dirs[n].up # newroot => r[dirs[n].up] < r[n]
    BY Basics DEF TreeOK
  <1> DEFINE ranks == {r[n] : n \in DOMAIN dirs \ done}
  <1>2. ranks \subseteq Nat /\ ranks # {}
    BY <1>1
  <1>3. PICK k \in ranks : \A j \in ranks : k <= j
    <2> HIDE DEF ranks
    <2> QED
      BY <1>2, SmallestOf
  <1>4. PICK n \in DOMAIN dirs \ done : k = r[n]
    OBVIOUS
  <1>5. dirs[n].up # newroot
    BY <1>4 DEF Children
  <1>6. dirs[n].up \in DOMAIN dirs /\ r[dirs[n].up] < r[n]
    BY <1>1, <1>4, <1>5, Basics
  <1>7. dirs[n].up \in done
    <2>1. r[dirs[n].up] \in Nat /\ r[n] \in Nat
      BY <1>1, <1>6
    <2>2. r[dirs[n].up] \notin ranks
      <3> HIDE DEF ranks
      <3> QED
        BY <1>3, <1>4, <1>6, <2>1
    <2> QED
      BY <1>6, <2>2
  <1>8. n \in Children(dirs, dirs[n].up)
    BY <1>4 DEF Children
  <1> QED
    BY <1>4, <1>7, <1>8

LEMMA CloseFolderIInv ==
  ASSUME IInv, CloseFolder
  PROVE  IInv'
  <1>1. /\ pc = "files" /\ stack # <<>> /\ moving = {} /\ stack' = Front(stack)
        /\ pc' = IF Len(stack) = 1 THEN "step5_done" ELSE "move"
        /\ UNCHANGED <<entries, at, path, id, script, dirs, repeats, files, moving>>
    BY Basics DEF CloseFolder, Stacked
  <1>2. /\ Len(stack) \in Nat /\ Len(stack) >= 1 /\ DOMAIN stack = 1 .. Len(stack)
        /\ top = stack[Len(stack)]
    BY <1>1, Basics, TopFrame
  <1>3. EntriesOK' /\ TreeOK(dirs)' /\ Control'
    BY <1>1, Step5Tree, RepeatsTyped DEF PCs5
  <1>4. Stacked'
    <2>1. Len(stack) > 1 \/ pc' = "step5_done"
      BY <1>1, <1>2
    <2> QED
      BY <1>1, <2>1, FrontStacked
  <1>5. Placed'
    BY <1>1, Basics DEF Placed, PCs5, FolderOf
  <1>6. PICK done \in SUBSET DOMAIN dirs : Behind(done)
    BY <1>1, Basics DEF Traversed
  <1>7. Emptied(top.dir)
    BY <1>1, Basics DEF Traversed, Emptied
  <1>8. Children(dirs, top.dir) \subseteq done
    <2>1. ASSUME NEW c \in Children(dirs, top.dir)
          PROVE  c \in done
      <3>1. dirs[c].name \in stack[Len(stack)].seen
        BY <1>1, <1>2, Basics DEF Traversed
      <3>2. Len(stack) \in DOMAIN stack /\ ~(Len(stack) < Len(stack))
        BY <1>2
      <3> QED
        BY <1>2, <1>6, <3>1, <3>2 DEF Behind
    <2> QED
      BY <2>1
  <1>9. \A n \in done : Emptied(n) /\ Children(dirs, n) \subseteq done
    BY <1>6 DEF Behind
  <1>10. ASSUME NEW n, Emptied(n)
         PROVE  Emptied(n)'
    BY <1>1, <1>10, StillEmptied
  <1>11. CASE Len(stack) = 1
    <2>1. top.dir = newroot
      BY <1>1, <1>11, TopFrame
    <2>2. done = DOMAIN dirs
      BY <1>8, <1>9, <2>1, AllOfTree
    <2>3. \A n \in DOMAIN dirs : Emptied(n)'
      BY <1>9, <1>10, <2>2
    <2> QED
      BY <1>1, <1>3, <1>4, <1>5, <1>11, <2>3 DEF Traversed, IInv
  <1>12. CASE Len(stack) # 1
    <2>1. top.dir \in DOMAIN dirs
      BY <1>1, <1>2, <1>12, TopFrame
    <2>2. PICK also \in SUBSET DOMAIN dirs : also = done \cup {top.dir}
      BY <2>1
    <2>3. \A n \in also : Emptied(n)' /\ Children(dirs', n) \subseteq also
      BY <1>1, <1>7, <1>8, <1>9, <1>10, <2>2
    <2>4. /\ stack' \in Seq(Frame) /\ Len(stack') = Len(stack) - 1
          /\ \A k \in 1 .. Len(stack) - 1 : stack'[k] = stack[k]
      BY <1>1, FrontFrames
    <2>5. ASSUME NEW k \in DOMAIN stack', NEW c \in Children(dirs, stack'[k].dir)
          PROVE  /\ dirs[c].name \in stack'[k].open
                 /\ dirs[c].name \in stack'[k].seen =>
                      c \in also \/ (k < Len(stack') /\ c = stack'[k + 1].dir)
      <3>1. k \in 1 .. Len(stack) - 1 /\ k \in DOMAIN stack /\ k < Len(stack)
        BY <1>2, <2>4
      <3>2. stack'[k] = stack[k]
        BY <2>4, <3>1
      <3>3. /\ dirs[c].name \in stack[k].open
            /\ dirs[c].name \in stack[k].seen => c \in done \/ c = stack[k + 1].dir
        BY <1>6, <2>5, <3>1, <3>2 DEF Behind
      <3>4. CASE k = Len(stack) - 1
        <4>1. k + 1 = Len(stack)
          BY <1>2, <3>4
        <4> QED
          BY <1>2, <2>2, <3>2, <3>3, <4>1
      <3>5. CASE k # Len(stack) - 1
        <4>1. k + 1 \in 1 .. Len(stack) - 1 /\ k < Len(stack')
          BY <1>2, <2>4, <3>1, <3>5
        <4> QED
          BY <2>2, <2>4, <3>2, <3>3, <4>1
      <3> QED
        BY <3>4, <3>5
    <2>6. Behind(also)'
      BY <1>1, <2>3, <2>5 DEF Behind
    <2>7. Traversed'
      BY <1>1, <1>12, <2>2, <2>6 DEF Traversed
    <2> QED
      BY <1>3, <1>4, <1>5, <2>7 DEF IInv
  <1> QED
    BY <1>11, <1>12

LEMMA UnknownIInv ==
  ASSUME IInv, Unknown
  PROVE  IInv'
  <1>1. /\ pc \in {"step5_done", "unknown"} /\ pc' = "unknown"
        /\ UNCHANGED <<entries, at, path, id, script, dirs, stack, repeats, moving>>
    BY DEF Unknown
  <1>2. PICK h \in DOMAIN files :
          files' = [f \in DOMAIN files |->
                      IF f \in InRestored(h.folder)
                      THEN [where |-> "unknown", dir |-> h.folder] ELSE files[f]]
    BY DEF Unknown
  <1>3. EntriesOK' /\ TreeOK(dirs)' /\ Control'
    BY <1>1, Step5Tree, RepeatsTyped DEF PCs5
  <1>4. Stacked'
    BY <1>1, StackStays
  <1>5. PICK fs \in FileSets :
          files \in [fs -> [where : {"restored", "tree", "unknown"}, dir : Nat]]
    BY Basics DEF Placed
  <1>6. h.folder \in Nat
    BY FileTyped
  <1>7. /\ DOMAIN files' = DOMAIN files
        /\ files' \in [fs -> [where : {"restored", "tree", "unknown"}, dir : Nat]]
    BY <1>2, <1>5, <1>6
  <1>8. ASSUME NEW f \in DOMAIN files
        PROVE  files'[f].where \in {"restored", "tree"} => files'[f] = files[f]
    <2>1. CASE f \in InRestored(h.folder)
      <3>1. files'[f].where = "unknown"
        BY <1>2, <2>1
      <3> QED
        BY <3>1
    <2>2. CASE f \notin InRestored(h.folder)
      BY <1>2, <2>2
    <2> QED
      BY <2>1, <2>2
  <1>9. Placed'
    <2>1. ASSUME NEW f \in DOMAIN files
          PROVE  /\ files'[f].where = "restored" => files'[f].dir = f.folder
                 /\ files'[f].where = "tree" =>
                      /\ files'[f].dir \in DOMAIN dirs \cup {newroot}
                      /\ FolderOf(files'[f].dir) = f.folder
      <3>1. pc # "done"
        BY <1>1
      <3> QED
        BY <1>8, <3>1, Basics DEF Placed
    <2>2. moving \subseteq DOMAIN files
      BY Basics DEF Placed
    <2> QED
      BY <1>1, <1>7, <2>1, <2>2 DEF Placed, PCs5, FolderOf
  <1>10. Traversed'
    BY <1>1 DEF Traversed
  <1> QED
    BY <1>3, <1>4, <1>9, <1>10 DEF IInv

LEMMA CleanupIInv ==
  ASSUME IInv, Cleanup
  PROVE  IInv'
  <1>1. /\ pc \in {"step5_done", "unknown"} /\ pc' = "done"
        /\ dirs' = [n \in DOMAIN dirs |-> [dirs[n] EXCEPT !.id = NoId]]
        /\ UNCHANGED <<entries, at, path, id, script, stack, repeats, files, moving>>
    BY DEF Cleanup
  <1>2. /\ TreeOK(dirs') /\ DOMAIN dirs' = DOMAIN dirs
        /\ \A n \in DOMAIN dirs : dirs'[n].up = dirs[n].up
    <2> DEFINE ids == [n \in DOMAIN dirs |-> NoId]
               d == [n \in DOMAIN dirs |-> [dirs[n] EXCEPT !.id = ids[n]]]
    <2>1. ids \in [DOMAIN dirs -> Nat] /\ \A n \in DOMAIN dirs : ids[n] = NoId
      BY DEF NoId
    <2>2. dirs' = d
      BY <1>1
    <2>3. TreeOK(d) /\ \A n \in DOMAIN dirs : d[n].up = dirs[n].up
      <3>1. ASSUME NEW n \in DOMAIN dirs
            PROVE  IdKnown([dirs[n] EXCEPT !.id = ids[n]])
        <4>1. PICK e : e = [dirs[n] EXCEPT !.id = ids[n]]
          OBVIOUS
        <4>2. e.id = NoId
          BY <2>1, <4>1, Basics DEF Dir
        <4>3. IdKnown(e)
          BY <4>2 DEF IdKnown
        <4> QED
          BY <4>1, <4>3
      <3> HIDE DEF ids
      <3> QED
        BY <2>1, <3>1, Basics, IdsOnly
    <2>4. DOMAIN d = DOMAIN dirs
      OBVIOUS
    <2> HIDE DEF d
    <2> QED
      BY <2>2, <2>3, <2>4
  <1>3. Control'
    <2>1. pc # "script" /\ pc' # "script"
      BY <1>1
    <2> QED
      BY <1>1, <1>2, <2>1, Basics DEF Control
  <1>4. Stacked'
    BY <1>1, <1>2, StackStays
  <1>5. Placed'
    BY <1>1, <1>2, Basics DEF Placed
  <1>6. Traversed'
    BY <1>1 DEF Traversed
  <1> QED
    BY <1>1, <1>2, <1>3, <1>4, <1>5, <1>6, Basics, TreeSame DEF IInv, EntriesOK, Indices

LEMMA Step4IInv ==
  ASSUME IInv, Step4, UNCHANGED <<files, moving>>
  PROVE  IInv'
  BY LoadIInv, ClimbIInv, PathDoneIInv, MkdirIInv, EchoIInv, ScriptKilledIInv, ScriptDoneIInv,
     DescendIInv, RenameIInv, StartUnlinkableIInv, UnlinkableIInv, RecoveredIInv, Again4IInv
  DEF Step4

LEMMA NextIInv ==
  ASSUME IInv, [Next]_vars
  PROVE  IInv'
  <1>1. CASE Next
    BY <1>1, Step4IInv, Start5IInv, EnterIInv, OpenFolderIInv, MoveFileIInv, CloseFolderIInv,
       Again5IInv, UnknownIInv, CleanupIInv
    DEF Next
  <1>2. CASE UNCHANGED vars
    <2>1. /\ UNCHANGED <<entries, pc, path, id, script, at, dirs, stack, repeats>>
          /\ UNCHANGED <<files, moving>>
      BY <1>2 DEF vars, vars4
    <2>2. EntriesOK' /\ TreeOK(dirs)' /\ Control'
      BY <2>1, Basics, TreeSame DEF EntriesOK, Indices, Control
    <2>3. Stacked'
      BY <2>1, Basics DEF Stacked, ProblemDir
    <2>4. Placed'
      BY <2>1, Basics DEF Placed, FolderOf, top
    <2>5. Traversed'
      <3>1. \A n : Emptied(n)' <=> Emptied(n)
        BY <2>1 DEF Emptied, FolderOf, Blocked
      <3>2. \A done \in SUBSET DOMAIN dirs : Behind(done) => Behind(done)'
        BY <2>1, <3>1 DEF Behind
      <3>3. top' = top /\ FolderOf(top.dir)' = FolderOf(top.dir)
        BY <2>1 DEF top, FolderOf
      <3>4. \A f : Blocked(f, top.dir)' <=> Blocked(f, top.dir)
        BY <2>1, <3>3 DEF Blocked
      <3> QED
        BY <2>1, <3>1, <3>2, <3>3, <3>4, Basics DEF Traversed
    <2> QED
      BY <2>2, <2>3, <2>4, <2>5 DEF IInv
  <1> QED
    BY <1>1, <1>2

(* The invariant holds in every run.                                       *)
LEMMA Invariance == Spec => []IInv
  BY InitIInv, NextIInv, PTL DEF Spec

(* The program only is where the loops of the steps put it, its paths are  *)
(* short enough, and every directory it reads, or has put a file into, is  *)
(* there: nothing it has open or has filled is replaced.                   *)
THEOREM TypeCorrect == Spec => []TypeOK
  <1>1. ASSUME IInv
        PROVE  TypeOK
    <2>1. /\ pc \in {"load", "paths", "script", "rename", "unlink", "step4_done",
                     "move", "files", "step5_done", "unknown", "done"}
          /\ Len(path) <= MaxDepth /\ repeats \in 0 .. MaxRepeats
      BY <1>1, Basics DEF Control, PCs4, PCs5
    <2>2. \A n \in DOMAIN dirs : /\ dirs[n].up \in DOMAIN dirs \cup {newroot}
                                 /\ dirs[n].id \in Nat
      BY <1>1, Basics DEF Dir
    <2>3. ASSUME NEW k \in DOMAIN stack
          PROVE  stack[k].dir \in DOMAIN dirs \cup {newroot}
      <3>1. k \in 1 .. Len(stack) /\ Len(stack) \in Nat
        BY <1>1, <2>3, Basics
      <3>2. CASE k = 1
        <4>1. stack # <<>>
          BY <3>1, <3>2
        <4> QED
          BY <1>1, <3>2, <4>1, Basics DEF Stacked
      <3>3. CASE k # 1
        <4>1. PICK j \in 1 .. Len(stack) - 1 : j + 1 = k
          <5>1. k - 1 \in 1 .. Len(stack) - 1 /\ (k - 1) + 1 = k
            BY <3>1, <3>3
          <5> QED
            BY <5>1
        <4>2. stack[j + 1].dir \in Children(dirs, stack[j].dir)
          BY <1>1, Basics DEF Stacked
        <4> QED
          BY <4>1, <4>2 DEF Children
      <3> QED
        BY <3>2, <3>3
    <2>4. \A f \in DOMAIN files :
            files[f].where = "tree" => files[f].dir \in DOMAIN dirs \cup {newroot}
      BY <1>1, Basics DEF Placed
    <2> QED
      BY <2>1, <2>2, <2>3, <2>4 DEF TypeOK
  <1> QED
    BY <1>1, Invariance, PTL

LEMMA FoldersKept ==
  ASSUME IInv, Next
  PROVE  DirsKept
  <1>1. ASSUME \A n \in DOMAIN dirs : n \in DOMAIN dirs' /\ dirs'[n].up = dirs[n].up
        PROVE  DirsKept
    BY <1>1 DEF DirsKept
  <1>2. ASSUME UNCHANGED dirs
        PROVE  DirsKept
    BY <1>1, <1>2
  <1>3. ASSUME Kept, \A m \in DOMAIN dirs' : dirs'[m].up = dirs[m].up
        PROVE  DirsKept
    BY <1>3 DEF Kept, DirsKept
  <1>4. CASE Mkdir
    <2>1. TreeOK(dirs)
      BY Basics
    <2>2. \/ UNCHANGED dirs
          \/ \E name : dirs' = WithNew(at, name, name.num)
      BY <1>4 DEF Mkdir
    <2>3. \A n \in DOMAIN dirs : n \in DOMAIN dirs' /\ dirs'[n].up = dirs[n].up
      BY <2>1, <2>2, NewDirIsNew DEF WithNew
    <2> QED
      BY <1>1, <2>3
  <1>5. CASE Echo
    BY <1>1, <1>5, EchoTree
  <1>6. CASE Rename
    BY <1>3, <1>6, RenameTree
  <1>7. CASE StartUnlinkable
    BY <1>1, <1>7, StartUnlinkableTree
  <1>8. CASE Unlinkable
    BY <1>8, UnlinkableTree DEF Kept, DirsKept
  <1>9. CASE Recovered
    BY <1>3, <1>9, RecoveredTree
  <1>10. CASE Load \/ Climb \/ PathDone \/ ScriptKilled \/ ScriptDone \/ Descend \/ Again4
    BY <1>2, <1>10 DEF Load, Climb, PathDone, ScriptKilled, ScriptDone, Descend, Again4
  <1>11. CASE Start5 \/ Enter \/ OpenFolder \/ MoveFile \/ CloseFolder \/ Again5 \/ Unknown
    BY <1>2, <1>11 DEF Start5, Enter, OpenFolder, MoveFile, CloseFolder, Again5, Unknown
  <1>12. CASE Cleanup
    <2>1. dirs' = [n \in DOMAIN dirs |-> [dirs[n] EXCEPT !.id = NoId]]
      BY <1>12 DEF Cleanup
    <2>2. \A n \in DOMAIN dirs : n \in DOMAIN dirs' /\ dirs'[n].up = dirs[n].up
      BY <2>1, Basics DEF Dir
    <2> QED
      BY <1>1, <2>2
  <1> QED
    BY <1>4, <1>5, <1>6, <1>7, <1>8, <1>9, <1>10, <1>11, <1>12 DEF Next, Step4

(* However often each of the steps, in their order, is interrupted or      *)
(* repeated before the next one begins: no rename puts a directory in the  *)
(* place of one that has an id file or moves it anywhere but from newroot  *)
(* to x_directory_problem, and no file takes the place of another one.     *)
THEOREM NothingIsLost == Spec => NothingLost
  <1>1. ASSUME IInv, [Next]_vars
        PROVE  [DirsKept /\ FilesKept']_vars
    <2>1. CASE UNCHANGED vars
      BY <2>1
    <2>2. CASE Next
      <3>1. DirsKept
        BY <1>1, <2>2, FoldersKept
      <3>2. IInv'
        BY <1>1, NextIInv
      <3>3. FilesKept'
        BY <3>2 DEF IInv, Placed, FilesKept
      <3> QED
        BY <3>1, <3>3
    <2> QED
      BY <1>1, <2>1, <2>2
  <1> QED
    BY <1>1, Invariance, PTL DEF Spec, NothingLost

(* Step 5 brings a file to a directory that was made for its folder, where *)
(* no name can be taken for an id or each folder has its own id file; and  *)
(* it leaves none behind whose folder has one, unless a directory in there *)
(* has the name of the file.                                               *)
THEOREM FilesReachFolders == Spec => []FilesPlaced
  <1>1. ASSUME IInv
        PROVE  FilesRight
    <2> SUFFICES ASSUME pc \in {"move", "files", "step5_done"}, NoNumbers \/ (AllMarked /\ OwnIds),
                        NEW f \in DOMAIN files, files[f].where = "tree", f.folder # 0
                 PROVE  files[f].dir # newroot /\ dirs[files[f].dir].made = f.folder
      BY DEF FilesRight, InCorrectDirectory
    <2>1. PICK n : n = files[f].dir
      OBVIOUS
    <2>2. n \in DOMAIN dirs \cup {newroot} /\ FolderOf(n) = f.folder
      <3>1. pc # "done"
        OBVIOUS
      <3> QED
        BY <1>1, <2>1, <3>1, Basics DEF Placed
    <2>3. n # newroot /\ n \in DOMAIN dirs
      BY <2>2 DEF FolderOf
    <2>4. CASE dirs[n].id # NoId
      <3>1. dirs[n].id = f.folder
        BY <2>2, <2>3, <2>4 DEF FolderOf
      <3>2. dirs[n].id \in {NoId, dirs[n].made}
        BY <1>1, <2>3, Basics DEF TreeOK, IdKnown, OwnIds
      <3> QED
        BY <2>1, <2>3, <2>4, <3>1, <3>2
    <2>5. CASE dirs[n].id = NoId
      <3>1. dirs[n].name.num = f.folder
        BY <2>2, <2>3, <2>5 DEF FolderOf
      <3>2. NameKnown(dirs[n])
        BY <1>1, <2>3, Basics DEF TreeOK
      <3>3. dirs[n].name = IdName(dirs[n].made)
        BY <2>3, <2>5, <3>1, <3>2 DEF NameKnown, NoNumbers, AllMarked
      <3>4. dirs[n].name.num = dirs[n].made
        BY <3>3 DEF IdName
      <3> QED
        BY <2>1, <2>3, <3>1, <3>4
    <2> QED
      BY <2>4, <2>5
  <1>2. ASSUME IInv
        PROVE  FilesMoved
    <2> SUFFICES ASSUME pc = "step5_done", NEW f \in DOMAIN files, NEW n \in DOMAIN dirs,
                        dirs[n].id = f.folder, f.folder # NoId
                 PROVE  files[f].where # "restored" \/ Blocked(f, n)
      BY DEF FilesMoved
    <2>1. n # newroot
      BY <1>2, Basics
    <2>2. FolderOf(n) = f.folder
      BY <2>1 DEF FolderOf
    <2> QED
      BY <1>2, <2>2, Basics DEF Traversed, Emptied
  <1>3. IInv => FilesPlaced
    BY <1>1, <1>2 DEF FilesPlaced
  <1> QED
    BY <1>3, Invariance, PTL

-----------------------------------------------------------------------------
(***************************************************************************)
(* What step 4 builds when nothing disturbs it.                            *)
(***************************************************************************)
Distinct == \A i, j \in Indices : entries[i].folder = entries[j].folder => i = j

(* The script knows no names.                                              *)
Unnamed == \A n \in DOMAIN dirs : dirs[n].name = IdName(dirs[n].made)

(* What lies in newroot lies in the directory of the unlinkable ones soon. *)
Near(n, m, p) ==
  dirs[m].up = dirs[n].up \/ (dirs[m].up \in {newroot, p} /\ dirs[n].up \in {newroot, p})

(* Its names are there once, so no rename fails; what was seen is moved.   *)
Aside(p) ==
  /\ p \in ProblemDir /\ dirs[p].made = NoId
  /\ \A n, m \in DOMAIN dirs : Near(n, m, p) /\ dirs[n].name = dirs[m].name => n = m
  /\ \A c \in Children(dirs, newroot) :
       /\ c # p => dirs[c].name \in stack[1].open
       /\ dirs[c].name \in stack[1].seen => dirs[c].name \in {IdName(RootId), Problem}

Tidy ==
  /\ Distinct
  /\ Undisturbed =>
       /\ pc \in {"load", "paths"} => DOMAIN dirs = {}
       /\ pc = "script" => Unnamed
       /\ pc = "rename" => \A n \in DOMAIN dirs : dirs[n].name # Problem
       /\ pc = "unlink" => \E p \in DOMAIN dirs : Aside(p)

-----------------------------------------------------------------------------
LEMMA LoadedUnique ==
  ASSUME NEW t \in Tables
  PROVE  \A i, j \in DOMAIN Loaded(t) : Loaded(t)[i].folder = Loaded(t)[j].folder => i = j
  <1> DEFINE New(i) == Good(t[i]) /\ \A j \in 1 .. i - 1 : Good(t[j]) => t[j].folder # t[i].folder
             kept == {i \in DOMAIN t : New(i)}
             Upto(i) == {j \in kept : j <= i}
             At(n) == CHOOSE i \in kept : Cardinality(Upto(i)) = n
             c == Cardinality(kept)
  <1>1. Loaded(t) = [n \in 1 .. c |-> t[At(n)]]
    BY DEF Loaded
  <1>2. t \in Seq(Line) /\ Len(t) \in Nat /\ DOMAIN t = 1 .. Len(t) /\ kept \subseteq 1 .. Len(t)
    BY Sizes
  <1>3. ASSUME NEW n \in 1 .. c
        PROVE  At(n) \in kept /\ Cardinality(Upto(At(n))) = n
    <2>1. \E i \in kept : Cardinality({j \in kept : j <= i}) = n
      <3> HIDE DEF kept
      <3> QED
        BY <1>2, <1>3, KthOf
    <2> HIDE DEF kept
    <2> QED
      BY <2>1
  <1>4. ASSUME NEW a \in kept, NEW b \in kept, t[a].folder = t[b].folder
        PROVE  a = b
    <2>1. a \in 1 .. Len(t) /\ b \in 1 .. Len(t) /\ New(a) /\ New(b)
      BY <1>2
    <2>2. ~(a < b)
      <3>1. a < b => a \in 1 .. b - 1
        BY <1>2, <2>1
      <3> QED
        BY <1>4, <2>1, <3>1
    <2>3. ~(b < a)
      <3>1. b < a => b \in 1 .. a - 1
        BY <1>2, <2>1
      <3> QED
        BY <1>4, <2>1, <3>1
    <2> QED
      BY <1>2, <2>1, <2>2, <2>3
  <1> HIDE DEF At, kept, c, Upto
  <1>5. ASSUME NEW i \in DOMAIN Loaded(t), NEW j \in DOMAIN Loaded(t),
               Loaded(t)[i].folder = Loaded(t)[j].folder
        PROVE  i = j
    <2>1. /\ i \in 1 .. c /\ j \in 1 .. c
          /\ Loaded(t)[i] = t[At(i)] /\ Loaded(t)[j] = t[At(j)]
      BY <1>1
    <2>2. At(i) \in kept /\ At(j) \in kept
      BY <1>3, <2>1
    <2>3. At(i) = At(j)
      BY <1>4, <1>5, <2>1, <2>2
    <2> QED
      BY <1>3, <2>1, <2>3
  <1> QED
    BY <1>5

(* A rename fails, or the directory has its new place and name.            *)
Replaced(d, n, up, name) ==
  /\ \A o \in Gone(n, up, name) : dirs[o].id = NoId /\ Children(dirs, o) = {}
  /\ DOMAIN d = DOMAIN dirs \ Gone(n, up, name)
  /\ \A m \in DOMAIN d : m # n => d[m] = dirs[m]
  /\ n \in DOMAIN d
  /\ d[n].up = up /\ d[n].name = name
  /\ d[n].id = dirs[n].id /\ d[n].made = dirs[n].made

LEMMA RenameOutcome ==
  ASSUME TreeOK(dirs), NEW n \in DOMAIN dirs, NEW up, NEW name,
         NEW d, d = Renamed(n, up, name)
  PROVE  \/ d = dirs /\ Gone(n, up, name) # {}
         \/ Replaced(d, n, up, name)
  <1> DEFINE gone == Gone(n, up, name)
             empty == {o \in gone : dirs[o].id = NoId /\ Children(dirs, o) = {}}
             new == [dirs[n] EXCEPT !.up = up, !.name = name]
  <1>1. d = IF gone # empty THEN dirs
            ELSE [m \in DOMAIN dirs \ gone |-> IF m = n THEN new ELSE dirs[m]]
    BY DEF Renamed, Gone
  <1>3. CASE gone # empty
    <2>1. gone # {}
      BY <1>3
    <2> QED
      BY <1>1, <1>3, <2>1
  <1>4. CASE gone = empty
    <2>1. n \notin gone
      BY DEF Gone
    <2>2. d = [m \in DOMAIN dirs \ gone |-> IF m = n THEN new ELSE dirs[m]]
      BY <1>1, <1>4
    <2>3. \A o \in gone : dirs[o].id = NoId /\ Children(dirs, o) = {}
      BY <1>4
    <2>4. dirs[n] \in Dir
      BY DEF TreeOK
    <2>5. new.up = up /\ new.name = name /\ new.id = dirs[n].id /\ new.made = dirs[n].made
      BY <2>4 DEF Dir
    <2> HIDE DEF gone, empty, new
    <2>6. DOMAIN d = DOMAIN dirs \ gone /\ n \in DOMAIN d /\ d[n] = new
          /\ \A m \in DOMAIN d : m # n => d[m] = dirs[m]
      BY <2>1, <2>2
    <2> QED
      BY <2>3, <2>5, <2>6 DEF gone, Replaced
  <1> QED
    BY <1>3, <1>4

(* Only step 4 itself keeps what it does undisturbed.                      *)
LEMMA Undisturbed4 ==
  ASSUME IInv, Next, Undisturbed'
  PROVE  /\ Undisturbed /\ entries' = entries
         /\ ~ScriptKilled /\ ~Again4 /\ ~Again5
         /\ pc' \in PCs4 => Step4
  <1>1. repeats \in Nat /\ repeats' = 0
    BY Sizes DEF IInv, Control, Undisturbed
  <1>2. entries' = entries
    BY DEF Next, Step4, Load, Climb, PathDone, Mkdir, Echo, ScriptKilled, ScriptDone, Descend,
           Rename, StartUnlinkable, Unlinkable, Recovered, Again4, Start5, Enter, OpenFolder,
           MoveFile, CloseFolder, Again5, Unknown, Cleanup
  <1>3. ~ScriptKilled /\ ~Again4 /\ ~Again5
    BY <1>1 DEF ScriptKilled, Again4, Again5
  <1>4. repeats' = repeats
    BY <1>3 DEF Next, Step4, Load, Climb, PathDone, Mkdir, Echo, ScriptDone, Descend,
           Rename, StartUnlinkable, Unlinkable, Recovered, Start5, Enter, OpenFolder,
           MoveFile, CloseFolder, Unknown, Cleanup
  <1>5. Undisturbed
    BY <1>2, <1>4 DEF Undisturbed, EntryOf, Indices
  <1>6. pc' \in PCs4 => Step4
    BY <1>3 DEF Next, PCs4, Start5, Enter, OpenFolder, MoveFile, CloseFolder, Unknown, Cleanup
  <1> QED
    BY <1>2, <1>3, <1>5, <1>6

LEMMA EntriesStay ==
  ASSUME Next
  PROVE  entries' = entries
  BY DEF Next, Step4, Load, Climb, PathDone, Mkdir, Echo, ScriptKilled, ScriptDone, Descend,
         Rename, StartUnlinkable, Unlinkable, Recovered, Again4, Start5, Enter, OpenFolder,
         MoveFile, CloseFolder, Again5, Unknown, Cleanup

LEMMA TidyInit == Init => Tidy
  <1> SUFFICES ASSUME Init
               PROVE  Tidy
    OBVIOUS
  <1>1. pc = "load" /\ DOMAIN dirs = {}
    BY DEF Init, Init4
  <1>2. Distinct
    BY LoadedUnique DEF Init, Init4, Distinct, Indices
  <1> QED
    BY <1>1, <1>2 DEF Tidy

(* Which actions lead where.                                               *)
LEMMA Leading ==
  ASSUME IInv, Next, Undisturbed'
  PROVE  /\ pc' # "load"
         /\ pc' = "paths" => Load \/ Climb \/ PathDone
         /\ pc' = "script" => Load \/ PathDone \/ Mkdir \/ Echo
         /\ pc' = "rename" => ScriptDone \/ Descend \/ Rename
         /\ pc' = "unlink" => StartUnlinkable \/ Unlinkable
         /\ pc' = "step4_done" => Recovered
  <1>1. pc' \in PCs4 => Step4 /\ ~ScriptKilled /\ ~Again4
    BY Undisturbed4
  <1>2. Load \/ PathDone => pc' = "paths" \/ pc' = "script"
    BY DEF Load, PathDone, StartPath
  <1> QED
    BY <1>1, <1>2 DEF PCs4, Step4, Climb, Mkdir, Echo, ScriptDone, Descend, Rename,
                      StartUnlinkable, Unlinkable, Recovered

LEMMA TidyScript ==
  ASSUME IInv, Tidy, Next, Undisturbed', pc' = "script"
  PROVE  Unnamed'
  <1>1. Undisturbed
    BY Undisturbed4
  <1>2. CASE Load \/ PathDone
    BY <1>1, <1>2 DEF Tidy, Load, PathDone, Unnamed
  <1>3. CASE Mkdir
    <2>1. Unnamed
      BY <1>1, <1>3 DEF Tidy, Mkdir
    <2>2. PICK name : /\ \E i : name = IdName(i)
                      /\ UNCHANGED dirs \/ dirs' = WithNew(at, name, name.num)
      BY <1>3 DEF Mkdir
    <2>3. name = IdName(name.num)
      BY <2>2 DEF IdName
    <2>4. CASE UNCHANGED dirs
      BY <2>1, <2>4 DEF Unnamed
    <2>5. CASE dirs' = WithNew(at, name, name.num)
      <3>1. /\ DOMAIN dirs' = DOMAIN dirs \cup {NewDir}
            /\ \A n \in DOMAIN dirs : n # NewDir => dirs'[n] = dirs[n]
            /\ dirs'[NewDir].name = name /\ dirs'[NewDir].made = name.num
        BY <2>5 DEF WithNew
      <3> QED
        BY <2>1, <2>3, <3>1 DEF Unnamed
    <2> QED
      BY <2>2, <2>4, <2>5
  <1>4. CASE Echo
    <2>1. Unnamed
      BY <1>1, <1>4 DEF Tidy, Echo
    <2>2. dirs' = [dirs EXCEPT ![at].id = dirs[at].name.num]
      BY <1>4 DEF Echo
    <2>3. ASSUME NEW n \in DOMAIN dirs'
          PROVE  dirs'[n].name = IdName(dirs'[n].made)
      <3>1. n \in DOMAIN dirs /\ dirs[n] \in Dir
        BY <2>2, <2>3, Basics
      <3>2. dirs'[n].name = dirs[n].name /\ dirs'[n].made = dirs[n].made
        <4>1. CASE n = at
          <5>1. dirs'[n] = [dirs[n] EXCEPT !.id = dirs[at].name.num]
            BY <2>2, <3>1, <4>1
          <5> QED
            BY <3>1, <5>1 DEF Dir
        <4>2. CASE n # at
          BY <2>2, <3>1, <4>2
        <4> QED
          BY <4>1, <4>2
      <3> QED
        BY <2>1, <3>1, <3>2 DEF Unnamed
    <2> QED
      BY <2>3 DEF Unnamed
  <1> QED
    BY <1>2, <1>3, <1>4, Leading

(* No name of a folder, and no id, is the one of x_directory_problem.      *)
LEMMA NotProblem ==
  ASSUME Undisturbed
  PROVE  /\ \A i : IdName(i) # Problem
         /\ \A i \in Indices : entries[i].name # Problem
  BY DEF Undisturbed, Problem, Plain, IdName

(* The directory RenameDirectory is about to rename, and what becomes of   *)
(* it.                                                                     *)
LEMMA RenameIs ==
  ASSUME IInv, Rename
  PROVE  LET n == top.dir
             own == EntryOf(dirs[n].name.num)
         IN  /\ n \in DOMAIN dirs /\ Len(stack) > 1 /\ pc = "rename" /\ pc' = "rename"
             /\ stack' = Front(stack)
             /\ own = {} => dirs' = dirs
             /\ own # {} => \E i \in own : i \in Indices
                                          /\ dirs' = Renamed(n, dirs[n].up, entries[i].name)
  <1>1. pc = "rename" /\ pc' = "rename" /\ top.dir # newroot /\ stack # <<>> /\ stack' = Front(stack)
    BY Basics DEF Rename, Stacked
  <1>2. top.dir \in DOMAIN dirs /\ Len(stack) > 1
    BY <1>1, TopFrame, Basics
  <1>3. PICK n : n = top.dir
    OBVIOUS
  <1>4. EntryOf(dirs[n].name.num) = {} => dirs' = dirs
    BY <1>3 DEF Rename
  <1>5. ASSUME EntryOf(dirs[n].name.num) # {}
        PROVE  \E i \in EntryOf(dirs[n].name.num) :
                 i \in Indices /\ dirs' = Renamed(n, dirs[n].up, entries[i].name)
    <2>1. PICK i \in EntryOf(dirs[n].name.num) :
            dirs' = Renamed(n, dirs[n].up, entries[i].name)
      BY <1>3, <1>5 DEF Rename
    <2> QED
      BY <2>1 DEF EntryOf
  <1> QED
    BY <1>1, <1>2, <1>3, <1>4, <1>5

LEMMA TidyRename ==
  ASSUME IInv, Tidy, Next, Undisturbed', pc' = "rename"
  PROVE  \A n \in DOMAIN dirs' : dirs'[n].name # Problem
  <1>1. Undisturbed
    BY Undisturbed4
  <1>2. CASE ScriptDone
    <2>1. Unnamed /\ dirs' = dirs
      BY <1>1, <1>2 DEF Tidy, ScriptDone
    <2> QED
      BY <1>1, <2>1, NotProblem DEF Unnamed
  <1>3. CASE Descend
    BY <1>1, <1>3 DEF Tidy, Descend
  <1>4. CASE Rename
    <2>1. PICK n : n = top.dir
      OBVIOUS
    <2>2. n \in DOMAIN dirs /\ pc = "rename"
      BY <1>4, <2>1, RenameIs
    <2>3. \A m \in DOMAIN dirs : dirs[m].name # Problem
      BY <1>1, <2>2 DEF Tidy
    <2>4. CASE dirs' = dirs
      BY <2>3, <2>4
    <2>5. CASE dirs' # dirs
      <3>1. PICK i \in Indices : dirs' = Renamed(n, dirs[n].up, entries[i].name)
        BY <1>4, <2>1, <2>5, RenameIs
      <3>2. PICK up, name : up = dirs[n].up /\ name = entries[i].name
        OBVIOUS
      <3>3. TreeOK(dirs) /\ dirs' = Renamed(n, up, name)
        BY <3>1, <3>2, Basics
      <3>4. /\ DOMAIN dirs' \subseteq DOMAIN dirs
            /\ \A m \in DOMAIN dirs' : m # n => dirs'[m] = dirs[m]
            /\ dirs'[n].name = name
        <4>1. Replaced(dirs', n, up, name)
          BY <2>2, <2>5, <3>3, RenameOutcome
        <4> QED
          BY <4>1 DEF Replaced
      <3> QED
        BY <1>1, <2>3, <3>2, <3>4, NotProblem
    <2> QED
      BY <2>4, <2>5
  <1> QED
    BY <1>2, <1>3, <1>4, Leading

(* StartUnlinkable makes x_directory_problem, which was not there.         *)
LEMMA StartUnlinkableIs ==
  ASSUME IInv, Tidy, Undisturbed, StartUnlinkable
  PROVE  /\ DOMAIN dirs' = DOMAIN dirs \cup {NewDir} /\ NewDir \notin DOMAIN dirs
         /\ \A n \in DOMAIN dirs : dirs'[n] = dirs[n]
         /\ dirs'[NewDir] = [up |-> newroot, name |-> Problem, id |-> NoId, made |-> NoId]
         /\ stack' # <<>> /\ stack'[1].seen = {IdName(RootId), Problem}
         /\ stack'[1].open = {dirs[c].name : c \in Children(dirs, newroot)}
         /\ pc = "rename" /\ pc' = "unlink" /\ stack # <<>> /\ AtEnd /\ top.dir = newroot
  <1> DEFINE frame == [top EXCEPT !.open = {dirs[c].name : c \in Children(dirs, newroot)},
                                  !.seen = {IdName(RootId), Problem}]
  <1>1. /\ pc = "rename" /\ stack # <<>> /\ top.dir = newroot /\ pc' = "unlink" /\ AtEnd
        /\ stack' = <<frame>>
    BY Basics DEF StartUnlinkable, Stacked
  <1>2. ProblemDir = {}
    BY <1>1 DEF Tidy, ProblemDir, Children
  <1>3. dirs' = WithNew(newroot, Problem, NoId)
    BY <1>2 DEF StartUnlinkable
  <1>4. /\ DOMAIN dirs' = DOMAIN dirs \cup {NewDir} /\ NewDir \notin DOMAIN dirs
        /\ \A n \in DOMAIN dirs : dirs'[n] = dirs[n]
        /\ dirs'[NewDir] = [up |-> newroot, name |-> Problem, id |-> NoId, made |-> NoId]
    BY <1>3, Basics, NewDirIsNew DEF WithNew
  <1>5. /\ frame.seen = {IdName(RootId), Problem}
        /\ frame.open = {dirs[c].name : c \in Children(dirs, newroot)}
    <2>1. top \in Frame
      BY <1>1, TopFrame
    <2> QED
      BY <2>1 DEF Frame
  <1> HIDE DEF frame
  <1> QED
    BY <1>1, <1>4, <1>5

LEMMA OneProblemDir ==
  ASSUME IInv, NEW p \in ProblemDir
  PROVE  ProblemDir = {p} /\ p \in DOMAIN dirs /\ p # newroot
         /\ dirs[p].up = newroot /\ dirs[p].name = Problem
  BY Basics DEF ProblemDir, Children, TreeOK

(* What is moved to x_directory_problem arrives there.                     *)
LEMMA UnlinkableIs ==
  ASSUME IInv, Unlinkable, NEW p \in DOMAIN dirs, Aside(p)
  PROVE  /\ Len(stack) = 1 /\ stack # <<>> /\ pc = "unlink" /\ pc' = "unlink"
         /\ DOMAIN dirs' = DOMAIN dirs
         /\ \E n \in DOMAIN dirs :
              /\ n # p /\ dirs[n].up = newroot /\ dirs[n].name \notin stack[1].seen
              /\ stack' = Seen(n)
              /\ \A m \in DOMAIN dirs : m # n => dirs'[m] = dirs[m]
              /\ dirs'[n].up = p /\ dirs'[n].name = dirs[n].name
              /\ dirs'[n].id = dirs[n].id /\ dirs'[n].made = dirs[n].made
  <1>1. /\ pc = "unlink" /\ pc' = "unlink" /\ stack # <<>> /\ Len(stack) = 1
        /\ stack[1].dir = newroot /\ Problem \in stack[1].seen /\ top = stack[1]
    BY Basics DEF Unlinkable, Stacked, top
  <1>2. ProblemDir = {p} /\ dirs[p].up = newroot /\ dirs[p].name = Problem
    BY OneProblemDir DEF Aside
  <1>3. PICK n \in DOMAIN dirs :
          Unread(n) /\ stack' = Seen(n) /\ dirs' = Renamed(n, p, dirs[n].name)
    <2>1. (CHOOSE q \in ProblemDir : TRUE) = p
      BY <1>2
    <2> QED
      BY <2>1 DEF Unlinkable
  <1>4. /\ dirs[n].up = newroot /\ dirs[n].name \notin stack[1].seen /\ n # p
    BY <1>1, <1>2, <1>3 DEF Unread, Children
  <1>5. PICK name : name = dirs[n].name
    OBVIOUS
  <1>6. Gone(n, p, name) = {}
    <2> SUFFICES ASSUME NEW o \in Gone(n, p, name)
                 PROVE  FALSE
      OBVIOUS
    <2>1. o \in DOMAIN dirs /\ dirs[o].up = p /\ dirs[o].name = dirs[n].name /\ o # n
      BY <1>5 DEF Gone, Children
    <2>2. Near(n, o, p)
      BY <1>4, <2>1 DEF Near
    <2> QED
      BY <2>1, <2>2 DEF Aside
  <1>7. Replaced(dirs', n, p, name)
    <2>1. TreeOK(dirs) /\ dirs' = Renamed(n, p, name)
      BY <1>3, <1>5, Basics
    <2> QED
      BY <1>6, <2>1, RenameOutcome
  <1>8. DOMAIN dirs' = DOMAIN dirs
    BY <1>6, <1>7 DEF Replaced
  <1>9. /\ \A m \in DOMAIN dirs : m # n => dirs'[m] = dirs[m]
        /\ dirs'[n].up = p /\ dirs'[n].name = dirs[n].name
        /\ dirs'[n].id = dirs[n].id /\ dirs'[n].made = dirs[n].made
    BY <1>5, <1>7, <1>8 DEF Replaced
  <1> QED
    BY <1>1, <1>3, <1>4, <1>8, <1>9

LEMMA AsideStays ==
  ASSUME IInv, Unlinkable, NEW p \in DOMAIN dirs, Aside(p)
  PROVE  Aside(p)'
  <1>1. /\ Len(stack) = 1 /\ stack # <<>> /\ DOMAIN dirs' = DOMAIN dirs
    BY UnlinkableIs
  <1>2. PICK n \in DOMAIN dirs :
          /\ n # p /\ dirs[n].up = newroot
          /\ stack' = Seen(n)
          /\ \A m \in DOMAIN dirs : m # n => dirs'[m] = dirs[m]
          /\ dirs'[n].up = p /\ dirs'[n].name = dirs[n].name
          /\ dirs'[n].made = dirs[n].made
    BY UnlinkableIs
  <1>3. /\ stack'[1].open = stack[1].open
        /\ stack'[1].seen = stack[1].seen \cup {dirs[n].name}
    BY <1>1, <1>2, SeenFrames
  <1>4. p # newroot /\ dirs[p].up = newroot /\ dirs[p].name = Problem
    BY OneProblemDir DEF Aside
  <1>5. p \in ProblemDir' /\ dirs'[p].made = NoId
    BY <1>1, <1>2, <1>4 DEF Aside, ProblemDir, Children
  <1>6. ASSUME NEW a \in DOMAIN dirs', NEW b \in DOMAIN dirs',
               Near(a, b, p)', dirs'[a].name = dirs'[b].name
        PROVE  a = b
    <2>1. \A m \in DOMAIN dirs :
            /\ dirs'[m].name = dirs[m].name
            /\ dirs'[m].up \in {newroot, p} <=> dirs[m].up \in {newroot, p}
            /\ dirs'[m].up = dirs[m].up \/ dirs[m].up \in {newroot, p}
      BY <1>2
    <2>2. Near(a, b, p)
      BY <1>1, <1>6, <2>1 DEF Near
    <2> QED
      BY <1>1, <1>6, <2>1, <2>2 DEF Aside
  <1>7. ASSUME NEW c \in Children(dirs', newroot)
        PROVE  /\ c # p => dirs'[c].name \in stack'[1].open
               /\ dirs'[c].name \in stack'[1].seen => dirs'[c].name \in {IdName(RootId), Problem}
    <2>1. c \in DOMAIN dirs /\ c # n /\ dirs'[c] = dirs[c] /\ dirs[c].up = newroot
      BY <1>1, <1>2, <1>4 DEF Children
    <2>2. c \in Children(dirs, newroot)
      BY <2>1 DEF Children
    <2>3. dirs[c].name # dirs[n].name
      BY <1>2, <2>1, Basics DEF TreeOK
    <2> QED
      BY <1>3, <2>1, <2>2, <2>3 DEF Aside
  <1>8. UNCHANGED <<newroot, RootId, Problem>>
    BY DEF newroot, RootId, Problem
  <1> QED
    BY <1>5, <1>6, <1>7, <1>8 DEF Aside

LEMMA TidyUnlink ==
  ASSUME IInv, Tidy, Next, Undisturbed', pc' = "unlink"
  PROVE  \E p \in DOMAIN dirs' : Aside(p)'
  <1>1. Undisturbed
    BY Undisturbed4
  <1>2. CASE StartUnlinkable
    <2>1. PICK p : p = NewDir
      OBVIOUS
    <2>2. /\ DOMAIN dirs' = DOMAIN dirs \cup {p} /\ p \notin DOMAIN dirs
          /\ \A n \in DOMAIN dirs : dirs'[n] = dirs[n]
          /\ dirs'[p].up = newroot /\ dirs'[p].name = Problem /\ dirs'[p].made = NoId
          /\ stack'[1].seen = {IdName(RootId), Problem}
          /\ stack'[1].open = {dirs[c].name : c \in Children(dirs, newroot)}
      BY <1>1, <1>2, <2>1, StartUnlinkableIs
    <2>3. p # newroot /\ TreeOK(dirs')
      BY <1>2, <2>1, Basics, NewDirIsNew, StartUnlinkableTree
    <2>4. p \in ProblemDir'
      BY <2>2 DEF ProblemDir, Children
    <2>5. ASSUME NEW n \in DOMAIN dirs', NEW m \in DOMAIN dirs',
                 Near(n, m, p)', dirs'[n].name = dirs'[m].name
          PROVE  n = m
      <3>1. \A o \in DOMAIN dirs' : dirs'[o].up # p
        BY <2>2, <2>3, Basics
      <3>2. dirs'[n].up = dirs'[m].up
        BY <2>5, <3>1 DEF Near
      <3> QED
        BY <2>3, <2>5, <3>2 DEF TreeOK
    <2>6. ASSUME NEW c \in Children(dirs', newroot)
          PROVE  /\ c # p => dirs'[c].name \in stack'[1].open
                 /\ dirs'[c].name \in stack'[1].seen => dirs'[c].name \in {IdName(RootId), Problem}
      <3>1. c # p => c \in Children(dirs, newroot) /\ dirs'[c] = dirs[c]
        BY <2>2 DEF Children
      <3> QED
        BY <2>2, <3>1
    <2>7. Aside(p)'
      BY <2>2, <2>4, <2>5, <2>6 DEF Aside
    <2> QED
      BY <2>2, <2>7
  <1>3. CASE Unlinkable
    <2>1. PICK p \in DOMAIN dirs : Aside(p)
      BY <1>1, <1>3 DEF Tidy, Unlinkable
    <2>2. p \in DOMAIN dirs'
      BY <1>3, <2>1, UnlinkableIs
    <2> QED
      BY <1>3, <2>1, <2>2, AsideStays
  <1> QED
    BY <1>2, <1>3, Leading

LEMMA TidyNext ==
  ASSUME IInv, Tidy, [Next]_vars
  PROVE  Tidy'
  <1>1. CASE UNCHANGED vars
    <2>1. UNCHANGED <<entries, dirs, stack, pc, repeats>>
      BY <1>1 DEF vars, vars4
    <2>2. \A p : Aside(p) => Aside(p)'
      BY <2>1 DEF Aside, Near, ProblemDir
    <2>3. Undisturbed' <=> Undisturbed
      BY <2>1 DEF Undisturbed, EntryOf, Indices
    <2> QED
      BY <2>1, <2>2, <2>3 DEF Tidy, Distinct, Indices, Unnamed
  <1>2. CASE Next
    <2>1. Distinct'
      BY <1>2, EntriesStay DEF Tidy, Distinct, Indices
    <2>2. ASSUME Undisturbed'
          PROVE  /\ pc' \in {"load", "paths"} => DOMAIN dirs' = {}
                 /\ pc' = "script" => Unnamed'
                 /\ pc' = "rename" => \A n \in DOMAIN dirs' : dirs'[n].name # Problem
                 /\ pc' = "unlink" => \E p \in DOMAIN dirs' : Aside(p)'
      <3>1. pc' \in {"load", "paths"} => DOMAIN dirs' = {}
        <4>1. Undisturbed /\ (pc' \in {"load", "paths"} => Load \/ Climb \/ PathDone)
          BY <1>2, <2>2, Undisturbed4, Leading
        <4> QED
          BY <4>1 DEF Tidy, Load, Climb, PathDone
      <3> QED
        BY <1>2, <2>2, <3>1, TidyScript, TidyRename, TidyUnlink
    <2> QED
      BY <2>1, <2>2 DEF Tidy, Problem
  <1> QED
    BY <1>1, <1>2
-----------------------------------------------------------------------------
(* The names, when no folder's name begins with a number.                  *)

(* The directory of a folder has its id or its name for a name.            *)
Named(n) ==
  \/ dirs[n].name = IdName(dirs[n].made)
  \/ \E i \in EntryOf(dirs[n].made) : dirs[n].name = entries[i].name

(* It has the folder's name, or another one beside it has.                 *)
Settled(n) ==
  \A i \in EntryOf(dirs[n].made) :
    \/ dirs[n].name = entries[i].name
    \/ /\ dirs[n].name = IdName(dirs[n].made)
       /\ \E m \in Children(dirs, dirs[n].up) : dirs[m].name = entries[i].name

(* The same when some directories are still to be moved beside it.         *)
SettledNear(n, p) ==
  \A i \in EntryOf(dirs[n].made) :
    \/ dirs[n].name = entries[i].name
    \/ /\ dirs[n].name = IdName(dirs[n].made)
       /\ \E m \in DOMAIN dirs : dirs[m].name = entries[i].name /\ Near(n, m, p)

(* RenameDirectory is through with a set of directories; the others in a   *)
(* directory it still reads are yet to be seen, or it is in one of them.   *)
RenamedBehind(done) ==
  /\ \A n \in done : Settled(n) /\ Children(dirs, n) \subseteq done
  /\ \A k \in DOMAIN stack : \A c \in Children(dirs, stack[k].dir) :
       \/ c \in done
       \/ /\ dirs[c].name \in stack[k].open
          /\ dirs[c].name \in stack[k].seen => k < Len(stack) /\ c = stack[k + 1].dir

NamesInv ==
  Undisturbed /\ NoNumbers =>
    /\ pc = "rename" =>
         /\ \A n \in DOMAIN dirs : Named(n)
         /\ \E done \in SUBSET DOMAIN dirs : RenamedBehind(done)
    /\ pc = "unlink" =>
         \E p \in DOMAIN dirs :
           /\ Aside(p)
           /\ \A n \in DOMAIN dirs : (n # p => Named(n)) /\ SettledNear(n, p)
    /\ pc = "step4_done" => \A n \in DOMAIN dirs : Settled(n)

-----------------------------------------------------------------------------
LEMMA NoFolder0 ==
  ASSUME IInv
  PROVE  /\ EntryOf(0) = {}
         /\ \A f : \A i \in EntryOf(f) : i \in Indices /\ entries[i].folder = f /\ f # 0
  <1>1. \A i \in Indices : entries[i].folder > 1
    BY Basics DEF EntriesOK, Good
  <1> QED
    BY <1>1 DEF EntryOf

(* Only an id leads RenameDirectory to a folder.                           *)
LEMMA NumberIsId ==
  ASSUME IInv, NoNumbers, NEW n \in DOMAIN dirs, Named(n),
         EntryOf(dirs[n].name.num) # {}
  PROVE  dirs[n].name = IdName(dirs[n].made) /\ dirs[n].name.num = dirs[n].made
         /\ dirs[n].name.num # 0
  <1>1. dirs[n].name.num # 0
    BY NoFolder0
  <1>2. \A i \in EntryOf(dirs[n].made) : entries[i].name.num = 0
    BY NoFolder0 DEF NoNumbers
  <1>3. dirs[n].name = IdName(dirs[n].made)
    BY <1>1, <1>2 DEF Named
  <1>4. IdName(dirs[n].made).num = dirs[n].made
    BY DEF IdName
  <1> QED
    BY <1>1, <1>3, <1>4

(* A directory that has not been seen is not passed over.                  *)
LEMMA AtEndDone ==
  ASSUME IInv, stack # <<>>, AtEnd, NEW done, RenamedBehind(done)
  PROVE  Children(dirs, top.dir) \subseteq done
  <1> SUFFICES ASSUME NEW c \in Children(dirs, top.dir), c \notin done
               PROVE  FALSE
    OBVIOUS
  <1>1. PICK k : k = Len(stack)
    OBVIOUS
  <1>2. k \in DOMAIN stack /\ top = stack[k] /\ ~(k < Len(stack))
    BY <1>1, TopFrame, Basics
  <1>3. dirs[c].name \in stack[k].open /\ dirs[c].name \notin stack[k].seen
    BY <1>2 DEF RenamedBehind
  <1> QED
    BY <1>2, <1>3 DEF AtEnd

(* What Rename does to the directory n it leaves, and to all others.       *)
LEMMA RenameNames ==
  ASSUME IInv, Distinct, NoNumbers, Rename, \A m \in DOMAIN dirs : Named(m),
         NEW n, n = top.dir
  PROVE  /\ DOMAIN dirs' \subseteq DOMAIN dirs /\ n \in DOMAIN dirs'
         /\ \A m \in DOMAIN dirs' : /\ dirs'[m].up = dirs[m].up /\ dirs'[m].made = dirs[m].made
                                    /\ m # n => dirs'[m] = dirs[m]
                                    /\ Named(m)'
         /\ Settled(n)'
         /\ \A m \in DOMAIN dirs' : Settled(m) => Settled(m)'
  <1>1. n \in DOMAIN dirs /\ UNCHANGED entries
    BY RenameIs DEF Rename
  <1>2. \A f : EntryOf(f)' = EntryOf(f)
    BY <1>1 DEF EntryOf, Indices
  <1>3. CASE dirs' = dirs /\ EntryOf(dirs[n].name.num) = {}
    <2>1. \A m \in DOMAIN dirs : Named(m)' /\ (Settled(m) => Settled(m)')
      BY <1>1, <1>2, <1>3 DEF Named, Settled
    <2>2. Settled(n)
      <3>1. CASE dirs[n].name = IdName(dirs[n].made)
        <4>1. EntryOf(dirs[n].made) = {}
          BY <1>3, <3>1 DEF IdName
        <4> QED
          BY <4>1 DEF Settled
      <3>2. CASE \E i \in EntryOf(dirs[n].made) : dirs[n].name = entries[i].name
        BY <3>2, NoFolder0 DEF Settled, Distinct
      <3> QED
        BY <1>1, <3>1, <3>2 DEF Named
    <2> QED
      BY <1>1, <1>3, <2>1, <2>2
  <1>4. CASE EntryOf(dirs[n].name.num) # {}
    <2>1. /\ dirs[n].name = IdName(dirs[n].made) /\ dirs[n].name.num = dirs[n].made
          /\ dirs[n].name.num # 0
      BY <1>1, <1>4, NumberIsId
    <2>2. PICK i \in EntryOf(dirs[n].made) : dirs' = Renamed(n, dirs[n].up, entries[i].name)
      BY <1>4, <2>1, RenameIs
    <2>3. PICK up, name : up = dirs[n].up /\ name = entries[i].name
      OBVIOUS
    <2>4. \A j \in EntryOf(dirs[n].made) : entries[j].name = name
      BY <2>2, <2>3, NoFolder0 DEF Distinct
    <2>5. \A f : \A j \in EntryOf(f) : entries[j].name.num = 0
      BY NoFolder0 DEF NoNumbers
    <2>6. CASE dirs' = dirs /\ Gone(n, up, name) # {}
      <3>1. \A m \in DOMAIN dirs : Named(m)' /\ (Settled(m) => Settled(m)')
        BY <1>1, <1>2, <2>6 DEF Named, Settled
      <3>2. PICK o \in Children(dirs, up) : dirs[o].name = name
        BY <2>6 DEF Gone
      <3>3. Settled(n)
        BY <2>1, <2>3, <2>4, <3>2 DEF Settled
      <3> QED
        BY <1>1, <2>6, <3>1, <3>3
    <2>7. CASE Replaced(dirs', n, up, name)
      <3>1. /\ DOMAIN dirs' = DOMAIN dirs \ Gone(n, up, name) /\ n \in DOMAIN dirs'
            /\ \A m \in DOMAIN dirs' : m # n => dirs'[m] = dirs[m]
            /\ dirs'[n].up = up /\ dirs'[n].name = name /\ dirs'[n].made = dirs[n].made
        BY <2>7 DEF Replaced
      <3>2. \A m \in DOMAIN dirs' :
              dirs'[m].up = dirs[m].up /\ dirs'[m].made = dirs[m].made
        BY <2>3, <3>1
      <3>3. ASSUME NEW m \in DOMAIN dirs'
            PROVE  Named(m)'
        <4>1. CASE m = n
          BY <1>1, <1>2, <2>2, <2>3, <3>1, <4>1 DEF Named
        <4>2. CASE m # n
          <5>1. Named(m) /\ dirs'[m] = dirs[m]
            BY <3>1, <4>2
          <5> QED
            BY <1>1, <1>2, <5>1 DEF Named
        <4> QED
          BY <4>1, <4>2
      <3>4. Settled(n)'
        BY <1>1, <1>2, <2>4, <3>1 DEF Settled
      <3>5. ASSUME NEW m \in DOMAIN dirs', Settled(m), m # n
            PROVE  Settled(m)'
        <4> SUFFICES ASSUME NEW j \in EntryOf(dirs[m].made)
                     PROVE  \/ dirs[m].name = entries[j].name
                            \/ /\ dirs[m].name = IdName(dirs[m].made)
                               /\ \E w \in Children(dirs', dirs[m].up) :
                                    dirs'[w].name = entries[j].name
          <5>1. dirs'[m] = dirs[m] /\ entries' = entries
            BY <1>1, <3>1, <3>5
          <5> QED
            BY <5>1 DEF Settled, EntryOf, Indices
        <4>1. CASE dirs[m].name = entries[j].name
          BY <4>1
        <4>2. CASE dirs[m].name # entries[j].name
          <5>1. PICK w \in Children(dirs, dirs[m].up) : dirs[w].name = entries[j].name
            BY <3>5, <4>2 DEF Settled
          <5>2. dirs[m].name = IdName(dirs[m].made)
            BY <3>5, <4>2 DEF Settled
          <5>3. w # n /\ w \in DOMAIN dirs /\ dirs[w].up = dirs[m].up
            BY <2>1, <2>5, <5>1 DEF Children
          <5>4. CASE w \in Gone(n, up, name)
            <6>1. dirs[w].name = name /\ dirs[m].up = up
              BY <5>3, <5>4 DEF Gone, Children
            <6>2. n \in Children(dirs', dirs[m].up) /\ dirs'[n].name = entries[j].name
              BY <3>1, <5>1, <6>1 DEF Children
            <6> QED
              BY <5>2, <6>2
          <5>5. CASE w \notin Gone(n, up, name)
            <6>1. w \in DOMAIN dirs' /\ dirs'[w] = dirs[w]
              BY <3>1, <5>3, <5>5
            <6>2. w \in Children(dirs', dirs[m].up) /\ dirs'[w].name = entries[j].name
              BY <5>1, <5>3, <6>1 DEF Children
            <6> QED
              BY <5>2, <6>2
          <5> QED
            BY <5>4, <5>5
        <4> QED
          BY <4>1, <4>2
      <3> QED
        BY <3>1, <3>2, <3>3, <3>4, <3>5
    <2>8. (dirs' = dirs /\ Gone(n, up, name) # {}) \/ Replaced(dirs', n, up, name)
      <3>1. TreeOK(dirs) /\ dirs' = Renamed(n, up, name)
        BY <2>2, <2>3, Basics
      <3> QED
        BY <1>1, <3>1, RenameOutcome
    <2> QED
      BY <2>6, <2>7, <2>8
  <1>5. EntryOf(dirs[n].name.num) = {} => dirs' = dirs
    BY RenameIs
  <1> QED
    BY <1>3, <1>4, <1>5
(* Nothing is behind RenameDirectory when it begins.                       *)
LEMMA NamesScriptDone ==
  ASSUME IInv, Tidy, Undisturbed, ScriptDone
  PROVE  /\ \A n \in DOMAIN dirs' : Named(n)'
         /\ RenamedBehind({})'
  <1>1. Unnamed /\ dirs' = dirs /\ entries' = entries /\ stack' = <<Stream(newroot)>>
    BY DEF Tidy, ScriptDone
  <1>2. \A n \in DOMAIN dirs' : Named(n)'
    BY <1>1 DEF Named, Unnamed
  <1>3. /\ Len(stack') = 1 /\ DOMAIN stack' = {1}
        /\ stack'[1].dir = newroot /\ stack'[1].seen = {}
        /\ stack'[1].open = {dirs[c].name : c \in Children(dirs, newroot)}
    BY <1>1 DEF Stream
  <1>4. RenamedBehind({})'
    BY <1>1, <1>3 DEF RenamedBehind
  <1> QED
    BY <1>2, <1>4

LEMMA NamesDescend ==
  ASSUME IInv, Descend, NEW done \in SUBSET DOMAIN dirs, RenamedBehind(done)
  PROVE  RenamedBehind(done)'
  <1>1. pc = "rename" /\ stack # <<>> /\ dirs' = dirs /\ entries' = entries
    BY Basics DEF Descend, Stacked
  <1>2. PICK n \in DOMAIN dirs : Unread(n) /\ stack' = Append(Seen(n), Stream(n))
    BY DEF Descend
  <1>3. /\ stack' \in Seq(Frame) /\ Len(stack') = Len(stack) + 1 /\ Len(stack) \in Nat
        /\ \A k \in 1 .. Len(stack) : stack'[k] = Seen(n)[k]
        /\ stack'[Len(stack) + 1] = Stream(n)
    BY <1>1, <1>2, Deeper, Basics
  <1>4. \A m \in done : Settled(m)' /\ Children(dirs', m) \subseteq done
    BY <1>1 DEF RenamedBehind, Settled, EntryOf, Indices
  <1>5. ASSUME NEW k \in DOMAIN stack', NEW c \in Children(dirs', stack'[k].dir), c \notin done
        PROVE  /\ dirs'[c].name \in stack'[k].open
               /\ dirs'[c].name \in stack'[k].seen => k < Len(stack') /\ c = stack'[k + 1].dir
    <2>1. k \in 1 .. Len(stack) + 1
      BY <1>3
    <2>2. CASE k = Len(stack) + 1
      <3>1. stack'[k].dir = n /\ stack'[k].seen = {}
            /\ stack'[k].open = {dirs[x].name : x \in Children(dirs, n)}
        BY <1>3, <2>2 DEF Stream
      <3> QED
        BY <1>1, <1>5, <3>1
    <2>3. CASE k # Len(stack) + 1
      <3>1. k \in 1 .. Len(stack) /\ k < Len(stack') /\ k \in DOMAIN stack
        BY <1>3, <2>1, <2>3, Basics
      <3>2. /\ stack'[k].dir = stack[k].dir /\ stack'[k].open = stack[k].open
            /\ k # Len(stack) => stack'[k].seen = stack[k].seen
            /\ k = Len(stack) => stack'[k].seen = stack[k].seen \cup {dirs[n].name}
        BY <1>1, <1>3, <3>1, SeenFrames
      <3>3. c \in Children(dirs, stack[k].dir)
        BY <1>1, <1>5, <3>2
      <3>4. /\ dirs[c].name \in stack[k].open
            /\ dirs[c].name \in stack[k].seen => k < Len(stack) /\ c = stack[k + 1].dir
        BY <1>5, <3>1, <3>3 DEF RenamedBehind
      <3>5. CASE k = Len(stack)
        <4>1. n \in Children(dirs, stack[k].dir)
          BY <1>2, <3>5 DEF Unread, top
        <4>2. dirs[c].name = dirs[n].name => c = n
          BY <3>3, <4>1, Basics DEF TreeOK, Children
        <4>3. stack'[k + 1].dir = n
          BY <1>3, <3>5 DEF Stream
        <4>4. ~(k < Len(stack))
          BY <1>3, <3>5
        <4> QED
          BY <1>1, <3>1, <3>2, <3>4, <3>5, <4>2, <4>3, <4>4
      <3>6. CASE k # Len(stack)
        <4>1. k + 1 \in 1 .. Len(stack)
          BY <1>3, <3>1, <3>6
        <4>2. stack'[k + 1].dir = stack[k + 1].dir
          BY <1>1, <1>3, <4>1, SeenFrames
        <4> QED
          BY <1>1, <3>1, <3>2, <3>4, <3>6, <4>2
      <3> QED
        BY <3>5, <3>6
    <2> QED
      BY <2>2, <2>3
  <1> QED
    BY <1>4, <1>5 DEF RenamedBehind

LEMMA NamesRename ==
  ASSUME IInv, Distinct, NoNumbers, Rename, \A m \in DOMAIN dirs : Named(m),
         NEW done \in SUBSET DOMAIN dirs, RenamedBehind(done)
  PROVE  /\ \A m \in DOMAIN dirs' : Named(m)'
         /\ \E d \in SUBSET DOMAIN dirs' : RenamedBehind(d)'
  <1>1. PICK n : n = top.dir
    OBVIOUS
  <1>2. /\ n \in DOMAIN dirs /\ Len(stack) > 1 /\ stack # <<>> /\ stack' = Front(stack) /\ AtEnd
    BY <1>1, RenameIs, Basics DEF Rename, Stacked
  <1>3. /\ DOMAIN dirs' \subseteq DOMAIN dirs /\ n \in DOMAIN dirs'
        /\ \A m \in DOMAIN dirs' : /\ dirs'[m].up = dirs[m].up /\ dirs'[m].made = dirs[m].made
                                   /\ m # n => dirs'[m] = dirs[m]
                                   /\ Named(m)'
        /\ Settled(n)'
        /\ \A m \in DOMAIN dirs' : Settled(m) => Settled(m)'
    BY <1>1, RenameNames
  <1>4. Children(dirs, n) \subseteq done
    BY <1>1, <1>2, AtEndDone
  <1>5. PICK d : d = (done \cup {n}) \cap DOMAIN dirs'
    OBVIOUS
  <1>6. \A u : Children(dirs', u) \subseteq Children(dirs, u) \cap DOMAIN dirs'
    BY <1>3 DEF Children
  <1>7. \A m \in d : Settled(m)' /\ Children(dirs', m) \subseteq d
    BY <1>3, <1>4, <1>5, <1>6 DEF RenamedBehind
  <1>8. /\ Len(stack') = Len(stack) - 1 /\ DOMAIN stack' = 1 .. Len(stack) - 1
        /\ \A k \in 1 .. Len(stack) - 1 : stack'[k] = stack[k]
        /\ Len(stack) \in Nat
    BY <1>2, FrontFrames, Basics
  <1>9. ASSUME NEW k \in DOMAIN stack', NEW c \in Children(dirs', stack'[k].dir), c \notin d
        PROVE  /\ dirs'[c].name \in stack'[k].open
               /\ dirs'[c].name \in stack'[k].seen => k < Len(stack') /\ c = stack'[k + 1].dir
    <2>1. k \in 1 .. Len(stack) - 1 /\ stack'[k] = stack[k] /\ k \in DOMAIN stack
      BY <1>8, Basics
    <2>2. c \in Children(dirs, stack[k].dir) /\ c \in DOMAIN dirs'
      BY <1>6, <1>9, <2>1
    <2>3. c # n /\ c \notin done /\ dirs'[c] = dirs[c]
      BY <1>3, <1>5, <1>9, <2>2
    <2>4. /\ dirs[c].name \in stack[k].open
          /\ dirs[c].name \in stack[k].seen => k < Len(stack) /\ c = stack[k + 1].dir
      BY <2>1, <2>2, <2>3 DEF RenamedBehind
    <2>5. CASE k = Len(stack) - 1
      <3>1. stack[k + 1].dir = n
        <4>1. k + 1 = Len(stack)
          BY <1>8, <2>1, <2>5
        <4> QED
          BY <1>1, <4>1 DEF top
      <3> QED
        BY <2>1, <2>3, <2>4, <3>1
    <2>6. CASE k # Len(stack) - 1
      <3>1. k < Len(stack) - 1 /\ k + 1 \in 1 .. Len(stack) - 1
        BY <1>8, <2>1, <2>6
      <3>2. stack'[k + 1] = stack[k + 1]
        BY <1>8, <3>1
      <3> QED
        BY <1>8, <2>1, <2>3, <2>4, <3>1, <3>2
    <2> QED
      BY <2>5, <2>6
  <1>10. RenamedBehind(d)'
    BY <1>7, <1>9 DEF RenamedBehind
  <1>11. d \in SUBSET DOMAIN dirs'
    BY <1>5
  <1> QED
    BY <1>3, <1>10, <1>11

(* Behind newroot RenameDirectory has been in every directory.             *)
LEMMA NamesStartUnlinkable ==
  ASSUME IInv, Tidy, Undisturbed, StartUnlinkable, \A m \in DOMAIN dirs : Named(m),
         NEW done \in SUBSET DOMAIN dirs, RenamedBehind(done), NEW p, p = NewDir
  PROVE  \A n \in DOMAIN dirs' : (n # p => Named(n)') /\ SettledNear(n, p)'
  <1>1. /\ DOMAIN dirs' = DOMAIN dirs \cup {p} /\ p \notin DOMAIN dirs
        /\ \A n \in DOMAIN dirs : dirs'[n] = dirs[n]
        /\ dirs'[p].made = NoId
        /\ stack # <<>> /\ AtEnd /\ top.dir = newroot /\ entries' = entries
    <2>1. /\ DOMAIN dirs' = DOMAIN dirs \cup {p} /\ p \notin DOMAIN dirs
          /\ \A n \in DOMAIN dirs : dirs'[n] = dirs[n]
          /\ dirs'[p] = [up |-> newroot, name |-> Problem, id |-> NoId, made |-> NoId]
          /\ stack # <<>> /\ AtEnd /\ top.dir = newroot
      BY StartUnlinkableIs
    <2>2. entries' = entries
      BY DEF StartUnlinkable
    <2> QED
      BY <2>1, <2>2
  <1>2. done = DOMAIN dirs
    <2>1. Children(dirs, newroot) \subseteq done
      BY <1>1, AtEndDone
    <2>2. \A n \in done : Children(dirs, n) \subseteq done
      BY DEF RenamedBehind
    <2> QED
      BY <2>1, <2>2, AllOfTree
  <1>3. \A f : EntryOf(f)' = EntryOf(f)
    BY <1>1 DEF EntryOf, Indices
  <1>4. ASSUME NEW n \in DOMAIN dirs
        PROVE  Named(n)' /\ SettledNear(n, p)'
    <2>1. Named(n) /\ Settled(n)
      BY <1>2 DEF RenamedBehind
    <2>2. Named(n)'
      BY <1>1, <2>1 DEF Named, EntryOf, Indices
    <2>3. SettledNear(n, p)'
      <3>1. \A m \in Children(dirs, dirs[n].up) :
              m \in DOMAIN dirs' /\ dirs'[m].name = dirs[m].name /\ dirs'[m].up = dirs'[n].up
        BY <1>1 DEF Children
      <3>2. \A m \in Children(dirs, dirs[n].up) : Near(n, m, p)'
        BY <3>1 DEF Near
      <3> QED
        BY <1>1, <2>1, <3>1, <3>2 DEF Settled, SettledNear, EntryOf, Indices
    <2> QED
      BY <2>2, <2>3
  <1>5. SettledNear(p, p)'
    <2>1. EntryOf(NoId)' = {}
      BY <1>3, NoFolder0 DEF NoId
    <2> QED
      BY <1>1, <2>1 DEF SettledNear, EntryOf
  <1> QED
    BY <1>1, <1>4, <1>5

LEMMA NamesUnlinkable ==
  ASSUME IInv, Unlinkable, NEW p \in DOMAIN dirs, Aside(p),
         \A n \in DOMAIN dirs : (n # p => Named(n)) /\ SettledNear(n, p)
  PROVE  \A n \in DOMAIN dirs' : (n # p => Named(n)') /\ SettledNear(n, p)'
  <1>1. DOMAIN dirs' = DOMAIN dirs /\ entries' = entries
    BY UnlinkableIs DEF Unlinkable
  <1>2. PICK n \in DOMAIN dirs :
          /\ dirs[n].up = newroot
          /\ \A m \in DOMAIN dirs : m # n => dirs'[m] = dirs[m]
          /\ dirs'[n].up = p /\ dirs'[n].name = dirs[n].name
          /\ dirs'[n].made = dirs[n].made
    BY UnlinkableIs
  <1>3. \A m \in DOMAIN dirs :
          /\ dirs'[m].name = dirs[m].name /\ dirs'[m].made = dirs[m].made
          /\ dirs[m].up \in {newroot, p} <=> dirs'[m].up \in {newroot, p}
          /\ dirs'[m].up = dirs[m].up \/ dirs'[m].up \in {newroot, p}
    BY <1>2
  <1>4. \A m, o \in DOMAIN dirs : Near(m, o, p) => Near(m, o, p)'
    <2> SUFFICES ASSUME NEW m \in DOMAIN dirs, NEW o \in DOMAIN dirs, Near(m, o, p)
                 PROVE  Near(m, o, p)'
      OBVIOUS
    <2>1. UNCHANGED newroot
      BY DEF newroot
    <2> QED
      BY <1>2, <1>3, <2>1 DEF Near
  <1>5. \A m \in DOMAIN dirs : Named(m) => Named(m)'
    BY <1>1, <1>3 DEF Named, EntryOf, Indices
  <1>6. \A m \in DOMAIN dirs : SettledNear(m, p) => SettledNear(m, p)'
    BY <1>1, <1>3, <1>4 DEF SettledNear, EntryOf, Indices
  <1> QED
    BY <1>1, <1>5, <1>6

(* Only two directories are left in newroot, and one is called "recovered".*)
LEMMA RecoveredIs ==
  ASSUME IInv, Recovered, NEW p \in DOMAIN dirs, Aside(p)
  PROVE  /\ \A c \in Children(dirs, newroot) : c = p \/ dirs[c].name = IdName(RootId)
         /\ DOMAIN dirs' = DOMAIN dirs /\ dirs'[p] = dirs[p]
         /\ \A n \in DOMAIN dirs :
              IF dirs[n].up = newroot /\ dirs[n].name = IdName(RootId)
              THEN /\ dirs'[n].up = newroot /\ dirs'[n].name = Plain("recovered")
                   /\ dirs'[n].id = dirs[n].id /\ dirs'[n].made = dirs[n].made
              ELSE dirs'[n] = dirs[n]
  <1>1. /\ pc = "unlink" /\ stack # <<>> /\ top = stack[1] /\ top.dir = newroot /\ AtEnd
    BY Basics DEF Recovered, Stacked, top
  <1>2. ProblemDir = {p} /\ dirs[p].up = newroot /\ dirs[p].name = Problem
    BY OneProblemDir DEF Aside
  <1>3. \A c \in Children(dirs, newroot) : dirs[c].name = Problem => c = p
    BY <1>2 DEF ProblemDir
  <1>4. \A c \in Children(dirs, newroot) : c = p \/ dirs[c].name = IdName(RootId)
    BY <1>1, <1>3 DEF Aside, AtEnd
  <1>5. IdName(RootId) # Problem
    BY DEF IdName, Problem, Plain, RootId
  <1>6. PICK root : root = {n \in Children(dirs, newroot) : dirs[n].name = IdName(RootId)}
    OBVIOUS
  <1>7. CASE root = {}
    <2>1. dirs' = dirs
      BY <1>6, <1>7 DEF Recovered
    <2> QED
      BY <1>4, <1>6, <1>7, <2>1 DEF Children
  <1>8. CASE root # {}
    <2>1. PICK r \in root : dirs' = Renamed(r, newroot, Plain("recovered"))
      BY <1>6, <1>8 DEF Recovered
    <2>2. r \in DOMAIN dirs /\ dirs[r].up = newroot /\ dirs[r].name = IdName(RootId) /\ r # p
      BY <1>2, <1>5, <1>6 DEF Children
    <2>3. \A n \in DOMAIN dirs :
            dirs[n].up = newroot /\ dirs[n].name = IdName(RootId) <=> n = r
      BY <2>2, Basics DEF TreeOK
    <2>4. PICK up, name : up = newroot /\ name = Plain("recovered")
      OBVIOUS
    <2>5. name # IdName(RootId) /\ name # Problem
      BY <2>4 DEF IdName, Problem, Plain, RootId
    <2>6. Gone(r, up, name) = {}
      BY <1>2, <1>4, <2>4, <2>5 DEF Gone
    <2>7. Replaced(dirs', r, up, name)
      <3>1. TreeOK(dirs) /\ dirs' = Renamed(r, up, name)
        BY <2>1, <2>4, Basics
      <3> QED
        BY <2>2, <2>6, <3>1, RenameOutcome
    <2>8. /\ DOMAIN dirs' = DOMAIN dirs
          /\ \A n \in DOMAIN dirs : n # r => dirs'[n] = dirs[n]
          /\ dirs'[r].up = newroot /\ dirs'[r].name = Plain("recovered")
          /\ dirs'[r].id = dirs[r].id /\ dirs'[r].made = dirs[r].made
      BY <2>4, <2>6, <2>7 DEF Replaced
    <2> QED
      BY <1>4, <2>2, <2>3, <2>8
  <1> QED
    BY <1>7, <1>8

LEMMA NamesRecovered ==
  ASSUME IInv, Undisturbed, NoNumbers, Recovered, NEW p \in DOMAIN dirs, Aside(p),
         \A n \in DOMAIN dirs : (n # p => Named(n)) /\ SettledNear(n, p)
  PROVE  \A n \in DOMAIN dirs' : Settled(n)'
  <1>1. /\ \A c \in Children(dirs, newroot) : c = p \/ dirs[c].name = IdName(RootId)
        /\ DOMAIN dirs' = DOMAIN dirs
        /\ \A n \in DOMAIN dirs :
             IF dirs[n].up = newroot /\ dirs[n].name = IdName(RootId)
             THEN /\ dirs'[n].up = newroot /\ dirs'[n].name = Plain("recovered")
                  /\ dirs'[n].id = dirs[n].id /\ dirs'[n].made = dirs[n].made
             ELSE dirs'[n] = dirs[n]
    BY RecoveredIs
  <1>2. entries' = entries
    BY DEF Recovered
  <1>3. dirs[p].made = NoId /\ dirs[p].up = newroot /\ dirs[p].name = Problem
    BY OneProblemDir DEF Aside
  <1>4. /\ \A i \in Indices : entries[i].name # Problem /\ entries[i].name.num = 0
        /\ EntryOf(RootId) = {} /\ EntryOf(NoId) = {}
    BY NotProblem, NoFolder0 DEF NoNumbers, Undisturbed, NoId
  <1>5. IdName(RootId).num = RootId /\ RootId # 0
    BY DEF IdName, RootId
  <1>6. ASSUME NEW n \in DOMAIN dirs, dirs[n].up = newroot
        PROVE  EntryOf(dirs[n].made) = {}
    <2>1. CASE n = p
      BY <1>3, <1>4, <2>1
    <2>2. CASE n # p
      <3>1. dirs[n].name = IdName(RootId) /\ Named(n)
        BY <1>1, <1>6, <2>2 DEF Children
      <3>2. dirs[n].name = IdName(dirs[n].made)
        BY <1>4, <1>5, <3>1, NoFolder0 DEF Named
      <3>3. dirs[n].made = RootId
        BY <3>1, <3>2 DEF IdName
      <3> QED
        BY <1>4, <3>3
    <2> QED
      BY <2>1, <2>2
  <1>7. ASSUME NEW n \in DOMAIN dirs, NEW i \in EntryOf(dirs[n].made)
        PROVE  \/ dirs'[n].name = entries[i].name
               \/ /\ dirs'[n].name = IdName(dirs'[n].made)
                  /\ \E m \in Children(dirs', dirs'[n].up) : dirs'[m].name = entries[i].name
    <2>1. dirs[n].up # newroot /\ dirs'[n] = dirs[n]
      BY <1>1, <1>6, <1>7
    <2>2. CASE dirs[n].name = entries[i].name
      BY <2>1, <2>2
    <2>3. CASE dirs[n].name # entries[i].name
      <3>1. PICK m \in DOMAIN dirs : dirs[m].name = entries[i].name /\ Near(n, m, p)
        BY <1>7, <2>3 DEF SettledNear
      <3>2. dirs[n].name = IdName(dirs[n].made)
        BY <1>7, <2>3 DEF SettledNear
      <3>3. dirs[m].name # IdName(RootId) /\ dirs[m].name # Problem
        BY <1>4, <1>5, <1>7, <3>1, NoFolder0
      <3>4. dirs[m].up # newroot
        BY <1>1, <1>3, <3>3 DEF Children
      <3>5. dirs[m].up = dirs[n].up /\ dirs'[m] = dirs[m]
        BY <1>1, <2>1, <3>1, <3>3, <3>4 DEF Near
      <3>6. m \in Children(dirs', dirs'[n].up) /\ dirs'[m].name = entries[i].name
        BY <1>1, <2>1, <3>1, <3>5 DEF Children
      <3> QED
        BY <2>1, <3>2, <3>6
    <2> QED
      BY <2>2, <2>3
  <1>8. \A n \in DOMAIN dirs : dirs'[n].made = dirs[n].made
    BY <1>1
  <1> QED
    BY <1>1, <1>2, <1>7, <1>8 DEF Settled, EntryOf, Indices

LEMMA NamesNext ==
  ASSUME IInv, Tidy, NamesInv, [Next]_vars
  PROVE  NamesInv'
  <1>1. CASE UNCHANGED vars
    <2>1. UNCHANGED <<entries, dirs, stack, pc, repeats>>
      BY <1>1 DEF vars, vars4
    <2>2. \A n : (Named(n)' <=> Named(n)) /\ (Settled(n)' <=> Settled(n))
      BY <2>1 DEF Named, Settled, EntryOf, Indices
    <2>3. \A p : (Aside(p) => Aside(p)') /\ \A n : SettledNear(n, p)' <=> SettledNear(n, p)
      BY <2>1 DEF Aside, Near, ProblemDir, SettledNear, EntryOf, Indices
    <2>4. \A done : RenamedBehind(done) => RenamedBehind(done)'
      BY <2>1, <2>2 DEF RenamedBehind
    <2>5. (Undisturbed' <=> Undisturbed) /\ (NoNumbers' <=> NoNumbers)
      BY <2>1 DEF Undisturbed, NoNumbers, EntryOf, Indices
    <2> QED
      BY <2>1, <2>2, <2>3, <2>4, <2>5 DEF NamesInv
  <1>2. ASSUME Next, Undisturbed', NoNumbers'
        PROVE  /\ pc' = "rename" =>
                    /\ \A n \in DOMAIN dirs' : Named(n)'
                    /\ \E done \in SUBSET DOMAIN dirs' : RenamedBehind(done)'
               /\ pc' = "unlink" =>
                    \E p \in DOMAIN dirs' :
                      /\ Aside(p)'
                      /\ \A n \in DOMAIN dirs' : (n # p => Named(n)') /\ SettledNear(n, p)'
               /\ pc' = "step4_done" => \A n \in DOMAIN dirs' : Settled(n)'
    <2>1. Undisturbed /\ NoNumbers /\ Distinct
      BY <1>2, Undisturbed4 DEF NoNumbers, Indices, Tidy
    <2>2. ASSUME pc' = "rename"
          PROVE  /\ \A n \in DOMAIN dirs' : Named(n)'
                 /\ \E done \in SUBSET DOMAIN dirs' : RenamedBehind(done)'
      <3>1. CASE ScriptDone
        BY <2>1, <3>1, NamesScriptDone
      <3>2. CASE Descend
        <4>1. pc = "rename" /\ dirs' = dirs /\ entries' = entries
          BY <3>2 DEF Descend
        <4>2. PICK done \in SUBSET DOMAIN dirs : RenamedBehind(done)
          BY <2>1, <4>1 DEF NamesInv
        <4>3. RenamedBehind(done)'
          BY <3>2, <4>2, NamesDescend
        <4>4. \A n \in DOMAIN dirs' : Named(n)'
          BY <2>1, <4>1 DEF NamesInv, Named, EntryOf, Indices
        <4> QED
          BY <4>1, <4>3, <4>4
      <3>3. CASE Rename
        <4>1. pc = "rename"
          BY <3>3 DEF Rename
        <4>2. PICK done \in SUBSET DOMAIN dirs : RenamedBehind(done)
          BY <2>1, <4>1 DEF NamesInv
        <4>3. \A m \in DOMAIN dirs : Named(m)
          BY <2>1, <4>1 DEF NamesInv
        <4> QED
          BY <2>1, <3>3, <4>2, <4>3, NamesRename
      <3> QED
        BY <1>2, <2>2, <3>1, <3>2, <3>3, Leading
    <2>3. ASSUME pc' = "unlink"
          PROVE  \E p \in DOMAIN dirs' :
                   /\ Aside(p)'
                   /\ \A n \in DOMAIN dirs' : (n # p => Named(n)') /\ SettledNear(n, p)'
      <3>1. CASE StartUnlinkable
        <4>1. PICK p : p = NewDir
          OBVIOUS
        <4>2. pc = "rename"
          BY <3>1 DEF StartUnlinkable
        <4>3. PICK done \in SUBSET DOMAIN dirs : RenamedBehind(done)
          BY <2>1, <4>2 DEF NamesInv
        <4>4. \A n \in DOMAIN dirs' : (n # p => Named(n)') /\ SettledNear(n, p)'
          BY <2>1, <3>1, <4>1, <4>2, <4>3, NamesStartUnlinkable DEF NamesInv
        <4>5. PICK q \in DOMAIN dirs' : Aside(q)'
          BY <1>2, <2>3, TidyUnlink
        <4>6. q = p
          <5>1. /\ DOMAIN dirs' = DOMAIN dirs \cup {p}
                /\ \A n \in DOMAIN dirs : dirs'[n] = dirs[n]
            BY <2>1, <3>1, <4>1, StartUnlinkableIs
          <5>2. dirs'[q].name = Problem
            BY <4>5 DEF Aside, ProblemDir
          <5>3. \A n \in DOMAIN dirs : dirs[n].name # Problem
            BY <2>1, <4>2 DEF Tidy
          <5> QED
            BY <5>1, <5>2, <5>3
        <4> QED
          BY <4>4, <4>5, <4>6
      <3>2. CASE Unlinkable
        <4>1. pc = "unlink"
          BY <3>2 DEF Unlinkable
        <4>2. PICK p \in DOMAIN dirs :
                /\ Aside(p)
                /\ \A n \in DOMAIN dirs : (n # p => Named(n)) /\ SettledNear(n, p)
          BY <2>1, <4>1 DEF NamesInv
        <4>3. Aside(p)' /\ p \in DOMAIN dirs'
          BY <3>2, <4>2, AsideStays, UnlinkableIs
        <4> QED
          BY <3>2, <4>2, <4>3, NamesUnlinkable
      <3> QED
        BY <1>2, <2>3, <3>1, <3>2, Leading
    <2>4. ASSUME pc' = "step4_done"
          PROVE  \A n \in DOMAIN dirs' : Settled(n)'
      <3>1. Recovered
        BY <1>2, <2>4, Leading
      <3>2. pc = "unlink"
        BY <3>1 DEF Recovered
      <3>3. PICK p \in DOMAIN dirs :
              /\ Aside(p)
              /\ \A n \in DOMAIN dirs : (n # p => Named(n)) /\ SettledNear(n, p)
        BY <2>1, <3>2 DEF NamesInv
      <3> QED
        BY <2>1, <3>1, <3>3, NamesRecovered
    <2> QED
      BY <2>2, <2>3, <2>4
  <1> QED
    BY <1>1, <1>2 DEF NamesInv

LEMMA NamesInit == Init => NamesInv
  BY DEF Init, Init4, NamesInv

-----------------------------------------------------------------------------
(* The paths of FindParentDirectory.                                       *)

Ids == {i \in Nat : i > 1}

(* Each id is the parent of the next one.                                  *)
Lineage(p) == \A k \in 2 .. Len(p) : \E j \in EntryOf(p[k]) : entries[j].parent = p[k - 1]

(* A path for folder i: it ends with the folder and its parent, and if     *)
(* there is a path from the root, it is that one.                          *)
PathOf(i, q) ==
  /\ q \in Seq(Ids) /\ Len(q) > 1 /\ Len(q) <= MaxDepth
  /\ q[Len(q)] = entries[i].folder /\ q[Len(q) - 1] = entries[i].parent
  /\ q[1] = RootId => FromRoot(q)
  /\ \A p \in Seq(Nat) :
       FromRoot(p) /\ Len(p) <= MaxDepth /\ p[Len(p)] = entries[i].folder => p = q

(* The script: the root folder, and a path for each entry.                 *)
Lines(l) ==
  /\ l \in Seq(Seq(Ids)) /\ Len(l) >= 1 /\ l[1] = <<RootId>>
  /\ \A k \in 2 .. Len(l) : PathOf(k - 1, l[k])

(* FindParentDirectory on its way up from entry i.                         *)
Climbing(i) ==
  /\ i \in Indices
  /\ path \in Seq(Ids) /\ Len(path) >= 1 /\ path[Len(path)] = entries[i].folder
  /\ Len(path) = 1 => id = entries[i].parent
  /\ Len(path) > 1 => path[Len(path) - 1] = entries[i].parent
  /\ id # NoId => /\ id \in Ids /\ EntryOf(path[1]) # {}
                  /\ \A j \in EntryOf(path[1]) : entries[j].parent = id
  /\ id = NoId => path[1] = RootId \/ EntryOf(path[1]) = {}
  /\ Lineage(path)

-----------------------------------------------------------------------------
LEMMA EntryTyped ==
  ASSUME IInv
  PROVE  /\ \A i \in Indices : entries[i].folder \in Ids /\ entries[i].parent \in Ids
         /\ Indices = 1 .. Len(entries) /\ Len(entries) \in Nat
  <1>1. entries \in Seq(Line) /\ \A i \in Indices : Good(entries[i])
    BY Basics DEF EntriesOK
  <1>2. Indices = 1 .. Len(entries) /\ Len(entries) \in Nat
    BY <1>1 DEF Indices
  <1>3. ASSUME NEW i \in Indices
        PROVE  entries[i].folder \in Ids /\ entries[i].parent \in Ids
    <2>1. entries[i] \in Line
      BY <1>1, <1>2
    <2>2. entries[i].folder \in Nat /\ entries[i].parent \in Nat
      BY <2>1 DEF Line
    <2> QED
      BY <1>1, <2>2 DEF Good, Ids
  <1> QED
    BY <1>2, <1>3

(* Nobody is above the root, so no path from it comes to an id twice.      *)
LEMMA NoRepeat ==
  ASSUME Distinct, EntryOf(RootId) = {}, NEW p \in Seq(Nat), FromRoot(p),
         NEW a \in 1 .. Len(p), NEW b \in 1 .. Len(p), p[a] = p[b]
  PROVE  a = b
  <1> DEFINE S == {x \in 1 .. Len(p) : \E y \in 1 .. Len(p) : x < y /\ p[x] = p[y]}
  <1>1. Len(p) \in Nat /\ S \subseteq Nat
    OBVIOUS
  <1>2. ASSUME S # {}
        PROVE  FALSE
    <2>1. PICK m \in S : \A x \in S : m <= x
      <3> HIDE DEF S
      <3> QED
        BY <1>1, <1>2, SmallestOf
    <2>2. PICK y \in 1 .. Len(p) : m < y /\ p[m] = p[y]
      OBVIOUS
    <2>3. m \in 1 .. Len(p) /\ y \in 2 .. Len(p)
      BY <2>2
    <2>4. PICK j \in EntryOf(p[y]) : entries[j].parent = p[y - 1]
      BY <2>3 DEF FromRoot
    <2>5. m # 1
      BY <2>2, <2>4 DEF FromRoot
    <2>6. m \in 2 .. Len(p)
      BY <2>3, <2>5
    <2>7. PICK i \in EntryOf(p[m]) : entries[i].parent = p[m - 1]
      BY <2>6 DEF FromRoot
    <2>8. i = j
      BY <2>2, <2>4, <2>7 DEF EntryOf, Distinct
    <2>9. m - 1 \in 1 .. Len(p) /\ y - 1 \in 1 .. Len(p) /\ m - 1 < y - 1
      BY <1>1, <2>2, <2>3, <2>6
    <2>10. m - 1 \in S
      BY <2>4, <2>7, <2>8, <2>9
    <2> HIDE DEF S
    <2> QED
      BY <2>1, <2>6, <2>10
  <1>3. \A x, y \in 1 .. Len(p) : x < y => p[x] # p[y]
    BY <1>2
  <1> HIDE DEF S
  <1> QED
    BY <1>1, <1>3

(* Two lineages that end with the same folder are the same, as far as both *)
(* of them go.                                                             *)
LEMMA SameEnd ==
  ASSUME Distinct, NEW p \in Seq(Nat), NEW q \in Seq(Nat), Lineage(p), Lineage(q),
         p[Len(p)] = q[Len(q)],
         NEW k \in Nat, k < Len(p), k < Len(q)
  PROVE  p[Len(p) - k] = q[Len(q) - k]
  <1> DEFINE T == {x \in Nat : x < Len(p) /\ x < Len(q) /\ p[Len(p) - x] # q[Len(q) - x]}
  <1>1. Len(p) \in Nat /\ Len(q) \in Nat /\ T \subseteq Nat
    OBVIOUS
  <1>2. ASSUME T # {}
        PROVE  FALSE
    <2>1. PICK m \in T : \A x \in T : m <= x
      <3> HIDE DEF T
      <3> QED
        BY <1>1, <1>2, SmallestOf
    <2>2. m \in Nat /\ m < Len(p) /\ m < Len(q) /\ p[Len(p) - m] # q[Len(q) - m]
      OBVIOUS
    <2>3. m # 0
      BY <1>1, <2>2
    <2>4. m - 1 \in Nat /\ m - 1 < Len(p) /\ m - 1 < Len(q)
      BY <1>1, <2>2, <2>3
    <2>5. m - 1 \notin T
      <3> HIDE DEF T
      <3> QED
        BY <2>1, <2>2
    <2>6. p[Len(p) - (m - 1)] = q[Len(q) - (m - 1)]
      BY <2>4, <2>5
    <2>7. PICK x, y : x = Len(p) - (m - 1) /\ y = Len(q) - (m - 1)
      OBVIOUS
    <2>8. /\ x \in 2 .. Len(p) /\ y \in 2 .. Len(q)
          /\ x - 1 = Len(p) - m /\ y - 1 = Len(q) - m
      <3>1. \A a \in Nat : m < a => a - (m - 1) \in 2 .. a /\ (a - (m - 1)) - 1 = a - m
        BY <2>2, <2>3
      <3>2. Len(p) - (m - 1) \in 2 .. Len(p) /\ (Len(p) - (m - 1)) - 1 = Len(p) - m
        BY <1>1, <2>2, <3>1
      <3>3. Len(q) - (m - 1) \in 2 .. Len(q) /\ (Len(q) - (m - 1)) - 1 = Len(q) - m
        BY <1>1, <2>2, <3>1
      <3> QED
        BY <2>7, <3>2, <3>3
    <2>9. PICK i \in EntryOf(p[x]) : entries[i].parent = p[x - 1]
      BY <2>8 DEF Lineage
    <2>10. PICK j \in EntryOf(q[y]) : entries[j].parent = q[y - 1]
      BY <2>8 DEF Lineage
    <2>11. i = j
      BY <2>6, <2>7, <2>9, <2>10 DEF EntryOf, Distinct
    <2> QED
      BY <2>2, <2>8, <2>9, <2>10, <2>11
  <1> QED
    BY <1>2

LEMMA RootLineage ==
  ASSUME NEW p
  PROVE  FromRoot(p) <=> p # <<>> /\ p[1] = RootId /\ Lineage(p)
  BY DEF FromRoot, Lineage

(* When FindParentDirectory is done, it has the path.                      *)
LEMMA PathFound ==
  ASSUME IInv, Distinct, EntryOf(RootId) = {}, NEW i, Climbing(i),
         id = NoId \/ TooBig \/ Looping
  PROVE  PathOf(i, path)
  <1>1. /\ path \in Seq(Ids) /\ Len(path) \in Nat /\ Len(path) >= 1 /\ Lineage(path)
        /\ path[Len(path)] = entries[i].folder /\ i \in Indices
    BY DEF Climbing
  <1>2. Len(path) <= MaxDepth /\ MaxDepth \in Nat /\ MaxDepth > 1
    BY Basics, Sizes DEF Control
  <1>3. Len(path) > 1
    <2> SUFFICES ASSUME Len(path) = 1
                 PROVE  FALSE
      <3>1. \A n \in Nat : n >= 1 /\ n # 1 => n > 1
        OBVIOUS
      <3> QED
        BY <1>1, <3>1
    <2>1. id = entries[i].parent /\ id # NoId
      BY EntryTyped DEF Climbing, Ids, NoId
    <2>2. ~TooBig /\ ~Looping
      BY <1>2 DEF TooBig, Looping
    <2> QED
      BY <2>1, <2>2
  <1>4. path[Len(path) - 1] = entries[i].parent
    BY <1>3 DEF Climbing
  <1>5. path[1] = RootId => FromRoot(path)
    <2>1. path # <<>>
      BY <1>3
    <2> QED
      BY <1>1, <2>1, RootLineage
  <1>6. ASSUME NEW p \in Seq(Nat), FromRoot(p), Len(p) <= MaxDepth,
               p[Len(p)] = entries[i].folder
        PROVE  p = path
    <2>1. Lineage(p) /\ p # <<>> /\ p[1] = RootId /\ Len(p) \in Nat /\ Len(p) >= 1
      BY <1>6, RootLineage
    <2>2. path \in Seq(Nat)
      BY <1>1 DEF Ids
    <2>3. \A k \in Nat : k < Len(p) /\ k < Len(path) => p[Len(p) - k] = path[Len(path) - k]
      BY <1>1, <1>6, <2>1, <2>2, SameEnd
    <2>4. ~(Len(path) < Len(p))
      <3> SUFFICES ASSUME Len(path) < Len(p)
                   PROVE  FALSE
        OBVIOUS
      <3>1. PICK x : x = Len(p) - Len(path) + 1
        OBVIOUS
      <3>2. x \in 2 .. Len(p) /\ x - 1 \in 1 .. Len(p) /\ x \in 1 .. Len(p)
        BY <1>1, <2>1, <3>1
      <3>3. p[x] = path[1]
        <4>1. Len(path) - 1 \in Nat /\ Len(path) - 1 < Len(p) /\ Len(path) - 1 < Len(path)
              /\ Len(p) - (Len(path) - 1) = x /\ Len(path) - (Len(path) - 1) = 1
          BY <1>1, <2>1, <3>1
        <4>2. p[Len(p) - (Len(path) - 1)] = path[Len(path) - (Len(path) - 1)]
          BY <2>3, <4>1
        <4> QED
          BY <4>1, <4>2
      <3>4. PICK j \in EntryOf(p[x]) : entries[j].parent = p[x - 1]
        BY <2>1, <3>2 DEF Lineage
      <3>5. id # NoId /\ p[x - 1] = id
        BY <3>3, <3>4 DEF Climbing
      <3>6. ~TooBig
        BY <1>1, <1>2, <1>6, <2>1 DEF TooBig
      <3>7. PICK k \in 2 .. Len(path) - 1 : path[k] = id
        BY <3>5, <3>6 DEF Looping
      <3>8. PICK y : y = Len(p) - (Len(path) - k)
        OBVIOUS
      <3>9. /\ y \in 1 .. Len(p) /\ y # x - 1 /\ Len(path) - k \in Nat
            /\ Len(path) - k < Len(p) /\ Len(path) - k < Len(path)
            /\ Len(path) - (Len(path) - k) = k
        <4>1. PICK a \in Nat, c \in Nat : a = Len(path) /\ c = Len(p)
          BY <1>1, <2>1
        <4>2. a < c /\ x = c - a + 1 /\ k \in 2 .. a - 1 /\ y = c - (a - k)
          BY <3>1, <3>7, <3>8, <4>1
        <4>3. /\ y \in 1 .. c /\ y # x - 1 /\ a - k \in Nat
              /\ a - k < c /\ a - k < a /\ a - (a - k) = k
          BY <4>2
        <4> QED
          BY <4>1, <4>3
      <3>10. p[y] = path[k]
        <4>1. p[Len(p) - (Len(path) - k)] = path[Len(path) - (Len(path) - k)]
          BY <2>3, <3>9
        <4> QED
          BY <3>8, <3>9, <4>1
      <3>11. p[y] = p[x - 1]
        BY <3>5, <3>7, <3>10
      <3> QED
        BY <1>6, <3>2, <3>9, <3>11, NoRepeat
    <2>5. ~(Len(p) < Len(path))
      <3> SUFFICES ASSUME Len(p) < Len(path)
                   PROVE  FALSE
        OBVIOUS
      <3>1. PICK x : x = Len(path) - Len(p) + 1
        OBVIOUS
      <3>2. /\ x \in 2 .. Len(path) /\ Len(p) - 1 \in Nat /\ Len(p) - 1 < Len(p)
            /\ Len(p) - 1 < Len(path)
            /\ Len(p) - (Len(p) - 1) = 1 /\ Len(path) - (Len(p) - 1) = x
        BY <1>1, <2>1, <3>1
      <3>3. p[Len(p) - (Len(p) - 1)] = path[Len(path) - (Len(p) - 1)]
        BY <2>3, <3>2
      <3>4. path[x] = RootId
        BY <2>1, <3>2, <3>3
      <3> QED
        BY <1>1, <3>2, <3>4 DEF Lineage
    <2>6. Len(p) = Len(path)
      BY <1>1, <2>1, <2>4, <2>5
    <2>7. ASSUME NEW x \in 1 .. Len(p)
          PROVE  p[x] = path[x]
      <3>1. /\ Len(p) - x \in Nat /\ Len(p) - x < Len(p)
            /\ Len(p) - (Len(p) - x) = x
        BY <2>1
      <3>2. p[Len(p) - (Len(p) - x)] = path[Len(path) - (Len(p) - x)]
        BY <2>3, <2>6, <3>1
      <3> QED
        BY <2>6, <3>1, <3>2
    <2> QED
      BY <2>2, <2>6, <2>7, SeqEqual
  <1> QED
    BY <1>1, <1>2, <1>3, <1>4, <1>5, <1>6 DEF PathOf

-----------------------------------------------------------------------------
(* The tree, as the paths make it.                                         *)

(* newroot, and what was made for no folder: no path leads there.          *)
Roots == {newroot} \cup {n \in DOMAIN dirs : dirs[n].made = NoId}

(* The path of ids that leads to each directory, and to no other one.      *)
Leads(w) ==
  /\ \A n \in DOMAIN dirs \cup {newroot} : w[n] \in Seq(Ids)
  /\ \A n \in Roots : w[n] = <<>>
  /\ \A n \in DOMAIN dirs \ Roots : w[n] = Append(w[dirs[n].up], dirs[n].made)
  /\ \A n, m \in DOMAIN dirs \ Roots : w[n] = w[m] => n = m

(* A directory has its id file when one of these lines ends with it.       *)
Ends(w, done) ==
  /\ \A q \in done : \E n \in DOMAIN dirs : w[n] = q
  /\ \A n \in DOMAIN dirs \ Roots : dirs[n].id = IF w[n] \in done THEN dirs[n].made ELSE NoId

(* How far the script is: d lines are done, and from where it is the rest  *)
(* of the next one leads to its end.                                       *)
Scripted(w, l) ==
  /\ Roots = {newroot}
  /\ \E d \in Nat :
       /\ d + Len(script) = Len(l)
       /\ Ends(w, {l[k] : k \in 1 .. d})
       /\ script # <<>> => w[at] \o script[1] = l[d + 1]
       /\ \A k \in 2 .. Len(script) : script[k] = l[d + k]

(* Where the directory of the root folder is, and what lies beside it.     *)
RootPlace(w) ==
  /\ pc = "rename" => Roots = {newroot}
  /\ pc = "unlink" => IdName(RootId) \in stack[1].seen
  /\ \A n \in DOMAIN dirs :
       /\ w[n] = <<RootId>> =>
            /\ dirs[n].up = newroot
            /\ dirs[n].name = IF pc = "step4_done" THEN Plain("recovered") ELSE IdName(RootId)
       /\ n \in Roots => n \in ProblemDir
       /\ pc = "step4_done" /\ dirs[n].up = newroot => w[n] = <<RootId>> \/ n \in Roots

(* All lines have their directory.                                         *)
Built(w, l) ==
  /\ Leads(w) /\ Lines(l) /\ Len(l) = Len(entries) + 1
  /\ Ends(w, {l[k] : k \in 1 .. Len(l)})
  /\ RootPlace(w)

PathsInv ==
  Undisturbed =>
    /\ pc = "paths" => Climbing(Len(script)) /\ Lines(script)
    /\ pc = "script" =>
         \E w, l : Leads(w) /\ Lines(l) /\ Len(l) = Len(entries) + 1 /\ Scripted(w, l)
    /\ pc \in {"rename", "unlink", "step4_done"} => \E w, l : Built(w, l)

-----------------------------------------------------------------------------
LEMMA LinesSame ==
  ASSUME entries' = entries, NEW l
  PROVE  Lines(l)' <=> Lines(l)
  BY DEF Lines, PathOf, FromRoot, EntryOf, Indices, RootId

(* FindParentDirectory begins with a folder and its parent.                *)
LEMMA ClimbingFirst ==
  ASSUME IInv, Distinct, entries' = entries, NEW i \in Indices,
         path' = <<entries[i].folder>>, id' = entries[i].parent
  PROVE  Climbing(i)'
  <1>1. entries[i].folder \in Ids /\ entries[i].parent \in Ids
    BY EntryTyped
  <1>2. PICK p, x : p = path' /\ x = id'
    OBVIOUS
  <1>3. /\ p \in Seq(Ids) /\ Len(p) = 1 /\ p[1] = entries[i].folder
        /\ x = entries[i].parent /\ x # NoId /\ x \in Ids
    BY <1>1, <1>2 DEF NoId, Ids
  <1>4. EntryOf(p[1])' = {i}
    BY <1>3 DEF EntryOf, Indices, Distinct
  <1>5. Lineage(p)'
    <2>1. \A k \in 2 .. Len(p) : FALSE
      BY <1>3
    <2> QED
      BY <2>1 DEF Lineage
  <1>6. Ids' = Ids /\ NoId' = NoId /\ i \in Indices'
    BY DEF Ids, NoId, Indices
  <1> QED
    BY <1>2, <1>3, <1>4, <1>5, <1>6 DEF Climbing

LEMMA PathsLoad ==
  ASSUME IInv, Tidy, Undisturbed, Load
  PROVE  /\ pc' = "paths" => Climbing(Len(script))' /\ Lines(script)'
         /\ pc' = "script" => Lines(script)' /\ Len(script') = Len(entries) + 1
  <1>1. script' = <<<<RootId>>>> /\ StartPath(1) /\ entries' = entries
    BY DEF Load
  <1>2. <<RootId>> \in Seq(Ids)
    BY DEF RootId, Ids
  <1>3. /\ script' \in Seq(Seq(Ids)) /\ Len(script') = 1 /\ script'[1] = <<RootId>>
    BY <1>1, <1>2
  <1>4. Lines(script)'
    <2>1. \A k \in 2 .. Len(script') : FALSE
      BY <1>3
    <2>2. RootId' = RootId /\ Ids' = Ids
      BY DEF RootId, Ids
    <2> QED
      BY <1>3, <2>1, <2>2 DEF Lines
  <1>5. Indices = 1 .. Len(entries) /\ Len(entries) \in Nat
    BY EntryTyped
  <1>6. CASE 1 <= Len(entries)
    <2>1. pc' = "paths" /\ path' = <<entries[1].folder>> /\ id' = entries[1].parent
      BY <1>1, <1>6 DEF StartPath
    <2>2. 1 \in Indices
      BY <1>5, <1>6
    <2>3. Climbing(1)'
      BY <1>1, <2>1, <2>2, ClimbingFirst DEF Tidy
    <2> QED
      BY <1>3, <1>4, <2>1, <2>3
  <1>7. CASE ~(1 <= Len(entries))
    <2>1. pc' = "script"
      BY <1>1, <1>7 DEF StartPath
    <2> QED
      BY <1>3, <1>4, <1>5, <1>7, <2>1
  <1> QED
    BY <1>6, <1>7

LEMMA PathsClimb ==
  ASSUME IInv, Distinct, Climb, NEW i, Climbing(i)
  PROVE  Climbing(i)'
  <1>1. /\ path' = <<id>> \o path /\ entries' = entries /\ id # NoId
        /\ id' = IF id = RootId \/ EntryOf(id) = {} THEN NoId
                 ELSE entries[CHOOSE j \in EntryOf(id) : TRUE].parent
    BY DEF Climb
  <1>2. /\ i \in Indices /\ path \in Seq(Ids) /\ Len(path) \in Nat /\ Len(path) >= 1
        /\ path[Len(path)] = entries[i].folder /\ Lineage(path)
        /\ id \in Ids /\ EntryOf(path[1]) # {}
        /\ \A j \in EntryOf(path[1]) : entries[j].parent = id
    BY <1>1 DEF Climbing
  <1>3. PICK p, x : p = path' /\ x = id'
    OBVIOUS
  <1>4. /\ p \in Seq(Ids) /\ Len(p) = Len(path) + 1 /\ p[1] = id
        /\ \A k \in 2 .. Len(path) + 1 : p[k] = path[k - 1]
    <2>1. <<id>> \in Seq(Ids) /\ Len(<<id>>) = 1 /\ <<id>>[1] = id
      BY <1>2
    <2>2. <<id>> \o path \in Seq(Ids) /\ Len(<<id>> \o path) = 1 + Len(path)
      BY <1>2, <2>1, ConcatProperties
    <2>3. \A k \in 1 .. 1 + Len(path) :
            (<<id>> \o path)[k] = IF k <= 1 THEN <<id>>[k] ELSE path[k - 1]
      BY <1>2, <2>1, ConcatProperties
    <2> QED
      BY <1>1, <1>2, <1>3, <2>1, <2>2, <2>3
  <1>5. Lineage(p)
    <2> SUFFICES ASSUME NEW k \in 2 .. Len(p)
                 PROVE  \E j \in EntryOf(p[k]) : entries[j].parent = p[k - 1]
      BY DEF Lineage
    <2>1. CASE k = 2
      <3>1. p[k] = path[1] /\ p[k - 1] = id
        BY <1>2, <1>4, <2>1
      <3> QED
        BY <1>2, <3>1
    <2>2. CASE k # 2
      <3>1. PICK m : m = k - 1
        OBVIOUS
      <3>2. m \in 2 .. Len(path) /\ m \in 2 .. Len(path) + 1 /\ k \in 2 .. Len(path) + 1
        BY <1>2, <1>4, <2>2, <3>1
      <3>3. p[k] = path[m] /\ p[m] = path[m - 1]
        BY <1>4, <3>1, <3>2
      <3>4. \E j \in EntryOf(path[m]) : entries[j].parent = path[m - 1]
        BY <1>2, <3>2 DEF Lineage
      <3> QED
        BY <3>1, <3>3, <3>4
    <2> QED
      BY <2>1, <2>2
  <1>6. p[Len(p)] = entries[i].folder
    <2>1. Len(path) + 1 \in 2 .. Len(path) + 1 /\ (Len(path) + 1) - 1 = Len(path)
      BY <1>2
    <2> QED
      BY <1>2, <1>4, <2>1
  <1>7. p[Len(p) - 1] = entries[i].parent
    <2>1. CASE Len(path) = 1
      <3>1. id = entries[i].parent
        BY <2>1 DEF Climbing
      <3>2. Len(p) - 1 = 1
        BY <1>4, <2>1
      <3> QED
        BY <1>4, <3>1, <3>2
    <2>2. CASE Len(path) # 1
      <3>1. \A n \in Nat : n >= 1 /\ n # 1 => n > 1 /\ n \in 2 .. n + 1 /\ (n + 1) - 1 = n
        OBVIOUS
      <3>2. Len(path) > 1 /\ Len(path) \in 2 .. Len(path) + 1 /\ Len(p) - 1 = Len(path)
        BY <1>2, <1>4, <2>2, <3>1
      <3>3. path[Len(path) - 1] = entries[i].parent
        BY <3>2 DEF Climbing
      <3> QED
        BY <1>4, <3>2, <3>3
    <2> QED
      BY <2>1, <2>2
  <1>8. Len(p) # 1 /\ Len(p) >= 1
    BY <1>2, <1>4
  <1>9. /\ x # NoId => /\ x \in Ids /\ EntryOf(p[1]) # {}
                       /\ \A j \in EntryOf(p[1]) : entries[j].parent = x
        /\ x = NoId => p[1] = RootId \/ EntryOf(p[1]) = {}
    <2>1. CASE id = RootId \/ EntryOf(id) = {}
      BY <1>1, <1>3, <1>4, <2>1
    <2>2. CASE id # RootId /\ EntryOf(id) # {}
      <3>1. PICK j \in EntryOf(id) : x = entries[j].parent
        BY <1>1, <1>3, <2>2
      <3>2. j \in Indices /\ entries[j].folder = id
        BY <3>1 DEF EntryOf
      <3>3. x \in Ids /\ x # NoId
        BY <3>1, <3>2, EntryTyped DEF Ids, NoId
      <3>4. EntryOf(p[1]) = {j}
        BY <1>4, <3>2 DEF EntryOf, Distinct
      <3> QED
        BY <3>1, <3>3, <3>4
    <2> QED
      BY <2>1, <2>2
  <1>10. \A f : EntryOf(f)' = EntryOf(f)
    BY <1>1 DEF EntryOf, Indices
  <1>11. Lineage(p)'
    BY <1>1, <1>5 DEF Lineage, EntryOf, Indices
  <1>12. Ids' = Ids /\ NoId' = NoId /\ RootId' = RootId /\ i \in Indices'
    BY <1>1, <1>2 DEF Ids, NoId, RootId, Indices
  <1>13. EntryOf(p[1])' = EntryOf(p[1])
    BY <1>10
  <1> QED
    BY <1>1, <1>3, <1>4, <1>6, <1>7, <1>8, <1>9, <1>11, <1>12, <1>13 DEF Climbing

LEMMA PathsPathDone ==
  ASSUME IInv, Tidy, Undisturbed, PathDone, Climbing(Len(script)), Lines(script)
  PROVE  /\ pc' = "paths" => Climbing(Len(script))' /\ Lines(script)'
         /\ pc' = "script" => Lines(script)' /\ Len(script') = Len(entries) + 1
  <1>1. PICK i : i = Len(script)
    OBVIOUS
  <1>2. /\ script' = Append(script, path) /\ StartPath(i + 1) /\ entries' = entries
        /\ id = NoId \/ TooBig \/ Looping
    BY <1>1 DEF PathDone
  <1>3. Indices = 1 .. Len(entries) /\ Len(entries) \in Nat /\ i \in Indices /\ i \in Nat
    BY <1>1, EntryTyped DEF Climbing
  <1>4. PathOf(i, path)
    BY <1>1, <1>2, PathFound DEF Tidy, Undisturbed
  <1>5. /\ script \in Seq(Seq(Ids)) /\ Len(script) >= 1 /\ script[1] = <<RootId>>
        /\ \A k \in 2 .. i : PathOf(k - 1, script[k])
    BY <1>1 DEF Lines
  <1>6. PICK l : l = Append(script, path)
    OBVIOUS
  <1>7. /\ l \in Seq(Seq(Ids)) /\ Len(l) = i + 1 /\ l[i + 1] = path
        /\ \A k \in 1 .. i : l[k] = script[k]
    <2>1. path \in Seq(Ids)
      BY DEF Climbing
    <2> HIDE DEF Ids
    <2>2. PICK T : T = Seq(Ids)
      OBVIOUS
    <2>3. script \in Seq(T) /\ path \in T
      BY <1>5, <2>1, <2>2
    <2>4. l \in Seq(T) /\ Len(l) = i + 1 /\ l[i + 1] = path
          /\ \A k \in 1 .. i : l[k] = script[k]
      BY <1>1, <1>6, <2>3, AppendProperties
    <2> QED
      BY <2>2, <2>4
  <1>8. Lines(l)
    <2>1. Len(l) >= 1 /\ l[1] = <<RootId>>
      BY <1>1, <1>3, <1>5, <1>7
    <2>2. ASSUME NEW k \in 2 .. Len(l)
          PROVE  PathOf(k - 1, l[k])
      <3>1. CASE k = i + 1
        <4>1. k - 1 = i
          BY <1>3, <3>1
        <4> QED
          BY <1>4, <1>7, <3>1, <4>1
      <3>2. CASE k # i + 1
        <4>1. k \in 2 .. i /\ k \in 1 .. i
          BY <1>3, <1>7, <3>2
        <4> QED
          BY <1>5, <1>7, <4>1
      <3> QED
        BY <3>1, <3>2
    <2> QED
      BY <1>7, <2>1, <2>2 DEF Lines
  <1>9. Lines(script)'
    <2>1. Lines(l)'
      BY <1>2, <1>8, LinesSame
    <2> QED
      BY <1>2, <1>6, <2>1
  <1>10. Len(script') = i + 1
    BY <1>2, <1>6, <1>7
  <1>11. CASE i + 1 <= Len(entries)
    <2>1. pc' = "paths" /\ path' = <<entries[i + 1].folder>> /\ id' = entries[i + 1].parent
      BY <1>2, <1>11 DEF StartPath
    <2>2. PICK j : j = i + 1
      OBVIOUS
    <2>3. j \in Indices
      BY <1>3, <1>11, <2>2
    <2>4. Climbing(j)'
      BY <1>2, <2>1, <2>2, <2>3, ClimbingFirst DEF Tidy
    <2> QED
      BY <1>9, <1>10, <2>1, <2>2, <2>4
  <1>12. CASE ~(i + 1 <= Len(entries))
    <2>1. pc' = "script"
      BY <1>2, <1>12 DEF StartPath
    <2>2. i + 1 = Len(entries) + 1
      BY <1>3, <1>12
    <2> QED
      BY <1>9, <1>10, <2>1, <2>2
  <1> QED
    BY <1>11, <1>12

-----------------------------------------------------------------------------
(* The script runs.                                                        *)

(* mkdir -p goes from what is left of the path to where it is.             *)
LEMMA HeadMoves ==
  ASSUME NEW S, NEW s \in Seq(S), NEW t \in Seq(S), t # <<>>
  PROVE  /\ Head(t) \in S /\ Tail(t) \in Seq(S)
         /\ Append(s, Head(t)) \o Tail(t) = s \o t
  <1>1. /\ Head(t) \in S /\ Tail(t) \in Seq(S) /\ Len(Tail(t)) = Len(t) - 1
        /\ \A k \in 1 .. Len(Tail(t)) : Tail(t)[k] = t[k + 1]
    BY HeadTailProperties
  <1>2. PICK a, b : a = Append(s, Head(t)) /\ b = Tail(t)
    OBVIOUS
  <1>3. /\ a \in Seq(S) /\ Len(a) = Len(s) + 1 /\ a[Len(s) + 1] = t[1]
        /\ \A k \in 1 .. Len(s) : a[k] = s[k]
    BY <1>1, <1>2, AppendProperties
  <1>4. /\ a \o b \in Seq(S) /\ Len(a \o b) = Len(a) + Len(b)
        /\ \A k \in 1 .. Len(a) + Len(b) :
             (a \o b)[k] = IF k <= Len(a) THEN a[k] ELSE b[k - Len(a)]
    BY <1>1, <1>2, <1>3, ConcatProperties
  <1>5. /\ s \o t \in Seq(S) /\ Len(s \o t) = Len(s) + Len(t)
        /\ \A k \in 1 .. Len(s) + Len(t) :
             (s \o t)[k] = IF k <= Len(s) THEN s[k] ELSE t[k - Len(s)]
    BY ConcatProperties
  <1>6. Len(s) \in Nat /\ Len(t) \in Nat /\ Len(b) = Len(t) - 1 /\ Len(t) >= 1
    BY <1>1, <1>2
  <1>7. Len(a \o b) = Len(s \o t) /\ Len(a \o b) = Len(s) + Len(t)
    BY <1>3, <1>4, <1>5, <1>6
  <1>8. ASSUME NEW k \in 1 .. Len(s) + Len(t)
        PROVE  (a \o b)[k] = (s \o t)[k]
    <2>1. CASE k <= Len(s)
      BY <1>3, <1>4, <1>5, <1>6, <2>1
    <2>2. CASE k = Len(s) + 1
      <3>1. k <= Len(a) /\ ~(k <= Len(s)) /\ k - Len(s) = 1
        BY <1>3, <1>6, <2>2
      <3> QED
        BY <1>3, <1>4, <1>5, <1>6, <1>8, <2>2, <3>1
    <2>3. CASE k > Len(s) + 1
      <3>1. PICK j : j = k - (Len(s) + 1)
        OBVIOUS
      <3>2. j \in 1 .. Len(b) /\ j + 1 = k - Len(s) /\ ~(k <= Len(a)) /\ ~(k <= Len(s))
            /\ j = k - Len(a) /\ k \in 1 .. Len(a) + Len(b)
        BY <1>3, <1>6, <2>3, <3>1
      <3>3. b[j] = t[j + 1]
        BY <1>1, <1>2, <3>2
      <3> QED
        BY <1>4, <1>5, <1>8, <3>2, <3>3
    <2>4. k <= Len(s) \/ k = Len(s) + 1 \/ k > Len(s) + 1
      BY <1>6
    <2> QED
      BY <2>1, <2>2, <2>3, <2>4
  <1>9. a \o b = s \o t
    BY <1>4, <1>5, <1>7, <1>8, SeqEqual
  <1> QED
    BY <1>1, <1>2, <1>9

LEMMA NewHead ==
  ASSUME NEW S, NEW s \in Seq(S), s # <<>>, NEW e \in S
  PROVE  /\ Len(<<e>> \o Tail(s)) = Len(s) /\ (<<e>> \o Tail(s))[1] = e
         /\ \A k \in 2 .. Len(s) : (<<e>> \o Tail(s))[k] = s[k]
  <1>1. /\ Tail(s) \in Seq(S) /\ Len(Tail(s)) = Len(s) - 1
        /\ \A k \in 1 .. Len(Tail(s)) : Tail(s)[k] = s[k + 1]
    BY HeadTailProperties
  <1>2. Len(s) \in Nat /\ Len(s) >= 1
    OBVIOUS
  <1>3. <<e>> \in Seq(S) /\ Len(<<e>>) = 1 /\ <<e>>[1] = e
    OBVIOUS
  <1>4. PICK a, b : a = <<e>> /\ b = Tail(s)
    OBVIOUS
  <1>5. /\ Len(a \o b) = Len(a) + Len(b)
        /\ \A k \in 1 .. Len(a) + Len(b) :
             (a \o b)[k] = IF k <= Len(a) THEN a[k] ELSE b[k - Len(a)]
    BY <1>1, <1>3, <1>4, ConcatProperties
  <1>6. ASSUME NEW k \in 2 .. Len(s)
        PROVE  (a \o b)[k] = s[k]
    <2>1. k - 1 \in 1 .. Len(b) /\ (k - 1) + 1 = k /\ ~(k <= Len(a)) /\ k - Len(a) = k - 1
          /\ k \in 1 .. Len(a) + Len(b)
      BY <1>1, <1>2, <1>3, <1>4
    <2>2. b[k - 1] = s[(k - 1) + 1]
      BY <1>1, <1>4, <2>1
    <2> QED
      BY <1>5, <2>1, <2>2
  <1>7. Len(a \o b) = Len(s) /\ (a \o b)[1] = e
    BY <1>1, <1>2, <1>3, <1>4, <1>5
  <1> QED
    BY <1>4, <1>6, <1>7

(* The way to a directory is one id longer than to the one it lies in.     *)
LEMMA LeadsStep ==
  ASSUME IInv, NEW w, Leads(w), NEW n \in DOMAIN dirs \ Roots
  PROVE  /\ w[n] \in Seq(Ids) /\ w[dirs[n].up] \in Seq(Ids) /\ dirs[n].made \in Ids
         /\ Len(w[dirs[n].up]) \in Nat /\ Len(w[n]) = Len(w[dirs[n].up]) + 1
         /\ w[n] # <<>> /\ w[n][Len(w[n])] = dirs[n].made
         /\ \A k \in 1 .. Len(w[dirs[n].up]) : w[n][k] = w[dirs[n].up][k]
  <1>1. w[n] \in Seq(Ids) /\ w[dirs[n].up] \in Seq(Ids) /\ n # newroot
    BY Basics DEF Leads, Roots
  <1>2. PICK s, t, e : s = w[n] /\ t = w[dirs[n].up] /\ e = dirs[n].made
    OBVIOUS
  <1>3. s = Append(t, e) /\ s \in Seq(Ids) /\ t \in Seq(Ids)
    BY <1>1, <1>2 DEF Leads
  <1>4. e \in Nat
    BY <1>2, Basics DEF Dir
  <1>5. t \in Seq(Nat)
    BY <1>3 DEF Ids
  <1>6. /\ Len(t) \in Nat /\ Len(s) = Len(t) + 1 /\ s[Len(t) + 1] = e
        /\ \A k \in 1 .. Len(t) : s[k] = t[k]
    BY <1>3, <1>4, <1>5, AppendProperties
  <1>7. e \in Ids /\ s # <<>>
    <2> HIDE DEF Ids
    <2>1. Len(t) + 1 \in 1 .. Len(s) /\ Len(s) # 0
      BY <1>6
    <2> QED
      BY <1>3, <1>6, <2>1
  <1> QED
    BY <1>2, <1>3, <1>6, <1>7

(* No two directories, and newroot, while there is no other root.          *)
LEMMA LeadsApart ==
  ASSUME IInv, NEW w, Leads(w), Roots = {newroot},
         NEW n \in DOMAIN dirs \cup {newroot}, NEW m \in DOMAIN dirs \cup {newroot},
         w[n] = w[m]
  PROVE  n = m
  <1>1. w[newroot] = <<>>
    BY DEF Leads, Roots
  <1>2. \A x \in DOMAIN dirs : x \notin Roots
    BY Basics
  <1>3. \A x \in DOMAIN dirs : w[x] # <<>>
    BY <1>2, LeadsStep
  <1> QED
    BY <1>1, <1>2, <1>3 DEF Leads

LEMMA PathsToScript ==
  ASSUME IInv, Tidy, Undisturbed, PathsInv, Load \/ PathDone, pc' = "script"
  PROVE  \E w, l : Leads(w)' /\ Lines(l)' /\ Len(l) = Len(entries') + 1 /\ Scripted(w, l)'
  <1>1. PICK l : l = script'
    OBVIOUS
  <1>2. entries' = entries /\ dirs' = dirs /\ at' = at /\ DOMAIN dirs = {}
    BY DEF Load, PathDone, Tidy
  <1>3. Lines(script)' /\ Len(script') = Len(entries) + 1
    BY PathsLoad, PathsPathDone DEF PathsInv, PathDone
  <1>4. Lines(l)' /\ Len(l) = Len(entries') + 1
    BY <1>1, <1>2, <1>3
  <1>5. l \in Seq(Seq(Ids))
    BY <1>4 DEF Lines, Ids
  <1>6. at = newroot
    BY Basics DEF Load, PathDone, Control
  <1> DEFINE w == [n \in {newroot} |-> <<>>]
  <1>7. w[newroot] = <<>>
    OBVIOUS
  <1> HIDE DEF w
  <1>8. Roots' = {newroot}
    BY <1>2 DEF Roots, newroot
  <1>9. Leads(w)'
    <2>1. <<>> \in Seq(Ids) /\ Ids' = Ids
      BY DEF Ids
    <2> QED
      BY <1>2, <1>7, <1>8, <2>1 DEF Leads, newroot
  <1>10. Scripted(w, l)'
    <2>1. Len(l) \in Nat /\ 0 + Len(script') = Len(l)
      BY <1>1, <1>5
    <2>2. {l[k] : k \in 1 .. 0} = {}
      OBVIOUS
    <2>3. Ends(w, {l[k] : k \in 1 .. 0})'
      BY <1>2, <2>2 DEF Ends
    <2>4. l # <<>> => w[at'] \o l[1] = l[0 + 1]
      <3>1. ASSUME l # <<>>
            PROVE  l[1] \in Seq(Ids)
        <4> HIDE DEF Ids
        <4> QED
          BY <1>5, <3>1
      <3> QED
        BY <1>2, <1>6, <1>7, <3>1, ConcatEmptySeq
    <2>5. \A k \in 2 .. Len(l) : l[k] = l[0 + k]
      OBVIOUS
    <2>6. newroot' = newroot
      BY DEF newroot
    <2> QED
      BY <1>1, <1>8, <2>1, <2>3, <2>4, <2>5, <2>6 DEF Scripted
  <1> QED
    BY <1>4, <1>9, <1>10

(* What mkdir -p looks for is there, or no path leads to it yet.           *)
LEMMA WayOn ==
  ASSUME IInv, Unnamed, NEW w, Leads(w), Roots = {newroot},
         NEW h \in Ids, NEW n \in DOMAIN dirs,
         \/ dirs[n].up = at /\ dirs[n].name = IdName(h)
         \/ w[n] = Append(w[at], h)
  PROVE  /\ dirs[n].up = at /\ dirs[n].name = IdName(h)
         /\ w[n] = Append(w[at], h) /\ dirs[n].made = h
  <1>1. n \in DOMAIN dirs \ Roots /\ at \in DOMAIN dirs \cup {newroot}
    BY Basics DEF Control
  <1>2. dirs[n].name = IdName(dirs[n].made)
    BY DEF Unnamed
  <1>3. w[n] = Append(w[dirs[n].up], dirs[n].made) /\ dirs[n].up \in DOMAIN dirs \cup {newroot}
    BY <1>1, Basics DEF Leads
  <1>4. CASE dirs[n].up = at /\ dirs[n].name = IdName(h)
    <2>1. dirs[n].made = h
      BY <1>2, <1>4 DEF IdName
    <2> QED
      BY <1>3, <1>4, <2>1
  <1>5. CASE w[n] = Append(w[at], h)
    <2>1. w[at] \in Seq(Ids) /\ w[dirs[n].up] \in Seq(Ids) /\ dirs[n].made \in Ids
      BY <1>1, LeadsStep DEF Leads
    <2>2. w[dirs[n].up] = w[at] /\ dirs[n].made = h
      <3>1. PICK a, b, e : a = w[at] /\ b = w[dirs[n].up] /\ e = dirs[n].made
        OBVIOUS
      <3>2. PICK T : T = Ids
        OBVIOUS
      <3>3. a \in Seq(T) /\ b \in Seq(T) /\ e \in T /\ h \in T /\ Append(b, e) = Append(a, h)
        BY <1>3, <1>5, <2>1, <3>1, <3>2
      <3>4. b = a /\ e = h
        BY <3>3, AppendInjective
      <3> QED
        BY <3>1, <3>4
    <2>3. dirs[n].up = at
      BY <1>1, <1>3, <2>2, LeadsApart
    <2> QED
      BY <1>2, <1>5, <2>2, <2>3
  <1> QED
    BY <1>4, <1>5

LEMMA PathsMkdir ==
  ASSUME IInv, Tidy, Undisturbed, Mkdir, NEW w, NEW l, Leads(w), Lines(l), Scripted(w, l)
  PROVE  \E v : Leads(v)' /\ Scripted(v, l)'
  <1> PICK d \in Nat :
         /\ d + Len(script) = Len(l)
         /\ Ends(w, {l[k] : k \in 1 .. d})
         /\ script # <<>> => w[at] \o script[1] = l[d + 1]
         /\ \A k \in 2 .. Len(script) : script[k] = l[d + k]
    BY DEF Scripted
  <1> PICK s, h : s = Head(script) /\ h = Head(s)
    OBVIOUS
  <1> PICK name, there : name = IdName(h)
                         /\ there = {n \in Children(dirs, at) : dirs[n].name = name}
    OBVIOUS
  <1>1. /\ script # <<>> /\ s # <<>> /\ entries' = entries
        /\ IF there # {}
           THEN at' = (CHOOSE n \in there : TRUE) /\ UNCHANGED dirs
           ELSE at' = NewDir /\ dirs' = WithNew(at, name, name.num)
        /\ script' = <<Tail(s)>> \o Tail(script)
    BY DEF Mkdir
  <1>2. Unnamed /\ Roots = {newroot} /\ at \in DOMAIN dirs \cup {newroot}
    BY Basics DEF Mkdir, Tidy, Scripted, Control
  <1>3. script \in Seq(Seq(Nat)) /\ script[1] = s /\ s \in Seq(Nat) /\ Len(script) \in Nat
        /\ Len(script) >= 1
    <2>1. PICK T : T = Seq(Nat)
      OBVIOUS
    <2>2. script \in Seq(T) /\ script # <<>>
      BY <1>1, <2>1, Basics DEF Control
    <2>3. Head(script) \in T /\ script[1] = Head(script) /\ Len(script) >= 1 /\ Len(script) \in Nat
      BY <2>2
    <2> QED
      BY <2>1, <2>2, <2>3
  <1>4. /\ Tail(s) \in Seq(Nat) /\ h \in Nat
        /\ Len(script') = Len(script) /\ script'[1] = Tail(s)
        /\ \A k \in 2 .. Len(script) : script'[k] = script[k]
    <2>1. Tail(s) \in Seq(Nat) /\ h \in Nat
      BY <1>1, <1>3, HeadTailProperties
    <2> QED
      BY <1>1, <1>3, <2>1, NewHead
  <1>5. w[at] \in Seq(Ids) /\ w[at] \o s = l[d + 1]
    BY <1>1, <1>2, <1>3 DEF Leads
  <1>6. /\ h \in Ids /\ Append(w[at], h) \in Seq(Ids)
        /\ Append(w[at], h) \o Tail(s) = l[d + 1]
    <2>1. PICK a : a = w[at]
      OBVIOUS
    <2>2. a \in Seq(Nat)
      BY <1>5, <2>1 DEF Ids
    <2>3. Append(a, h) \o Tail(s) = l[d + 1]
      <3>1. s # <<>> /\ s \in Seq(Nat)
        BY <1>1, <1>3
      <3>2. Append(a, Head(s)) \o Tail(s) = a \o s
        BY <2>2, <3>1, HeadMoves
      <3> QED
        BY <1>5, <2>1, <3>2
    <2>4. l[d + 1] \in Seq(Ids)
      <3>1. d + 1 \in 1 .. Len(l)
        BY <1>3
      <3>2. l \in Seq(Seq(Ids))
        BY DEF Lines
      <3> HIDE DEF Ids
      <3> QED
        BY <3>1, <3>2
    <2>5. h \in Ids
      <3>1. /\ Len(a) \in Nat /\ Len(s) >= 1 /\ Len(s) \in Nat /\ s[1] = h
        BY <1>1, <1>3, <2>2
      <3>2. /\ Len(a \o s) = Len(a) + Len(s)
            /\ \A k \in 1 .. Len(a) + Len(s) :
                 (a \o s)[k] = IF k <= Len(a) THEN a[k] ELSE s[k - Len(a)]
        BY <1>3, <2>2, ConcatProperties
      <3>3. Len(a) + 1 \in 1 .. Len(a) + Len(s) /\ ~(Len(a) + 1 <= Len(a))
            /\ (Len(a) + 1) - Len(a) = 1
        BY <3>1
      <3>4. (a \o s)[Len(a) + 1] = h
        BY <3>1, <3>2, <3>3
      <3>5. PICK q : q = a \o s
        OBVIOUS
      <3>6. q \in Seq(Ids) /\ Len(a) + 1 \in 1 .. Len(q) /\ q[Len(a) + 1] = h
        BY <1>5, <2>1, <2>4, <3>2, <3>3, <3>4, <3>5
      <3> HIDE DEF Ids
      <3> QED
        BY <3>6
    <2>6. Append(a, h) \in Seq(Ids)
      <3>1. PICK T : T = Ids
        OBVIOUS
      <3>2. a \in Seq(T) /\ h \in T
        BY <1>5, <2>1, <2>5, <3>1
      <3>3. Append(a, h) \in Seq(T)
        BY <3>2
      <3> QED
        BY <3>1, <3>3
    <2> QED
      BY <2>1, <2>3, <2>5, <2>6
  <1>7. script' # <<>>
    BY <1>3, <1>4
  <1>8. \A k \in 2 .. Len(script') : script'[k] = l[d + k]
    BY <1>3, <1>4
  <1>9. UNCHANGED <<newroot, Ids>>
    BY DEF newroot, Ids
  <1>10. CASE there # {}
    <2>1. PICK n \in there : at' = n
      BY <1>1, <1>10
    <2>2. n \in DOMAIN dirs /\ dirs[n].up = at /\ dirs[n].name = IdName(h)
      BY <2>1 DEF Children
    <2>3. w[n] = Append(w[at], h)
      BY <1>2, <1>6, <2>2, WayOn
    <2>4. dirs' = dirs
      BY <1>1, <1>10
    <2>5. Roots' = Roots
      BY <1>9, <2>4 DEF Roots, NoId
    <2>6. Leads(w)'
      BY <1>9, <2>4, <2>5 DEF Leads
    <2>7. Ends(w, {l[k] : k \in 1 .. d})'
      BY <2>4, <2>5 DEF Ends, NoId
    <2>8. w[at'] \o script'[1] = l[d + 1]
      BY <1>4, <1>6, <2>1, <2>3
    <2>9. d + Len(script') = Len(l)
      BY <1>4
    <2>10. Scripted(w, l)'
      BY <1>2, <1>8, <1>9, <2>5, <2>7, <2>8, <2>9 DEF Scripted
    <2> QED
      BY <2>6, <2>10
  <1>11. CASE there = {}
    <2>1. PICK new : new = NewDir
      OBVIOUS
    <2>2. /\ at' = new /\ dirs' = WithNew(at, name, name.num) /\ name.num = h
          /\ new \notin DOMAIN dirs /\ new # newroot
      BY <1>1, <1>11, <2>1, Basics, NewDirIsNew DEF IdName
    <2>3. /\ DOMAIN dirs' = DOMAIN dirs \cup {new}
          /\ \A n \in DOMAIN dirs : dirs'[n] = dirs[n]
          /\ dirs'[new].up = at /\ dirs'[new].made = h /\ dirs'[new].id = NoId
      BY <2>1, <2>2 DEF WithNew
    <2>4. \A n \in DOMAIN dirs : w[n] # Append(w[at], h)
      <3> SUFFICES ASSUME NEW n \in DOMAIN dirs, w[n] = Append(w[at], h)
                   PROVE  FALSE
        OBVIOUS
      <3>1. dirs[n].up = at /\ dirs[n].name = IdName(h)
        BY <1>2, <1>6, WayOn
      <3> QED
        BY <1>11, <3>1 DEF Children
    <2>5. PICK v : /\ v[new] = Append(w[at], h)
                   /\ \A n \in DOMAIN dirs \cup {newroot} : v[n] = w[n]
      <3> DEFINE u == [n \in DOMAIN dirs \cup {newroot, new} |->
                         IF n = new THEN Append(w[at], h) ELSE w[n]]
      <3>1. /\ u[new] = Append(w[at], h)
            /\ \A n \in DOMAIN dirs \cup {newroot} : u[n] = w[n]
        BY <2>2
      <3> QED
        BY <3>1
    <2>6. Roots' = {newroot} /\ h # NoId /\ newroot \notin DOMAIN dirs'
      <3>1. h # NoId
        BY <1>6 DEF Ids, NoId
      <3>2. \A n \in DOMAIN dirs : dirs[n].made # NoId
        BY <1>2, Basics DEF Roots
      <3> QED
        BY <1>9, <2>2, <2>3, <3>1, <3>2, Basics DEF Roots, NoId
    <2>7. Leads(v)'
      <3>1. \A n \in DOMAIN dirs' \cup {newroot} : v[n] \in Seq(Ids)
        BY <1>6, <2>3, <2>5 DEF Leads
      <3>2. v[newroot] = <<>>
        BY <1>2, <2>5 DEF Leads
      <3>3. ASSUME NEW n \in DOMAIN dirs'
            PROVE  v[n] = Append(v[dirs'[n].up], dirs'[n].made)
        <4>1. CASE n = new
          BY <1>2, <2>3, <2>5, <4>1
        <4>2. CASE n # new
          <5>1. n \in DOMAIN dirs \ Roots /\ dirs[n].up \in DOMAIN dirs \cup {newroot}
            BY <1>2, <2>3, <4>2, Basics
          <5>2. w[n] = Append(w[dirs[n].up], dirs[n].made)
            BY <5>1 DEF Leads
          <5>3. v[n] = w[n] /\ v[dirs[n].up] = w[dirs[n].up] /\ dirs'[n] = dirs[n]
            BY <2>3, <2>5, <5>1
          <5> QED
            BY <5>2, <5>3
        <4> QED
          BY <4>1, <4>2
      <3>4. \A n, m \in DOMAIN dirs' : v[n] = v[m] => n = m
        <4>1. \A n, m \in DOMAIN dirs : w[n] = w[m] => n = m
          BY <1>2, LeadsApart
        <4> QED
          BY <2>3, <2>4, <2>5, <4>1
      <3> QED
        BY <1>9, <2>6, <3>1, <3>2, <3>3, <3>4 DEF Leads
    <2>8. Ends(v, {l[k] : k \in 1 .. d})'
      <3>1. PICK done : done = {l[k] : k \in 1 .. d}
        OBVIOUS
      <3>2. /\ \A q \in done : \E n \in DOMAIN dirs : w[n] = q
            /\ \A n \in DOMAIN dirs :
                 dirs[n].id = IF w[n] \in done THEN dirs[n].made ELSE NoId
        BY <1>2, <3>1, Basics DEF Ends
      <3>3. \A q \in done : \E n \in DOMAIN dirs' : v[n] = q
        BY <2>3, <2>5, <3>2
      <3>4. v[new] \notin done
        BY <2>4, <2>5, <3>2
      <3>5. \A n \in DOMAIN dirs' :
              dirs'[n].id = IF v[n] \in done THEN dirs'[n].made ELSE NoId
        BY <2>3, <2>5, <3>2, <3>4
      <3>6. Ends(v, done)'
        BY <3>3, <3>5 DEF Ends, NoId
      <3> QED
        BY <3>1, <3>6
    <2>9. v[at'] \o script'[1] = l[d + 1]
      BY <1>4, <1>6, <2>2, <2>5
    <2>10. d + Len(script') = Len(l)
      BY <1>4
    <2>11. Scripted(v, l)'
      BY <1>8, <1>9, <2>6, <2>8, <2>9, <2>10 DEF Scripted
    <2> QED
      BY <2>7, <2>11
  <1> QED
    BY <1>10, <1>11

(* echo marks the end of the line.                                         *)
LEMMA PathsEcho ==
  ASSUME IInv, Unnamed, Echo, NEW w, NEW l, Leads(w), Lines(l), Scripted(w, l)
  PROVE  Leads(w)' /\ Scripted(w, l)'
  <1> PICK d \in Nat :
         /\ d + Len(script) = Len(l)
         /\ Ends(w, {l[k] : k \in 1 .. d})
         /\ script # <<>> => w[at] \o script[1] = l[d + 1]
         /\ \A k \in 2 .. Len(script) : script[k] = l[d + k]
    BY DEF Scripted
  <1>1. /\ script # <<>> /\ Head(script) = <<>> /\ entries' = entries
        /\ dirs' = [dirs EXCEPT ![at].id = dirs[at].name.num]
        /\ at' = newroot /\ script' = Tail(script)
    BY DEF Echo
  <1>2. Roots = {newroot} /\ at \in DOMAIN dirs \cup {newroot}
    BY Basics DEF Scripted, Control
  <1>3. /\ Len(script) \in Nat /\ Len(script) >= 1 /\ script[1] = <<>>
        /\ Len(script') = Len(script) - 1
        /\ \A k \in 1 .. Len(script') : script'[k] = script[k + 1]
    <2>1. PICK T : T = Seq(Nat)
      OBVIOUS
    <2>2. script \in Seq(T)
      BY <2>1, Basics DEF Control
    <2> QED
      BY <1>1, <2>2, HeadTailProperties
  <1>4. PICK q : q = l[d + 1]
    OBVIOUS
  <1>5. w[at] = q /\ q \in Seq(Ids) /\ q # <<>>
    <2>1. w[at] \in Seq(Ids)
      BY <1>2 DEF Leads
    <2>2. w[at] \o <<>> = w[at]
      BY <2>1, ConcatEmptySeq
    <2>3. w[at] = q
      BY <1>1, <1>3, <1>4, <2>2
    <2>4. q # <<>>
      <3>1. l \in Seq(Seq(Ids)) /\ l[1] = <<RootId>> /\ d + 1 \in 1 .. Len(l)
            /\ \A k \in 2 .. Len(l) : Len(l[k]) > 1
        BY <1>3 DEF Lines, PathOf
      <3>2. CASE d + 1 = 1
        <4>1. q = <<RootId>>
          BY <1>4, <3>1, <3>2
        <4>2. Len(<<RootId>>) = 1 /\ Len(<<>>) = 0
          OBVIOUS
        <4> QED
          BY <4>1, <4>2
      <3>3. CASE d + 1 # 1
        <4>1. d + 1 \in 2 .. Len(l)
          BY <3>1, <3>3
        <4>2. Len(q) > 1
          BY <1>4, <3>1, <4>1
        <4>3. Len(<<>>) = 0
          OBVIOUS
        <4> QED
          BY <4>2, <4>3
      <3> QED
        BY <3>2, <3>3
    <2> QED
      BY <2>1, <2>3, <2>4
  <1>6. at \in DOMAIN dirs /\ at # newroot /\ newroot \notin DOMAIN dirs
    <2>1. w[newroot] = <<>>
      BY DEF Leads, Roots
    <2> QED
      BY <1>2, <1>5, <2>1, Basics
  <1>7. /\ DOMAIN dirs' = DOMAIN dirs
        /\ \A n \in DOMAIN dirs : n # at => dirs'[n] = dirs[n]
        /\ dirs'[at].id = dirs[at].made
        /\ dirs'[at].up = dirs[at].up /\ dirs'[at].made = dirs[at].made
    <2>1. dirs[at] \in Dir
      BY <1>6, Basics
    <2>2. dirs'[at] = [dirs[at] EXCEPT !.id = dirs[at].made]
      <3>1. dirs[at].name = IdName(dirs[at].made)
        BY <1>6 DEF Unnamed
      <3>2. IdName(dirs[at].made).num = dirs[at].made
        BY DEF IdName
      <3> QED
        BY <1>1, <1>6, <3>1, <3>2
    <2>3. DOMAIN dirs' = DOMAIN dirs /\ \A n \in DOMAIN dirs : n # at => dirs'[n] = dirs[n]
      BY <1>1
    <2> QED
      BY <2>1, <2>2, <2>3 DEF Dir
  <1>8. Roots' = {newroot} /\ newroot' = newroot
    <2>1. \A n \in DOMAIN dirs : dirs[n].made # NoId
      BY <1>2, <1>6 DEF Roots
    <2> QED
      BY <1>7, <2>1 DEF Roots, NoId, newroot
  <1>9. \A n \in DOMAIN dirs : dirs'[n].up = dirs[n].up /\ dirs'[n].made = dirs[n].made
    BY <1>7
  <1>10. Leads(w)'
    <2>1. /\ \A n \in DOMAIN dirs \cup {newroot} : w[n] \in Seq(Ids)
          /\ w[newroot] = <<>>
          /\ \A n \in DOMAIN dirs : w[n] = Append(w[dirs[n].up], dirs[n].made)
          /\ \A n, m \in DOMAIN dirs : w[n] = w[m] => n = m
      BY <1>2, <1>6 DEF Leads
    <2>2. \A n \in DOMAIN dirs : w[n] = Append(w[dirs'[n].up], dirs'[n].made)
      BY <1>9, <2>1
    <2>3. Ids' = Ids
      BY DEF Ids
    <2> QED
      BY <1>7, <1>8, <2>1, <2>2, <2>3 DEF Leads
  <1>11. Ends(w, {l[k] : k \in 1 .. d + 1})'
    <2>1. PICK done, all : done = {l[k] : k \in 1 .. d} /\ all = {l[k] : k \in 1 .. d + 1}
      OBVIOUS
    <2>2. all = done \cup {q}
      <3>1. \A k : k \in 1 .. d + 1 <=> k \in 1 .. d \/ k = d + 1
        OBVIOUS
      <3> QED
        BY <1>4, <2>1, <3>1
    <2>3. /\ \A r \in done : \E n \in DOMAIN dirs : w[n] = r
          /\ \A n \in DOMAIN dirs :
               dirs[n].id = IF w[n] \in done THEN dirs[n].made ELSE NoId
      BY <1>2, <1>6, <2>1 DEF Ends
    <2>4. \A n \in DOMAIN dirs : w[n] = q => n = at
      BY <1>2, <1>5, LeadsApart
    <2>5. \A r \in all : \E n \in DOMAIN dirs' : w[n] = r
      BY <1>5, <1>6, <1>7, <2>2, <2>3
    <2>6. \A n \in DOMAIN dirs' :
            dirs'[n].id = IF w[n] \in all THEN dirs'[n].made ELSE NoId
      <3> SUFFICES ASSUME NEW n \in DOMAIN dirs
                   PROVE  dirs'[n].id = IF w[n] \in all THEN dirs'[n].made ELSE NoId
        BY <1>7
      <3>1. CASE n = at
        BY <1>5, <1>7, <2>2, <3>1
      <3>2. CASE n # at
        <4>1. w[n] \in all <=> w[n] \in done
          BY <2>2, <2>4, <3>2
        <4> QED
          BY <1>7, <2>3, <3>2, <4>1
      <3> QED
        BY <3>1, <3>2
    <2>7. Ends(w, all)'
      BY <2>5, <2>6 DEF Ends, NoId
    <2> QED
      BY <2>1, <2>7
  <1>12. (d + 1) + Len(script') = Len(l)
    <2>1. PICK a \in Nat : a = Len(script)
      BY <1>3
    <2>2. Len(script') = a - 1 /\ Len(l) = d + a
      BY <1>3, <2>1
    <2> QED
      BY <2>2
  <1>13. \A k \in 1 .. Len(script') : script'[k] = l[(d + 1) + k]
    <2> SUFFICES ASSUME NEW k \in 1 .. Len(script')
                 PROVE  script'[k] = l[(d + 1) + k]
      OBVIOUS
    <2>1. k + 1 \in 2 .. Len(script) /\ d + (k + 1) = (d + 1) + k
      BY <1>3
    <2>2. script[k + 1] = l[d + (k + 1)]
      BY <2>1
    <2> QED
      BY <1>3, <2>1, <2>2
  <1>14. script' # <<>> => w[at'] \o script'[1] = l[(d + 1) + 1]
    <2> SUFFICES ASSUME script' # <<>>
                 PROVE  w[at'] \o script'[1] = l[(d + 1) + 1]
      OBVIOUS
    <2>1. w[at'] = <<>>
      BY <1>1 DEF Leads, Roots
    <2>2. 1 \in 1 .. Len(script') /\ script'[1] \in Seq(Nat)
      <3>1. PICK T : T = Seq(Nat)
        OBVIOUS
      <3>2. script \in Seq(T)
        BY <3>1, Basics DEF Control
      <3>3. Tail(script) \in Seq(T)
        BY <1>1, <3>2, HeadTailProperties
      <3>4. Len(Tail(script)) >= 1 /\ Len(Tail(script)) \in Nat /\ Tail(script)[1] \in T
        BY <1>1, <3>3
      <3> QED
        BY <1>1, <3>1, <3>4
    <2>3. <<>> \o script'[1] = script'[1]
      BY <2>2, ConcatEmptySeq
    <2> QED
      BY <1>13, <2>1, <2>2, <2>3
  <1>15. d + 1 \in Nat /\ \A k \in 2 .. Len(script') : k \in 1 .. Len(script')
    BY <1>3
  <1>16. \A k \in 2 .. Len(script') : script'[k] = l[(d + 1) + k]
    BY <1>13, <1>15
  <1>17. Scripted(w, l)'
    <2>1. PICK e : e = d + 1
      OBVIOUS
    <2>2. /\ e \in Nat /\ e + Len(script') = Len(l) /\ Ends(w, {l[k] : k \in 1 .. e})'
          /\ script' # <<>> => w[at'] \o script'[1] = l[e + 1]
          /\ \A k \in 2 .. Len(script') : script'[k] = l[e + k]
      BY <1>11, <1>12, <1>14, <1>15, <1>16, <2>1
    <2> QED
      BY <1>8, <2>2 DEF Scripted
  <1> QED
    BY <1>10, <1>17

(* What has the same directories at the ends of the same paths.            *)
LEMMA LeadsSame ==
  ASSUME IInv, NEW w, Leads(w), NEW done, Ends(w, done),
         DOMAIN dirs' \subseteq DOMAIN dirs,
         \A n \in DOMAIN dirs \ DOMAIN dirs' : n \notin Roots /\ w[n] \notin done,
         \A n \in DOMAIN dirs' :
           /\ dirs'[n].made = dirs[n].made /\ dirs'[n].id = dirs[n].id
           /\ dirs'[n].up = dirs[n].up \/ {dirs'[n].up, dirs[n].up} \subseteq Roots
  PROVE  Leads(w)' /\ Ends(w, done)' /\ Roots' = Roots
  <1>1. Roots' = Roots
    BY DEF Roots, NoId, newroot
  <1>2. \A n \in DOMAIN dirs' : w[dirs'[n].up] = w[dirs[n].up]
    BY DEF Leads
  <1>3. Leads(w)'
    <2>1. \A n \in DOMAIN dirs' \ Roots : w[n] = Append(w[dirs'[n].up], dirs'[n].made)
      BY <1>2 DEF Leads
    <2>2. Ids' = Ids /\ newroot' = newroot
      BY DEF Ids, newroot
    <2> QED
      BY <1>1, <2>1, <2>2 DEF Leads
  <1>4. \A q \in done : \E n \in DOMAIN dirs' : w[n] = q
    BY DEF Ends
  <1>5. Ends(w, done)'
    BY <1>1, <1>4 DEF Ends, NoId
  <1> QED
    BY <1>1, <1>3, <1>4, <1>5

-----------------------------------------------------------------------------
(* The directories get their names.                                        *)

LEMMA PathsScriptDone ==
  ASSUME IInv, Tidy, Undisturbed, ScriptDone, NEW w, NEW l,
         Leads(w), Lines(l), Len(l) = Len(entries) + 1, Scripted(w, l)
  PROVE  Built(w, l)'
  <1>1. /\ pc = "script" /\ script = <<>> /\ pc' = "rename"
        /\ entries' = entries /\ dirs' = dirs
    BY DEF ScriptDone
  <1>2. Roots = {newroot} /\ Unnamed
    BY <1>1 DEF Scripted, Tidy
  <1>3. Ends(w, {l[k] : k \in 1 .. Len(l)})
    <2>1. PICK d \in Nat : d + Len(script) = Len(l) /\ Ends(w, {l[k] : k \in 1 .. d})
      BY DEF Scripted
    <2>2. d = Len(l)
      BY <1>1, <2>1
    <2> QED
      BY <2>1, <2>2
  <1>4. Roots' = Roots /\ newroot' = newroot /\ Ids' = Ids
    BY <1>1 DEF Roots, NoId, newroot, Ids
  <1>5. Leads(w)' /\ Ends(w, {l[k] : k \in 1 .. Len(l)})'
    BY <1>1, <1>3, <1>4 DEF Leads, Ends, NoId
  <1>6. ASSUME NEW n \in DOMAIN dirs
        PROVE  /\ w[n] = <<RootId>> => dirs[n].up = newroot /\ dirs[n].name = IdName(RootId)
               /\ n \notin Roots
    <2>1. n \notin Roots
      BY <1>2, Basics
    <2>2. ASSUME w[n] = <<RootId>>
          PROVE  dirs[n].up = newroot /\ dirs[n].name = IdName(RootId)
      <3>1. /\ w[dirs[n].up] \in Seq(Ids) /\ Len(w[n]) = Len(w[dirs[n].up]) + 1
            /\ Len(w[dirs[n].up]) \in Nat
            /\ w[n][Len(w[n])] = dirs[n].made
        BY <2>1, LeadsStep
      <3>2. Len(<<RootId>>) = 1 /\ <<RootId>>[1] = RootId
        OBVIOUS
      <3>3. Len(w[dirs[n].up]) = 0 /\ dirs[n].made = RootId
        BY <2>2, <3>1, <3>2
      <3>4. dirs[n].up \in DOMAIN dirs => w[dirs[n].up] # <<>>
        BY <1>2, LeadsStep, Basics
      <3>5. w[dirs[n].up] = <<>>
        BY <3>1, <3>3, EmptySeq
      <3>6. dirs[n].up = newroot
        BY <3>4, <3>5, Basics
      <3> QED
        BY <1>2, <3>3, <3>6 DEF Unnamed
    <2> QED
      BY <2>1, <2>2
  <1>7. RootPlace(w)'
    <2>1. RootId' = RootId /\ newroot' = newroot
      BY DEF RootId, newroot
    <2>2. \A i : IdName(i)' = IdName(i)
      BY DEF IdName
    <2> QED
      BY <1>1, <1>2, <1>4, <1>6, <2>1, <2>2 DEF RootPlace
  <1>8. Lines(l)' /\ Len(l) = Len(entries') + 1
    BY <1>1, LinesSame
  <1> QED
    BY <1>5, <1>7, <1>8 DEF Built

LEMMA PathsDescend ==
  ASSUME IInv, Descend, NEW w, NEW l, Built(w, l)
  PROVE  Built(w, l)'
  <1>1. entries' = entries /\ dirs' = dirs /\ pc = "rename" /\ pc' = "rename"
    BY DEF Descend
  <1>2. Roots' = Roots /\ Ids' = Ids
    BY <1>1 DEF Roots, NoId, newroot, Ids
  <1>3. Leads(w)' /\ Ends(w, {l[k] : k \in 1 .. Len(l)})'
    BY <1>1, <1>2 DEF Built, Leads, Ends, NoId, newroot
  <1>4. RootPlace(w)'
    BY <1>1, <1>2 DEF Built, RootPlace, RootId, newroot, IdName, ProblemDir
  <1>5. Lines(l)'
    BY <1>1, LinesSame DEF Built
  <1> QED
    BY <1>1, <1>3, <1>4, <1>5 DEF Built

LEMMA PathsRename ==
  ASSUME IInv, Undisturbed, Rename, NEW w, NEW l, Built(w, l)
  PROVE  Built(w, l)'
  <1>1. PICK n, done : n = top.dir /\ done = {l[k] : k \in 1 .. Len(l)}
    OBVIOUS
  <1>2. /\ n \in DOMAIN dirs /\ pc = "rename" /\ pc' = "rename" /\ entries' = entries
        /\ EntryOf(dirs[n].name.num) = {} => dirs' = dirs
        /\ EntryOf(dirs[n].name.num) # {} =>
             \E i \in Indices : dirs' = Renamed(n, dirs[n].up, entries[i].name)
    BY <1>1, RenameIs DEF Rename
  <1>3. Leads(w) /\ Ends(w, done) /\ RootPlace(w) /\ Lines(l) /\ Roots = {newroot}
    BY <1>1, <1>2 DEF Built, RootPlace
  <1>4. /\ DOMAIN dirs' \subseteq DOMAIN dirs
        /\ \A m \in DOMAIN dirs \ DOMAIN dirs' : dirs[m].id = NoId
        /\ \A m \in DOMAIN dirs' :
             /\ dirs'[m].up = dirs[m].up /\ dirs'[m].made = dirs[m].made
             /\ dirs'[m].id = dirs[m].id
             /\ dirs'[m].name = dirs[m].name \/ EntryOf(dirs[m].name.num) # {}
    <2>1. CASE dirs' = dirs
      BY <2>1
    <2>2. CASE dirs' # dirs
      <3>1. PICK i \in Indices : dirs' = Renamed(n, dirs[n].up, entries[i].name)
        BY <1>2, <2>2
      <3>2. PICK up, name : up = dirs[n].up /\ name = entries[i].name
        OBVIOUS
      <3>3. TreeOK(dirs) /\ dirs' = Renamed(n, up, name)
        BY <3>1, <3>2, Basics
      <3>4. Replaced(dirs', n, up, name)
        BY <1>2, <2>2, <3>3, RenameOutcome
      <3> QED
        BY <1>2, <2>2, <3>2, <3>4 DEF Replaced
    <2> QED
      BY <2>1, <2>2
  <1>5. ASSUME NEW m \in DOMAIN dirs \ DOMAIN dirs'
        PROVE  m \notin Roots /\ w[m] \notin done
    <2>1. m \in DOMAIN dirs \ Roots /\ dirs[m].id = NoId
      BY <1>3, <1>4, Basics
    <2>2. dirs[m].made # NoId
      BY <2>1 DEF Roots
    <2> QED
      BY <1>3, <2>1, <2>2 DEF Ends
  <1>6. Leads(w)' /\ Ends(w, done)' /\ Roots' = Roots
    BY <1>3, <1>4, <1>5, LeadsSame
  <1>7. RootPlace(w)'
    <2>1. ASSUME NEW m \in DOMAIN dirs', w[m] = <<RootId>>
          PROVE  dirs'[m].up = newroot /\ dirs'[m].name = IdName(RootId)
      <3>1. dirs[m].up = newroot /\ dirs[m].name = IdName(RootId)
        BY <1>2, <1>3, <1>4, <2>1 DEF RootPlace
      <3>2. EntryOf(dirs[m].name.num) = {}
        BY <3>1 DEF Undisturbed, IdName
      <3> QED
        BY <1>4, <3>1, <3>2
    <2>2. RootId' = RootId /\ newroot' = newroot /\ \A i : IdName(i)' = IdName(i)
      BY DEF RootId, newroot, IdName
    <2>3. newroot \notin DOMAIN dirs'
      BY <1>4, Basics
    <2> QED
      BY <1>2, <1>3, <1>6, <2>1, <2>2, <2>3 DEF RootPlace
  <1>8. Lines(l)'
    BY <1>2, <1>3, LinesSame
  <1> QED
    BY <1>1, <1>2, <1>6, <1>7, <1>8 DEF Built

LEMMA PathsStartUnlinkable ==
  ASSUME IInv, Tidy, Undisturbed, StartUnlinkable, NEW w, NEW l, Built(w, l)
  PROVE  \E v : Built(v, l)'
  <1>1. PICK new, done : new = NewDir /\ done = {l[k] : k \in 1 .. Len(l)}
    OBVIOUS
  <1>2. /\ DOMAIN dirs' = DOMAIN dirs \cup {new} /\ new \notin DOMAIN dirs
        /\ \A n \in DOMAIN dirs : dirs'[n] = dirs[n]
        /\ dirs'[new].up = newroot /\ dirs'[new].name = Problem
        /\ dirs'[new].id = NoId /\ dirs'[new].made = NoId
        /\ stack'[1].seen = {IdName(RootId), Problem}
        /\ pc = "rename" /\ pc' = "unlink"
    BY <1>1, StartUnlinkableIs
  <1>3. Leads(w) /\ Ends(w, done) /\ RootPlace(w) /\ Lines(l) /\ Roots = {newroot}
    BY <1>1, <1>2 DEF Built, RootPlace
  <1>4. new # newroot /\ newroot \notin DOMAIN dirs /\ entries' = entries
    BY <1>1, Basics, NewDirIsNew DEF StartUnlinkable
  <1>5. PICK v : v[new] = <<>> /\ \A n \in DOMAIN dirs \cup {newroot} : v[n] = w[n]
    <2> DEFINE u == [n \in DOMAIN dirs \cup {newroot, new} |-> IF n = new THEN <<>> ELSE w[n]]
    <2>1. u[new] = <<>> /\ \A n \in DOMAIN dirs \cup {newroot} : u[n] = w[n]
      BY <1>2, <1>4
    <2> QED
      BY <2>1
  <1>6. Roots' = {newroot, new} /\ newroot' = newroot /\ Ids' = Ids /\ RootId' = RootId
    <2>1. \A n \in DOMAIN dirs : dirs[n].made # NoId
      BY <1>3, <1>4 DEF Roots
    <2> QED
      BY <1>2, <2>1 DEF Roots, NoId, newroot, Ids, RootId
  <1>7. \A n \in DOMAIN dirs : n \in DOMAIN dirs \ Roots /\ n \notin {newroot, new}
    BY <1>2, <1>3, <1>4
  <1>8. Leads(v)'
    <2>1. \A n \in DOMAIN dirs' \cup {newroot} : v[n] \in Seq(Ids)
      <3>1. <<>> \in Seq(Ids)
        OBVIOUS
      <3> QED
        BY <1>2, <1>3, <1>5, <3>1 DEF Leads
    <2>2. \A n \in {newroot, new} : v[n] = <<>>
      BY <1>3, <1>5 DEF Leads
    <2>3. ASSUME NEW n \in DOMAIN dirs
          PROVE  v[n] = Append(v[dirs'[n].up], dirs'[n].made)
      <3>1. w[n] = Append(w[dirs[n].up], dirs[n].made)
        BY <1>3, <1>7 DEF Leads
      <3>2. v[n] = w[n] /\ v[dirs[n].up] = w[dirs[n].up] /\ dirs'[n] = dirs[n]
        BY <1>2, <1>5, Basics
      <3> QED
        BY <3>1, <3>2
    <2>4. \A n, m \in DOMAIN dirs : v[n] = v[m] => n = m
      <3>1. \A n, m \in DOMAIN dirs : w[n] = w[m] => n = m
        BY <1>3, LeadsApart
      <3> QED
        BY <1>5, <3>1
    <2>5. DOMAIN dirs' \ {newroot, new} = DOMAIN dirs
      BY <1>2, <1>4
    <2> QED
      BY <1>6, <2>1, <2>2, <2>3, <2>4, <2>5 DEF Leads
  <1>9. Ends(v, done)'
    <2>1. \A q \in done : \E n \in DOMAIN dirs' : v[n] = q
      BY <1>2, <1>3, <1>5 DEF Ends
    <2>2. \A n \in DOMAIN dirs :
            dirs'[n].id = IF v[n] \in done THEN dirs'[n].made ELSE NoId
      BY <1>2, <1>3, <1>5, <1>7 DEF Ends
    <2> QED
      BY <1>2, <1>6, <2>1, <2>2 DEF Ends, NoId
  <1>10. RootPlace(v)'
    <2>1. new \in ProblemDir'
      BY <1>2 DEF ProblemDir, Children, Problem, newroot
    <2>2. v[new] # <<RootId>>
      <3>1. Len(<<>>) = 0 /\ Len(<<RootId>>) = 1
        OBVIOUS
      <3> QED
        BY <1>5, <3>1
    <2>3. \A i : IdName(i)' = IdName(i)
      BY DEF IdName
    <2>4. ASSUME NEW n \in DOMAIN dirs'
          PROVE  /\ v[n] = <<RootId>> => dirs'[n].up = newroot /\ dirs'[n].name = IdName(RootId)
                 /\ n \in Roots' => n \in ProblemDir'
      <3>1. CASE n = new
        BY <2>1, <2>2, <3>1
      <3>2. CASE n # new
        <4>1. n \in DOMAIN dirs /\ v[n] = w[n] /\ dirs'[n] = dirs[n] /\ n \notin Roots'
          BY <1>2, <1>4, <1>5, <1>6, <3>2
        <4> QED
          BY <1>2, <1>3, <4>1 DEF RootPlace
      <3> QED
        BY <3>1, <3>2
    <2> QED
      BY <1>2, <1>6, <2>3, <2>4 DEF RootPlace
  <1>11. Lines(l)'
    BY <1>3, <1>4, LinesSame
  <1>12. Len(l) = Len(entries') + 1
    BY <1>4 DEF Built
  <1>13. Built(v, l)'
    BY <1>1, <1>8, <1>9, <1>10, <1>11, <1>12 DEF Built
  <1> QED
    BY <1>13

LEMMA PathsUnlinkable ==
  ASSUME IInv, Unlinkable, NEW p \in DOMAIN dirs, Aside(p), NEW w, NEW l, Built(w, l)
  PROVE  Built(w, l)'
  <1>1. PICK done : done = {l[k] : k \in 1 .. Len(l)}
    OBVIOUS
  <1>2. /\ Len(stack) = 1 /\ stack # <<>> /\ pc = "unlink" /\ pc' = "unlink"
        /\ DOMAIN dirs' = DOMAIN dirs /\ entries' = entries
    BY UnlinkableIs DEF Unlinkable
  <1>3. PICK n \in DOMAIN dirs :
          /\ n # p /\ dirs[n].up = newroot /\ dirs[n].name \notin stack[1].seen
          /\ stack' = Seen(n)
          /\ \A m \in DOMAIN dirs : m # n => dirs'[m] = dirs[m]
          /\ dirs'[n].up = p /\ dirs'[n].name = dirs[n].name
          /\ dirs'[n].id = dirs[n].id /\ dirs'[n].made = dirs[n].made
    BY UnlinkableIs
  <1>4. Leads(w) /\ Ends(w, done) /\ RootPlace(w) /\ Lines(l)
    BY <1>1 DEF Built
  <1>5. ProblemDir = {p} /\ p \in Roots /\ newroot \in Roots
    BY OneProblemDir DEF Aside, Roots
  <1>6. /\ DOMAIN dirs' \subseteq DOMAIN dirs
        /\ \A m \in DOMAIN dirs \ DOMAIN dirs' : m \notin Roots /\ w[m] \notin done
        /\ \A m \in DOMAIN dirs' :
             /\ dirs'[m].made = dirs[m].made /\ dirs'[m].id = dirs[m].id
             /\ dirs'[m].up = dirs[m].up \/ {dirs'[m].up, dirs[m].up} \subseteq Roots
    BY <1>2, <1>3, <1>5
  <1>7. Leads(w)' /\ Ends(w, done)' /\ Roots' = Roots
    BY <1>4, <1>6, LeadsSame
  <1>8. RootPlace(w)'
    <2>1. stack'[1].seen = stack[1].seen \cup {dirs[n].name}
      BY <1>2, <1>3, SeenFrames
    <2>2. IdName(RootId) \in stack[1].seen
      BY <1>2, <1>4 DEF RootPlace
    <2>3. p \in ProblemDir'
      BY AsideStays DEF Aside
    <2>4. ASSUME NEW m \in DOMAIN dirs'
          PROVE  /\ w[m] = <<RootId>> => dirs'[m].up = newroot /\ dirs'[m].name = IdName(RootId)
                 /\ m \in Roots => m \in ProblemDir'
      <3>1. /\ w[m] = <<RootId>> => dirs[m].up = newroot /\ dirs[m].name = IdName(RootId)
            /\ m \in Roots => m = p
        BY <1>2, <1>4, <1>5 DEF RootPlace
      <3>2. w[m] = <<RootId>> => m # n
        BY <1>3, <2>2, <3>1
      <3> QED
        BY <1>2, <1>3, <2>3, <3>1, <3>2
    <2>5. RootId' = RootId /\ newroot' = newroot /\ \A i : IdName(i)' = IdName(i)
      BY DEF RootId, newroot, IdName
    <2> QED
      BY <1>2, <1>7, <2>1, <2>2, <2>4, <2>5 DEF RootPlace
  <1>9. Lines(l)'
    BY <1>2, <1>4, LinesSame
  <1> QED
    BY <1>1, <1>2, <1>7, <1>8, <1>9 DEF Built

LEMMA PathsRecovered ==
  ASSUME IInv, Recovered, NEW p \in DOMAIN dirs, Aside(p), NEW w, NEW l, Built(w, l)
  PROVE  Built(w, l)'
  <1>1. PICK done : done = {l[k] : k \in 1 .. Len(l)}
    OBVIOUS
  <1>2. /\ \A c \in Children(dirs, newroot) : c = p \/ dirs[c].name = IdName(RootId)
        /\ DOMAIN dirs' = DOMAIN dirs /\ dirs'[p] = dirs[p]
        /\ \A n \in DOMAIN dirs :
             IF dirs[n].up = newroot /\ dirs[n].name = IdName(RootId)
             THEN /\ dirs'[n].up = newroot /\ dirs'[n].name = Plain("recovered")
                  /\ dirs'[n].id = dirs[n].id /\ dirs'[n].made = dirs[n].made
             ELSE dirs'[n] = dirs[n]
        /\ pc = "unlink" /\ pc' = "step4_done" /\ entries' = entries
    BY RecoveredIs DEF Recovered
  <1>3. Leads(w) /\ Ends(w, done) /\ RootPlace(w) /\ Lines(l)
    BY <1>1 DEF Built
  <1>4. ProblemDir = {p} /\ dirs[p].up = newroot /\ dirs[p].name = Problem /\ p \in Roots
    BY OneProblemDir DEF Aside, Roots
  <1>5. \A n \in DOMAIN dirs : dirs'[n].up = dirs[n].up /\ dirs'[n].made = dirs[n].made
                               /\ dirs'[n].id = dirs[n].id
    BY <1>2
  <1>6. Leads(w)' /\ Ends(w, done)' /\ Roots' = Roots
    BY <1>2, <1>3, <1>5, LeadsSame
  <1>7. PICK r \in DOMAIN dirs : w[r] = <<RootId>>
    <2>1. 1 \in 1 .. Len(l) /\ l[1] = <<RootId>>
      <3>1. Len(l) \in Nat /\ Len(l) >= 1
        BY <1>3 DEF Lines
      <3> QED
        BY <1>3, <3>1 DEF Lines
    <2>2. <<RootId>> \in done
      BY <1>1, <2>1
    <2> QED
      BY <1>3, <2>2 DEF Ends
  <1>8. dirs[r].up = newroot /\ dirs[r].name = IdName(RootId)
    BY <1>2, <1>3, <1>7 DEF RootPlace
  <1>9. RootPlace(w)'
    <2>1. ASSUME NEW n \in DOMAIN dirs
          PROVE  /\ w[n] = <<RootId>> => dirs'[n].up = newroot /\ dirs'[n].name = Plain("recovered")
                 /\ n \in Roots => n \in ProblemDir'
                 /\ dirs'[n].up = newroot => w[n] = <<RootId>> \/ n \in Roots
      <3>1. w[n] = <<RootId>> => dirs[n].up = newroot /\ dirs[n].name = IdName(RootId)
        BY <1>2, <1>3 DEF RootPlace
      <3>2. n \in Roots => n = p
        BY <1>3, <1>4 DEF RootPlace
      <3>3. p \in ProblemDir'
        BY <1>2, <1>4 DEF ProblemDir, Children, Problem, newroot
      <3>4. dirs[n].up = newroot /\ dirs[n].name = IdName(RootId) => n = r
        BY <1>8, Basics DEF TreeOK
      <3>5. dirs'[n].up = newroot => n = p \/ n = r
        BY <1>2, <1>5, <3>4 DEF Children
      <3> QED
        BY <1>2, <1>4, <1>7, <3>1, <3>2, <3>3, <3>5
    <2>2. RootId' = RootId /\ newroot' = newroot /\ Plain("recovered")' = Plain("recovered")
      BY DEF RootId, newroot, Plain
    <2> QED
      BY <1>2, <1>6, <2>1, <2>2 DEF RootPlace
  <1>10. Lines(l)'
    BY <1>2, <1>3, LinesSame
  <1> QED
    BY <1>1, <1>2, <1>6, <1>9, <1>10 DEF Built

-----------------------------------------------------------------------------
LEMMA PathsInit == Init => PathsInv
  BY DEF Init, Init4, PathsInv

LEMMA PathsNext ==
  ASSUME IInv, Tidy, PathsInv, [Next]_vars
  PROVE  PathsInv'
  <1>1. CASE UNCHANGED vars
    <2>1. UNCHANGED <<entries, dirs, stack, pc, path, id, script, at, repeats>>
      BY <1>1 DEF vars, vars4
    <2>2. (Undisturbed' <=> Undisturbed) /\ Ids' = Ids /\ Roots' = Roots
      BY <2>1 DEF Undisturbed, EntryOf, Indices, Ids, Roots, NoId, newroot
    <2>3. \A l : Lines(l)' <=> Lines(l)
      BY <2>1, LinesSame
    <2>4. ASSUME pc' = "paths", Undisturbed'
          PROVE  Climbing(Len(script))' /\ Lines(script)'
      <3>1. PICK i, l, p, x : i = Len(script) /\ l = script /\ p = path /\ x = id
        OBVIOUS
      <3>2. Climbing(i) /\ Lines(l)
        BY <2>1, <2>2, <2>4, <3>1 DEF PathsInv
      <3>3. Climbing(i)'
        BY <2>1, <3>2 DEF Climbing, Lineage, Indices, EntryOf, Ids, NoId, RootId
      <3> QED
        BY <2>1, <2>3, <3>1, <3>2, <3>3
    <2>5. \A w : Leads(w) => Leads(w)'
      BY <2>1, <2>2 DEF Leads, newroot
    <2>6. \A w, d : Ends(w, d) => Ends(w, d)'
      BY <2>1, <2>2 DEF Ends, NoId
    <2>7. \A w, l : Scripted(w, l) => Scripted(w, l)'
      BY <2>1, <2>2, <2>6 DEF Scripted, newroot
    <2>8. \A w : RootPlace(w) => RootPlace(w)'
      BY <2>1, <2>2 DEF RootPlace, newroot, RootId, IdName, ProblemDir
    <2>9. \A w, l : Built(w, l) => Built(w, l)'
      BY <2>1, <2>3, <2>5, <2>6, <2>8 DEF Built
    <2> QED
      BY <2>1, <2>2, <2>3, <2>4, <2>5, <2>7, <2>9 DEF PathsInv
  <1>2. ASSUME Next, Undisturbed'
        PROVE  /\ pc' = "paths" => Climbing(Len(script))' /\ Lines(script)'
               /\ pc' = "script" =>
                    \E w, l : Leads(w)' /\ Lines(l)' /\ Len(l) = Len(entries') + 1 /\ Scripted(w, l)'
               /\ pc' \in {"rename", "unlink", "step4_done"} => \E w, l : Built(w, l)'
    <2>1. Undisturbed /\ Distinct /\ entries' = entries
      BY <1>2, Undisturbed4 DEF Tidy
    <2>2. ASSUME pc' = "paths"
          PROVE  Climbing(Len(script))' /\ Lines(script)'
      <3>1. CASE Load
        BY <2>1, <2>2, <3>1, PathsLoad
      <3>2. CASE PathDone
        BY <2>1, <2>2, <3>2, PathsPathDone DEF PathsInv, PathDone
      <3>3. CASE Climb
        <4>1. PICK i, l : i = Len(script) /\ l = script
          OBVIOUS
        <4>2. Climbing(i) /\ Lines(l) /\ script' = script
          BY <2>1, <3>3, <4>1 DEF PathsInv, Climb
        <4>3. Climbing(i)'
          BY <2>1, <3>3, <4>2, PathsClimb
        <4>4. Lines(l)'
          BY <2>1, <4>2, LinesSame
        <4> QED
          BY <4>1, <4>2, <4>3, <4>4
      <3> QED
        BY <1>2, <2>2, <3>1, <3>2, <3>3, Leading
    <2>3. ASSUME pc' = "script"
          PROVE  \E w, l : Leads(w)' /\ Lines(l)' /\ Len(l) = Len(entries') + 1 /\ Scripted(w, l)'
      <3>1. CASE Load \/ PathDone
        BY <2>1, <2>3, <3>1, PathsToScript
      <3>2. CASE Mkdir \/ Echo
        <4>1. PICK w, l : Leads(w) /\ Lines(l) /\ Len(l) = Len(entries) + 1 /\ Scripted(w, l)
          BY <2>1, <3>2 DEF PathsInv, Mkdir, Echo
        <4>2. Unnamed
          BY <2>1, <3>2 DEF Tidy, Mkdir, Echo
        <4>3. \E v : Leads(v)' /\ Scripted(v, l)'
          BY <2>1, <3>2, <4>1, <4>2, PathsMkdir, PathsEcho
        <4>4. Lines(l)' /\ Len(l) = Len(entries') + 1
          BY <2>1, <4>1, LinesSame
        <4> QED
          BY <4>3, <4>4
      <3> QED
        BY <1>2, <2>3, <3>1, <3>2, Leading
    <2>4. ASSUME pc' \in {"rename", "unlink", "step4_done"}
          PROVE  \E w, l : Built(w, l)'
      <3>1. CASE ScriptDone
        <4>1. PICK w, l : Leads(w) /\ Lines(l) /\ Len(l) = Len(entries) + 1 /\ Scripted(w, l)
          BY <2>1, <3>1 DEF PathsInv, ScriptDone
        <4>2. Built(w, l)'
          BY <2>1, <3>1, <4>1, PathsScriptDone
        <4> QED
          BY <4>2
      <3>2. CASE Descend \/ Rename \/ StartUnlinkable
        <4>1. PICK w, l : Built(w, l)
          BY <2>1, <3>2 DEF PathsInv, Descend, Rename, StartUnlinkable
        <4> QED
          BY <2>1, <3>2, <4>1, PathsDescend, PathsRename, PathsStartUnlinkable
      <3>3. CASE Unlinkable \/ Recovered
        <4>1. pc = "unlink"
          BY <3>3 DEF Unlinkable, Recovered
        <4>2. PICK w, l : Built(w, l)
          BY <2>1, <4>1 DEF PathsInv
        <4>3. PICK p \in DOMAIN dirs : Aside(p)
          BY <2>1, <4>1 DEF Tidy
        <4> QED
          BY <3>3, <4>2, <4>3, PathsUnlinkable, PathsRecovered
      <3> QED
        BY <1>2, <2>4, <3>1, <3>2, <3>3, Leading
    <2> QED
      BY <2>2, <2>3, <2>4
  <1> QED
    BY <1>1, <1>2 DEF PathsInv

-----------------------------------------------------------------------------
(* The tree is the one of the table.                                       *)

(* Who goes up from a directory comes to the first folder of its path.     *)
LEMMA GoesUp ==
  ASSUME IInv, NEW w, Leads(w), NEW S, S \subseteq DOMAIN dirs \cup {newroot},
         \A o \in S \ {newroot} : dirs[o].up \in S, NEW x \in S \ Roots
  PROVE  \E y \in S \ Roots : Len(w[y]) = 1 /\ w[y][1] = w[x][1]
  <1> DEFINE R == {y \in S \ Roots : w[y][1] = w[x][1]}
             L == {Len(w[y]) : y \in R}
  <1>1. \A y \in R : y \in DOMAIN dirs \ Roots
    BY DEF Roots
  <1>2. \A y \in R : Len(w[y]) \in Nat
    BY <1>1, LeadsStep
  <1>3. L \subseteq Nat /\ L # {}
    BY <1>2
  <1>4. PICK m \in L : \A k \in L : m <= k
    <2> HIDE DEF L
    <2> QED
      BY <1>3, SmallestOf
  <1>5. PICK y \in R : m = Len(w[y])
    OBVIOUS
  <1>6. PICK up : up = dirs[y].up
    OBVIOUS
  <1>7. /\ up \in S /\ Len(w[up]) \in Nat /\ Len(w[y]) = Len(w[up]) + 1
        /\ w[up] \in Seq(Ids)
        /\ \A k \in 1 .. Len(w[up]) : w[y][k] = w[up][k]
    <2>1. y \in DOMAIN dirs \ Roots /\ y \in S /\ y # newroot
      BY <1>1 DEF Roots
    <2> HIDE DEF R, L
    <2> QED
      BY <1>6, <2>1, LeadsStep
  <1>8. Len(w[up]) = 0
    <2> SUFFICES ASSUME Len(w[up]) # 0
                 PROVE  FALSE
      BY <1>7
    <2>1. up \notin Roots
      <3>1. Len(<<>>) = 0
        OBVIOUS
      <3> QED
        BY <3>1 DEF Leads
    <2>2. 1 \in 1 .. Len(w[up]) /\ w[up][1] = w[y][1]
      BY <1>7
    <2>3. up \in R
      BY <1>7, <2>1, <2>2
    <2>4. Len(w[up]) \in L
      BY <2>3
    <2> HIDE DEF L, R
    <2> QED
      BY <1>4, <1>5, <1>7, <2>4
  <1>9. Len(w[y]) = 1
    BY <1>7, <1>8
  <1> QED
    BY <1>9

(* The paths from the root are those of the folders that it is reached     *)
(* from.                                                                   *)
LEMMA ReachesIs ==
  ASSUME IInv, NEW i \in Indices, NEW q, PathOf(i, q)
  PROVE  Reaches(i) <=> q[1] = RootId
  <1> DEFINE F == {RootId} \cup {entries[j].folder : j \in Indices}
  <1>1. q \in Seq(Nat) /\ Len(q) \in Nat /\ Len(q) > 1 /\ Len(q) <= MaxDepth
    BY DEF PathOf, Ids
  <1>2. F \subseteq Nat /\ MaxDepth \in Nat
    BY EntryTyped, Sizes DEF RootId, Ids
  <1>3. SeqOf(F, MaxDepth) = UNION {[1 .. m -> F] : m \in 0 .. MaxDepth}
    BY DEF SeqOf
  <1>4. ASSUME Reaches(i)
        PROVE  q[1] = RootId
    <2>1. PICK p \in SeqOf(F, MaxDepth) : FromRoot(p) /\ Last(p) = entries[i].folder
      BY <1>4 DEF Reaches
    <2> HIDE DEF F
    <2>2. PICK m \in 0 .. MaxDepth : p \in [1 .. m -> F]
      BY <1>3, <2>1
    <2>3. p \in Seq(Nat) /\ Len(p) = m /\ m <= MaxDepth
      <3>1. m \in Nat /\ m <= MaxDepth
        BY <1>2
      <3>2. p \in [1 .. m -> Nat]
        BY <1>2, <2>2
      <3> QED
        BY <3>1, <3>2
    <2>4. p[Len(p)] = entries[i].folder
      BY <2>1 DEF Last
    <2>5. p = q
      BY <1>2, <2>1, <2>3, <2>4 DEF PathOf
    <2> QED
      BY <2>1, <2>5 DEF FromRoot
  <1>5. ASSUME q[1] = RootId
        PROVE  Reaches(i)
    <2>1. FromRoot(q)
      BY <1>5 DEF PathOf
    <2>2. ASSUME NEW k \in 1 .. Len(q)
          PROVE  q[k] \in F
      <3>1. CASE k = 1
        BY <1>5, <3>1
      <3>2. CASE k # 1
        <4>1. k \in 2 .. Len(q)
          BY <1>1, <3>2
        <4>2. PICK j \in EntryOf(q[k]) : TRUE
          BY <2>1, <4>1 DEF FromRoot
        <4> QED
          BY <4>2 DEF EntryOf
      <3> QED
        BY <3>1, <3>2
    <2> HIDE DEF F
    <2>3. q \in [1 .. Len(q) -> F]
      BY <1>1, <2>2
    <2>4. q \in SeqOf(F, MaxDepth)
      <3>1. Len(q) \in 0 .. MaxDepth
        BY <1>1, <1>2
      <3> QED
        BY <1>3, <2>3, <3>1
    <2>5. Last(q) = entries[i].folder
      BY DEF Last, PathOf
    <2> QED
      BY <2>1, <2>4, <2>5 DEF Reaches, F
  <1> QED
    BY <1>4, <1>5

(* The one directory with the id of a folder.                              *)
LEMMA OneMarked ==
  ASSUME IInv, Undisturbed, Distinct, NEW w, NEW l, Built(w, l),
         NEW i \in Indices, NEW n \in DOMAIN dirs, w[n] = l[i + 1]
  PROVE  /\ n \notin Roots /\ PathOf(i, w[n])
         /\ dirs[n].made = entries[i].folder
         /\ {m \in DOMAIN dirs : dirs[m].id = entries[i].folder} = {n}
  <1>1. PICK done : done = {l[k] : k \in 1 .. Len(l)}
    OBVIOUS
  <1>2. Leads(w) /\ Ends(w, done) /\ Lines(l) /\ Len(l) = Len(entries) + 1
    BY <1>1 DEF Built
  <1>3. i \in 1 .. Len(entries) /\ Len(entries) \in Nat /\ entries[i].folder \in Ids
    BY EntryTyped
  <1>4. i + 1 \in 2 .. Len(l) /\ (i + 1) - 1 = i /\ i + 1 \in 1 .. Len(l)
    BY <1>2, <1>3
  <1>5. PathOf(i, w[n])
    BY <1>2, <1>4 DEF Lines
  <1>6. n \in DOMAIN dirs \ Roots
    <2>1. Len(w[n]) > 1 /\ Len(<<>>) = 0
      BY <1>5 DEF PathOf
    <2> QED
      BY <1>2, <2>1 DEF Leads
  <1>7. w[n] \in done
    BY <1>1, <1>4
  <1>8. dirs[n].made = entries[i].folder
    BY <1>2, <1>5, <1>6, LeadsStep DEF PathOf
  <1>9. dirs[n].id = entries[i].folder
    BY <1>2, <1>6, <1>7, <1>8 DEF Ends
  <1>10. ASSUME NEW m \in DOMAIN dirs, dirs[m].id = entries[i].folder
         PROVE  m = n
    <2>1. dirs[m].id # NoId
      BY <1>3, <1>10 DEF Ids, NoId
    <2>2. m \in DOMAIN dirs \ Roots
      <3>1. IdKnown(dirs[m]) /\ m # newroot
        BY Basics DEF TreeOK
      <3> QED
        BY <2>1, <3>1 DEF Roots, IdKnown
    <2>3. w[m] \in done /\ dirs[m].made = entries[i].folder
      BY <1>2, <1>10, <2>1, <2>2 DEF Ends
    <2>4. PICK k \in 1 .. Len(l) : w[m] = l[k]
      BY <1>1, <2>3
    <2>5. w[m][Len(w[m])] = entries[i].folder
      BY <1>2, <2>2, <2>3, LeadsStep
    <2>6. k # 1
      <3> SUFFICES ASSUME k = 1
                   PROVE  FALSE
        OBVIOUS
      <3>1. w[m] = <<RootId>>
        BY <1>2, <2>4 DEF Lines
      <3>2. Len(<<RootId>>) = 1 /\ <<RootId>>[1] = RootId
        OBVIOUS
      <3>3. entries[i].folder = RootId
        BY <2>5, <3>1, <3>2
      <3> QED
        BY <3>3 DEF Undisturbed, EntryOf
    <2>7. k \in 2 .. Len(l) /\ k - 1 \in Indices /\ (k - 1) + 1 = k
      <3>1. Indices = 1 .. Len(entries)
        BY EntryTyped
      <3> QED
        BY <1>2, <1>3, <2>6, <3>1
    <2>8. w[m][Len(w[m])] = entries[k - 1].folder
      BY <1>2, <2>4, <2>7 DEF Lines, PathOf
    <2>9. k - 1 = i
      BY <2>5, <2>7, <2>8 DEF Distinct
    <2>10. w[m] = w[n]
      BY <2>4, <2>7, <2>9
    <2> QED
      BY <1>2, <1>6, <2>2, <2>10 DEF Leads
  <1> QED
    BY <1>5, <1>6, <1>8, <1>9, <1>10

LEMMA FolderPlaced ==
  ASSUME IInv, Tidy, Undisturbed, pc = "step4_done", NEW w, NEW l, Built(w, l),
         NEW i \in Indices
  PROVE  \E n \in DOMAIN dirs :
           /\ {m \in DOMAIN dirs : dirs[m].id = entries[i].folder} = {n}
           /\ dirs[n].up # newroot
           /\ dirs[dirs[n].up].made = entries[i].parent
           /\ IF Reaches(i)
              THEN /\ dirs[dirs[n].up].id = entries[i].parent
                   /\ \E m \in Children(dirs, newroot) :
                        dirs[m].name = Plain("recovered") /\ Below(n, m)
              ELSE \E m \in ProblemDir : Below(n, m)
  <1>1. PICK done : done = {l[k] : k \in 1 .. Len(l)}
    OBVIOUS
  <1>2. /\ Leads(w) /\ Ends(w, done) /\ Lines(l) /\ Len(l) = Len(entries) + 1
        /\ RootPlace(w) /\ Distinct
    BY <1>1 DEF Built, Tidy
  <1>3. i \in 1 .. Len(entries) /\ Len(entries) \in Nat /\ Indices = 1 .. Len(entries)
    BY EntryTyped
  <1>4. ASSUME NEW j \in Indices
        PROVE  l[j + 1] \in done
    <2>1. j + 1 \in 1 .. Len(l)
      BY <1>2, <1>3
    <2> QED
      BY <1>1, <2>1
  <1>5. PICK n \in DOMAIN dirs : w[n] = l[i + 1]
    BY <1>2, <1>4 DEF Ends
  <1>6. /\ n \notin Roots /\ PathOf(i, w[n]) /\ dirs[n].made = entries[i].folder
        /\ {m \in DOMAIN dirs : dirs[m].id = entries[i].folder} = {n}
    BY <1>2, <1>5, OneMarked
  <1>7. PICK up, q : up = dirs[n].up /\ q = w[n]
    OBVIOUS
  <1>8. /\ q \in Seq(Ids) /\ Len(q) > 1 /\ Len(q) <= MaxDepth /\ MaxDepth \in Nat
        /\ q[Len(q)] = entries[i].folder /\ q[Len(q) - 1] = entries[i].parent
        /\ q[1] = RootId => FromRoot(q)
    BY <1>6, <1>7, Sizes DEF PathOf
  <1>9. /\ w[up] \in Seq(Ids) /\ Len(w[up]) \in Nat /\ Len(q) = Len(w[up]) + 1
        /\ \A k \in 1 .. Len(w[up]) : q[k] = w[up][k]
    BY <1>2, <1>6, <1>7, LeadsStep
  <1>10. Len(w[up]) # 0 /\ Len(w[up]) \in 1 .. Len(w[up]) /\ Len(q) - 1 = Len(w[up])
         /\ 1 \in 1 .. Len(w[up])
    BY <1>8, <1>9
  <1>11. up \in DOMAIN dirs /\ up \notin Roots /\ up # newroot
    <2>1. Len(<<>>) = 0
      OBVIOUS
    <2>2. up \notin Roots
      BY <1>2, <1>10, <2>1 DEF Leads
    <2> QED
      BY <1>7, <2>2, Basics DEF Roots
  <1>12. /\ w[up][Len(w[up])] = dirs[up].made /\ w[up][1] = q[1]
         /\ dirs[up].made = entries[i].parent
    <2>1. w[up][Len(w[up])] = dirs[up].made
      BY <1>2, <1>11, LeadsStep
    <2>2. w[up][Len(w[up])] = q[Len(w[up])] /\ w[up][1] = q[1]
      BY <1>9, <1>10
    <2> QED
      BY <1>8, <1>10, <2>1, <2>2
  <1>13. Reaches(i) <=> q[1] = RootId
    BY <1>6, <1>7, ReachesIs
  <1>14. ASSUME NEW S \in SUBSET (DOMAIN dirs \cup {newroot}),
                up \in S, \A o \in S \ {newroot} : dirs[o].up \in S
         PROVE  \E y \in S \ Roots : w[y] = <<q[1]>>
    <2>1. PICK y \in S \ Roots : Len(w[y]) = 1 /\ w[y][1] = q[1]
      <3>1. up \in S \ Roots
        BY <1>11, <1>14
      <3> QED
        BY <1>2, <1>12, <1>14, <3>1, GoesUp
    <2>2. PICK s, e : s = w[y] /\ e = q[1]
      OBVIOUS
    <2>3. y \in DOMAIN dirs \ Roots
      BY <2>1 DEF Roots
    <2>4. s \in Seq(Ids) /\ Len(s) = 1 /\ s[1] = e /\ e \in Ids
      BY <1>8, <1>2, <2>1, <2>2, <2>3, LeadsStep
    <2>5. s = <<e>>
      <3>1. PICK T : T = Ids
        OBVIOUS
      <3>2. s \in Seq(T) /\ e \in T /\ <<e>> \in Seq(T) /\ Len(<<e>>) = 1 /\ <<e>>[1] = e
        BY <2>4, <3>1
      <3>3. \A k \in 1 .. Len(s) : s[k] = <<e>>[k]
        BY <2>4, <3>2
      <3> QED
        BY <2>4, <3>2, <3>3, SeqEqual
    <2> QED
      BY <2>1, <2>2, <2>5
  <1>15. ASSUME q[1] = RootId
         PROVE  /\ dirs[up].id = entries[i].parent
                /\ \E m \in Children(dirs, newroot) :
                     dirs[m].name = Plain("recovered") /\ Below(n, m)
    <2>1. FromRoot(q)
      BY <1>8, <1>15
    <2>2. w[up] \in done
      <3>1. PICK f : f = w[up]
        OBVIOUS
      <3>2. CASE Len(f) = 1
        <4>1. f \in Seq(Ids) /\ f[1] = RootId /\ RootId \in Ids
          BY <1>9, <1>12, <1>15, <3>1 DEF RootId, Ids
        <4>2. PICK T, e : T = Ids /\ e = RootId
          OBVIOUS
        <4>3. f \in Seq(T) /\ <<e>> \in Seq(T) /\ Len(<<e>>) = 1 /\ <<e>>[1] = e
          BY <4>1, <4>2
        <4>4. \A k \in 1 .. Len(f) : f[k] = <<e>>[k]
          BY <3>2, <4>1, <4>2, <4>3
        <4>5. f = <<RootId>>
          BY <3>2, <4>2, <4>3, <4>4, SeqEqual
        <4>6. l[1] = <<RootId>> /\ 1 \in 1 .. Len(l)
          BY <1>2, <1>3 DEF Lines
        <4> QED
          BY <1>1, <3>1, <4>5, <4>6
      <3>3. CASE Len(f) # 1
        <4>1. /\ Len(f) \in 2 .. Len(q) /\ Len(f) \in Nat /\ Len(f) > 1 /\ Len(f) <= MaxDepth
              /\ \A k \in 2 .. Len(f) : k \in 2 .. Len(q) /\ k - 1 \in 1 .. Len(f) /\ k \in 1 .. Len(f)
          <5>1. PICK a, b, c : a = Len(f) /\ b = Len(q) /\ c = MaxDepth
            OBVIOUS
          <5>2. a \in Nat /\ a # 0 /\ a # 1 /\ b = a + 1 /\ c \in Nat /\ b <= c
            BY <1>8, <1>9, <1>10, <3>1, <3>3, <5>1
          <5>3. /\ a \in 2 .. b /\ a > 1 /\ a <= c
                /\ \A k \in 2 .. a : k \in 2 .. b /\ k - 1 \in 1 .. a /\ k \in 1 .. a
            BY <5>2
          <5> QED
            BY <5>1, <5>2, <5>3
        <4>2. f[Len(f)] = entries[i].parent /\ q[Len(f)] = entries[i].parent
          BY <1>8, <1>10, <1>12, <3>1
        <4>3. PICK j \in EntryOf(entries[i].parent) : TRUE
          BY <2>1, <4>1, <4>2 DEF FromRoot
        <4>4. j \in Indices /\ entries[j].folder = f[Len(f)]
          BY <4>2, <4>3 DEF EntryOf
        <4>5. FromRoot(f)
          <5>1. f # <<>> /\ f[1] = RootId
            BY <1>12, <1>15, <3>1, <4>1
          <5>2. \A k \in 2 .. Len(f) : f[k] = q[k] /\ f[k - 1] = q[k - 1]
            BY <1>9, <3>1, <4>1
          <5>3. \A k \in 2 .. Len(f) : \E x \in EntryOf(f[k]) : entries[x].parent = f[k - 1]
            BY <2>1, <4>1, <5>2 DEF FromRoot
          <5> QED
            BY <5>1, <5>3 DEF FromRoot
        <4>6. PathOf(j, l[j + 1])
          <5>1. j + 1 \in 2 .. Len(l) /\ (j + 1) - 1 = j
            BY <1>2, <1>3, <4>4
          <5> QED
            BY <1>2, <5>1 DEF Lines
        <4>7. f \in Seq(Nat)
          BY <1>9, <3>1 DEF Ids
        <4>8. f = l[j + 1]
          BY <4>1, <4>4, <4>5, <4>6, <4>7 DEF PathOf
        <4> QED
          BY <1>4, <3>1, <4>4, <4>8
      <3> QED
        BY <3>2, <3>3
    <2>3. dirs[up].id = entries[i].parent
      BY <1>2, <1>11, <1>12, <2>2 DEF Ends
    <2>4. PICK m \in DOMAIN dirs : w[m] = <<RootId>>
      <3>1. l[1] = <<RootId>> /\ 1 \in 1 .. Len(l)
        BY <1>2, <1>3 DEF Lines
      <3>2. <<RootId>> \in done
        BY <1>1, <3>1
      <3> QED
        BY <1>2, <3>2 DEF Ends
    <2>5. m \in Children(dirs, newroot) /\ dirs[m].name = Plain("recovered")
      BY <1>2, <2>4 DEF RootPlace, Children
    <2>6. m \notin Roots
      <3>1. Len(<<>>) = 0 /\ Len(<<RootId>>) = 1
        OBVIOUS
      <3>2. <<RootId>> # <<>>
        BY <3>1
      <3>3. \A x \in Roots : w[x] = <<>>
        BY <1>2 DEF Leads
      <3> QED
        BY <2>4, <3>2, <3>3
    <2>7. ASSUME NEW S \in SUBSET (DOMAIN dirs \cup {newroot}),
                 dirs[n].up \in S, \A o \in S \ {newroot} : dirs[o].up \in S
          PROVE  m \in S
      <3>1. PICK y \in S \ Roots : w[y] = <<RootId>>
        BY <1>7, <1>14, <1>15, <2>7
      <3>2. y \in DOMAIN dirs \ Roots
        BY <3>1 DEF Roots
      <3>3. y = m
        BY <1>2, <2>4, <2>6, <3>1, <3>2 DEF Leads
      <3> QED
        BY <3>1, <3>3
    <2>8. Below(n, m)
      BY <2>7 DEF Below
    <2> QED
      BY <2>3, <2>5, <2>8
  <1>16. ASSUME q[1] # RootId
         PROVE  \E m \in ProblemDir : Below(n, m)
    <2>1. ASSUME NEW S \in SUBSET (DOMAIN dirs \cup {newroot}),
                 up \in S, \A o \in S \ {newroot} : dirs[o].up \in S
          PROVE  \E m \in ProblemDir : m \in S
      <3>1. PICK y \in S \ Roots : w[y] = <<q[1]>>
        BY <1>14, <2>1
      <3>2. y \in DOMAIN dirs \ Roots /\ y # newroot
        BY <3>1 DEF Roots
      <3>3. PICK e, m : e = q[1] /\ m = dirs[y].up
        OBVIOUS
      <3>4. Len(<<e>>) = 1 /\ <<e>>[1] = e /\ <<RootId>>[1] = RootId
        OBVIOUS
      <3>5. w[y] # <<RootId>>
        BY <1>16, <3>1, <3>3, <3>4
      <3>6. m # newroot
        BY <1>2, <3>2, <3>3, <3>5 DEF RootPlace
      <3>7. m \in S /\ m \in DOMAIN dirs
        BY <2>1, <3>1, <3>2, <3>3, <3>6
      <3>8. Len(w[m]) = 0
        BY <1>2, <3>1, <3>2, <3>3, <3>4, LeadsStep
      <3>9. m \in Roots
        <4> SUFFICES ASSUME m \notin Roots
                     PROVE  FALSE
          OBVIOUS
        <4>1. Len(w[m]) = Len(w[dirs[m].up]) + 1 /\ Len(w[dirs[m].up]) \in Nat
          BY <1>2, <3>7, LeadsStep
        <4> QED
          BY <3>8, <4>1
      <3>10. m \in ProblemDir
        BY <1>2, <3>7, <3>9 DEF RootPlace
      <3> QED
        BY <3>7, <3>10
    <2>2. PICK m \in ProblemDir : TRUE
      <3>1. PICK A : A = DOMAIN dirs \cup {newroot}
        OBVIOUS
      <3>2. A \in SUBSET (DOMAIN dirs \cup {newroot}) /\ up \in A
            /\ \A o \in A \ {newroot} : dirs[o].up \in A
        BY <1>11, <3>1, Basics
      <3> QED
        BY <2>1, <3>2
    <2>3. ProblemDir = {m}
      BY OneProblemDir
    <2>4. Below(n, m)
      BY <1>7, <2>1, <2>3 DEF Below
    <2> QED
      BY <2>4
  <1> QED
    BY <1>6, <1>7, <1>11, <1>12, <1>13, <1>15, <1>16

LEMMA NamesGiven ==
  ASSUME IInv, Tidy, NamesInv
  PROVE  NamesRight
  <1> SUFFICES ASSUME pc = "step4_done", Undisturbed, NoNumbers,
                      NEW n \in DOMAIN dirs, NEW i \in Indices,
                      dirs[n].made = entries[i].folder
               PROVE  \/ dirs[n].name = entries[i].name
                      \/ /\ dirs[n].name = IdName(dirs[n].made)
                         /\ \E m \in Children(dirs, dirs[n].up) : dirs[m].name = entries[i].name
    BY DEF NamesRight
  <1>1. i \in EntryOf(dirs[n].made)
    BY DEF EntryOf
  <1>2. Settled(n)
    BY DEF NamesInv
  <1> QED
    BY <1>1, <1>2 DEF Settled

(* For every table and every order in which directories are read, step 4,  *)
(* when nothing disturbs it, builds the tree of the table: each folder has *)
(* one directory with its id, in its parent's below "recovered" when its   *)
(* parents lead to the root, and else below "x_directory_problem"; and it  *)
(* has its name, or its id when a directory beside it has the name.        *)
THEOREM FoldersInPlace == Spec => []FoldersPlaced
  <1>1. Init => Tidy /\ NamesInv /\ PathsInv
    BY TidyInit, NamesInit, PathsInit
  <1>2. IInv /\ (Tidy /\ NamesInv /\ PathsInv) /\ [Next]_vars
          => (Tidy /\ NamesInv /\ PathsInv)'
    BY TidyNext, NamesNext, PathsNext
  <1>3. IInv /\ (Tidy /\ NamesInv /\ PathsInv) => FoldersPlaced
    <2> SUFFICES ASSUME IInv, Tidy, NamesInv, PathsInv
                 PROVE  FoldersPlaced
      OBVIOUS
    <2>1. TreeRight
      <3> SUFFICES ASSUME pc = "step4_done", Undisturbed, NEW i \in Indices
                   PROVE  \E n \in DOMAIN dirs :
                            /\ {m \in DOMAIN dirs : dirs[m].id = entries[i].folder} = {n}
                            /\ dirs[n].up # newroot
                            /\ dirs[dirs[n].up].made = entries[i].parent
                            /\ IF Reaches(i)
                               THEN /\ dirs[dirs[n].up].id = entries[i].parent
                                    /\ \E m \in Children(dirs, newroot) :
                                         dirs[m].name = Plain("recovered") /\ Below(n, m)
                               ELSE \E m \in ProblemDir : Below(n, m)
        BY DEF TreeRight
      <3>1. PICK w, l : Built(w, l)
        BY DEF PathsInv
      <3> QED
        BY <3>1, FolderPlaced
    <2> QED
      BY <2>1, NamesGiven DEF FoldersPlaced
  <1> QED
    BY <1>1, <1>2, <1>3, Invariance, PTL DEF Spec
=============================================================================
