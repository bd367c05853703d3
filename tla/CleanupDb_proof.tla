-------------------------- MODULE CleanupDb_proof --------------------------
(***************************************************************************)
(* Proofs that hold for databases of any length and content, every order   *)
(* qsort may leave equal digests in, and any number of interrupts.         *)
(***************************************************************************)
EXTENDS CleanupDb, WellFoundedInduction, TLAPS

Records == DOMAIN filesfound

(* The digests before any is cleared ...                                   *)
Hashed == pc = "sort" => hash = [i \in Records |-> Digest(filesfound[i])]

(* ... and after: of all records with one digest, one has kept it.         *)
OneOfEach(h) ==
  /\ DOMAIN h = Records
  /\ \A i \in Records : h[i] \in {None, Digest(filesfound[i])}
  /\ \A i, j \in Records : h[i] # None /\ h[i] = h[j] => i = j
  /\ \A i \in Records : \E j \in Records : h[j] # None /\ h[j] = Digest(filesfound[i])

Marked == pc \in {"write", "done"} => OneOfEach(hash)

(* fileinfo.db is made of records from the first n of filesfound.db, in    *)
(* their order: f tells which.                                             *)
TakenFrom(f, n) ==
  /\ DOMAIN f = DOMAIN fileinfo
  /\ \A i \in DOMAIN fileinfo :
       /\ f[i] \in 1 .. n
       /\ fileinfo[i].record = filesfound[f[i]]
  /\ \A i, j \in DOMAIN fileinfo : i < j => f[i] < f[j]

Numbered == \A i \in DOMAIN fileinfo : fileinfo[i].number = i

InOrder == \E f : TakenFrom(f, Len(filesfound))

(* While fileinfo.db is written, from the records the last pass is behind. *)
WrittenSoFar ==
  pc \in {"write", "done"} =>
    /\ number = Len(fileinfo) + 1
    /\ \E f : TakenFrom(f, at - 1) /\ \A i \in DOMAIN fileinfo : hash[f[i]] # None
    /\ \A j \in Records :
         j < at /\ hash[j] # None /\ ~Skipped(filesfound[j]) => filesfound[j] \in Written

Ended == pc = "done" => at = Len(filesfound) + 1

Shape == fileinfo \in Seq([number : Nat, record : Record])

IInv ==
  /\ TypeOK /\ Shape /\ Hashed /\ Marked
  /\ Numbered /\ InOrder /\ NoDuplicates /\ WrittenSoFar /\ Ended
-----------------------------------------------------------------------------
(* Numbers.                                                                *)

LEMMA LessWellFounded == IsWellFoundedOn({p \in Nat \X Nat : p[1] < p[2]}, Nat)
  <1>1. OpToRel(<, Nat) = {p \in Nat \X Nat : p[1] < p[2]}
    BY DEF OpToRel
  <1> QED
    BY <1>1, NatLessThanWellFounded

LEMMA SmallestOf ==
  ASSUME NEW S, S \subseteq Nat, S # {}
  PROVE  \E m \in S : \A n \in S : m <= n
  <1> DEFINE R == {p \in Nat \X Nat : p[1] < p[2]}
  <1>1. IsWellFoundedOn(R, Nat)
    BY LessWellFounded
  <1> HIDE DEF R
  <1>2. PICK m \in S : \A y \in S : ~(<<y, m>> \in R)
    BY <1>1, WFMin
  <1>3. ASSUME NEW n \in S, n < m
        PROVE  FALSE
    <2>1. m \in Nat /\ n \in Nat /\ <<n, m>>[1] = n /\ <<n, m>>[2] = m
      OBVIOUS
    <2>2. <<n, m>> \in R
      BY <1>3, <2>1 DEF R
    <2> QED
      BY <1>2, <2>2
  <1>4. \A n \in S : m <= n
    BY <1>3
  <1> QED
    BY <1>4

(* Of the numbers up to n that have a property, there is a greatest.       *)
LEMMA GreatestOf ==
  ASSUME NEW n \in Nat, NEW S, S \subseteq 1 .. n, S # {}
  PROVE  \E m \in S : \A k \in S : k <= m
  <1> DEFINE T == {n - k : k \in S}
  <1>1. T \subseteq Nat /\ T # {}
    <2>1. \A k \in S : n - k \in Nat
      OBVIOUS
    <2> QED
      BY <2>1
  <1>2. PICK t \in T : \A u \in T : t <= u
    BY <1>1, SmallestOf
  <1>3. PICK m \in S : t = n - m
    BY <1>2
  <1>4. ASSUME NEW k \in S
        PROVE  k <= m
    <2>1. n - m <= n - k
      BY <1>2, <1>3
    <2> QED
      BY <2>1
  <1> QED
    BY <1>4

-----------------------------------------------------------------------------
(* Digests.                                                                *)

LEMMA DigestOf ==
  ASSUME NEW r, NEW s
  PROVE  /\ Digest(r) # None
         /\ Digest(r) = Digest(s) <=> r.content = s.content /\ r.date = s.date
  BY DEF Digest, None

(* Whatever order qsort makes, clearing the digest of a record that is     *)
(* followed by an equal one leaves one of each.                            *)
LEMMA RemovedLeavesOne ==
  ASSUME filesfound \in Seq(Record), hash = [i \in Records |-> Digest(filesfound[i])],
         NEW o \in Sorted
  PROVE  OneOfEach([i \in DOMAIN hash |-> IF i \in Removed(o) THEN None ELSE hash[i]])
  <1> DEFINE n == Len(filesfound)
             h == [i \in DOMAIN hash |-> IF i \in Removed(o) THEN None ELSE hash[i]]
  <1>1. n \in Nat /\ Records = 1 .. n
    BY DEF Records
  <1>2. Len(hash) = n /\ DOMAIN hash = Records
        /\ \A i \in Records : hash[i] = Digest(filesfound[i])
    BY <1>1
  <1>3. /\ o \in [1 .. n -> 1 .. n]
        /\ \A a, b \in 1 .. n : o[a] = o[b] => a = b
        /\ \A i \in 1 .. n : \E a \in 1 .. n : o[a] = i
        /\ \A a, b, c \in 1 .. n :
             a <= b /\ b <= c /\ hash[o[a]] = hash[o[c]] => hash[o[b]] = hash[o[a]]
    <2>1. DOMAIN hash = 1 .. n
      BY <1>1, <1>2
    <2> HIDE DEF n
    <2>2. o \in Bijection(1 .. n, 1 .. n)
      BY <2>1 DEF Sorted
    <2>3. o \in [1 .. n -> 1 .. n]
      BY <2>2 DEF Bijection, Surjection
    <2>4. \A a, b \in 1 .. n : o[a] = o[b] => a = b
      BY <2>2, <2>3 DEF Bijection, Injection, IsInjective
    <2>5. \A i \in 1 .. n : \E a \in 1 .. n : o[a] = i
      BY <2>2 DEF Bijection, Surjection
    <2>6. \A a, b, c \in 1 .. n :
            a <= b /\ b <= c /\ hash[o[a]] = hash[o[c]] => hash[o[b]] = hash[o[a]]
      BY <2>1 DEF Sorted
    <2> QED
      BY <2>3, <2>4, <2>5, <2>6
  <1>4. \A a \in 1 .. n :
          o[a] \in Removed(o) <=> a < n /\ hash[o[a]] = hash[o[a + 1]]
    <2> SUFFICES ASSUME NEW a \in 1 .. n
                 PROVE  o[a] \in Removed(o) <=> a < n /\ hash[o[a]] = hash[o[a + 1]]
      OBVIOUS
    <2>1. o[a] \in Removed(o) <=>
            \E j \in 1 .. n - 1 : hash[o[j]] = hash[o[j + 1]] /\ o[a] = o[j]
      BY <1>2 DEF Removed
    <2>2. \A j \in 1 .. n - 1 : j \in 1 .. n /\ j < n
      BY <1>1
    <2>3. a < n => a \in 1 .. n - 1
      BY <1>1
    <2> HIDE DEF n
    <2> QED
      BY <1>3, <2>1, <2>2, <2>3
  <1>5. DOMAIN h = Records /\ \A i \in Records : h[i] = IF i \in Removed(o) THEN None ELSE hash[i]
    OBVIOUS
  <1> HIDE DEF h, n
  <1>6. \A i \in Records : h[i] \in {None, Digest(filesfound[i])}
    BY <1>5
  <1>7. ASSUME NEW a \in 1 .. n, NEW b \in 1 .. n, a < b,
               h[o[a]] # None, h[o[a]] = h[o[b]]
        PROVE  FALSE
    <2>1. hash[o[a]] = hash[o[b]] /\ o[a] \notin Removed(o)
      BY <1>1, <1>3, <1>5, <1>7
    <2>2. a + 1 \in 1 .. n /\ a <= a + 1 /\ a + 1 <= b /\ a < n
      BY <1>1, <1>7
    <2>3. hash[o[a + 1]] = hash[o[a]]
      BY <1>3, <2>1, <2>2
    <2> QED
      BY <1>4, <2>1, <2>2, <2>3
  <1>8. ASSUME NEW i \in Records, NEW j \in Records, h[i] # None, h[i] = h[j]
        PROVE  i = j
    <2>1. PICK a \in 1 .. n : o[a] = i
      BY <1>1, <1>3
    <2>2. PICK b \in 1 .. n : o[b] = j
      BY <1>1, <1>3
    <2>3. ~(a < b) /\ ~(b < a)
      BY <1>7, <1>8, <2>1, <2>2
    <2>4. a = b
      BY <1>1, <2>3
    <2> QED
      BY <2>1, <2>2, <2>4
  <1>9. ASSUME NEW i \in Records
        PROVE  \E j \in Records : h[j] # None /\ h[j] = Digest(filesfound[i])
    <2> DEFINE S == {a \in 1 .. n : hash[o[a]] = hash[i]}
    <2>1. S \subseteq 1 .. n /\ S # {}
      BY <1>1, <1>3
    <2>2. PICK m \in S : \A a \in S : a <= m
      BY <1>1, <2>1, GreatestOf
    <2>3. o[m] \in Records /\ hash[o[m]] = hash[i]
      BY <1>1, <1>3
    <2>4. o[m] \notin Removed(o)
      <3> SUFFICES ASSUME m < n, hash[o[m]] = hash[o[m + 1]]
                   PROVE  FALSE
        BY <1>4
      <3>1. m + 1 \in 1 .. n
        BY <1>1, <2>1
      <3>2. hash[o[m + 1]] = hash[i]
        BY <2>3
      <3>3. m + 1 \in S
        BY <3>1, <3>2
      <3> QED
        BY <1>1, <2>1, <2>2, <3>3
    <2>5. h[o[m]] = Digest(filesfound[i])
      BY <1>5, <2>3, <2>4
    <2> QED
      BY <2>3, <2>5, DigestOf
  <1> QED
    BY <1>5, <1>6, <1>8, <1>9 DEF OneOfEach, h

-----------------------------------------------------------------------------
(* Steps that write nothing to fileinfo.db.                                *)

LEMMA Lengths ==
  ASSUME IInv
  PROVE  /\ filesfound \in Seq(Record) /\ Len(filesfound) \in Nat
         /\ Records = 1 .. Len(filesfound)
         /\ at \in Nat /\ at >= 1 /\ at <= Len(filesfound) + 1
         /\ Len(fileinfo) \in Nat /\ DOMAIN fileinfo = 1 .. Len(fileinfo)
         /\ fileinfo \in Seq([number : Nat, record : Record])
  <1>1. filesfound \in Seq(Record) /\ at \in 1 .. Len(filesfound) + 1
    BY DEF IInv, TypeOK
  <1>2. fileinfo \in Seq([number : Nat, record : Record])
    BY DEF IInv, Shape
  <1> QED
    BY <1>1, <1>2 DEF Records

LEMMA SameFiles ==
  ASSUME IInv, UNCHANGED <<filesfound, fileinfo>>
  PROVE  Shape' /\ Numbered' /\ InOrder' /\ NoDuplicates'
  BY DEF IInv, Shape, Numbered, InOrder, NoDuplicates, TakenFrom, Digest

LEMMA HashAllKeeps ==
  ASSUME IInv, HashAll
  PROVE  IInv'
  <1>1. /\ hash' = [i \in Records |-> Digest(filesfound[i])]
        /\ pc' = "sort" /\ UNCHANGED <<filesfound, at, number, fileinfo, interrupts>>
    BY DEF HashAll, Records
  <1>2. TypeOK'
    BY <1>1 DEF IInv, TypeOK, Digest
  <1>3. Hashed'
    BY <1>1 DEF Hashed, Records, Digest
  <1>4. Marked' /\ WrittenSoFar' /\ Ended'
    BY <1>1 DEF Marked, WrittenSoFar, Ended
  <1> QED
    BY <1>1, <1>2, <1>3, <1>4, SameFiles DEF IInv

LEMMA RemoveDuplicatesKeeps ==
  ASSUME IInv, RemoveDuplicates
  PROVE  IInv'
  <1>1. PICK o \in Sorted :
          hash' = [i \in DOMAIN hash |-> IF i \in Removed(o) THEN None ELSE hash[i]]
    BY DEF RemoveDuplicates
  <1>2. /\ pc = "sort" /\ pc' = "write" /\ at' = 1 /\ number' = 1 /\ fileinfo' = <<>>
        /\ UNCHANGED <<filesfound, interrupts>>
    BY DEF RemoveDuplicates
  <1>3. OneOfEach(hash')
    BY <1>1, <1>2, RemovedLeavesOne, Lengths DEF IInv, Hashed
  <1>4. TypeOK'
    BY <1>2, <1>3, Lengths DEF IInv, TypeOK, OneOfEach, Digest, Records
  <1>5. Marked'
    BY <1>2, <1>3 DEF Marked, OneOfEach, Records, Digest
  <1>6. TakenFrom(<<>>, 0)' /\ TakenFrom(<<>>, Len(filesfound))'
    BY <1>2 DEF TakenFrom
  <1>7. WrittenSoFar'
    <2>1. \A j \in Records' : ~(j < at')
      BY <1>2, Lengths DEF Records
    <2>2. at' - 1 = 0 /\ number' = Len(fileinfo') + 1 /\ DOMAIN fileinfo' = {}
      BY <1>2
    <2> QED
      BY <1>6, <2>1, <2>2 DEF WrittenSoFar
  <1>8. Shape' /\ Numbered' /\ InOrder' /\ NoDuplicates'
    BY <1>2, <1>6 DEF Shape, Numbered, InOrder, NoDuplicates
  <1> QED
    BY <1>2, <1>4, <1>5, <1>7, <1>8 DEF IInv, Hashed, Ended

LEMMA SkipRecordKeeps ==
  ASSUME IInv, SkipRecord
  PROVE  IInv'
  <1>1. /\ pc = "write" /\ at \in Records
        /\ hash[at] = None \/ Skipped(filesfound[at])
        /\ at' = at + 1 /\ UNCHANGED <<filesfound, pc, hash, interrupts, number, fileinfo>>
    BY DEF SkipRecord, Writing, Step, Records
  <1>2. at' \in 1 .. Len(filesfound) + 1
    BY <1>1, Lengths
  <1>3. TypeOK'
    BY <1>1, <1>2 DEF IInv, TypeOK, Digest
  <1>4. Marked' /\ Hashed' /\ Ended'
    BY <1>1 DEF IInv, Marked, OneOfEach, Hashed, Ended, Records, Digest
  <1>5. WrittenSoFar'
    <2>1. PICK f : TakenFrom(f, at - 1) /\ \A i \in DOMAIN fileinfo : hash[f[i]] # None
      BY <1>1 DEF IInv, WrittenSoFar
    <2>2. \A k \in 1 .. at - 1 : k \in 1 .. at' - 1
      BY <1>1, Lengths
    <2>3. TakenFrom(f, at' - 1)
      BY <2>1, <2>2 DEF TakenFrom
    <2>4. TakenFrom(f, at - 1)' /\ \A i \in DOMAIN fileinfo' : hash'[f[i]] # None
      BY <1>1, <2>1, <2>3 DEF TakenFrom
    <2>5. ASSUME NEW j \in Records, j < at', hash[j] # None, ~Skipped(filesfound[j])
          PROVE  filesfound[j] \in Written
      <3>1. j < at
        BY <1>1, <2>5, Lengths
      <3> QED
        BY <1>1, <2>5, <3>1 DEF IInv, WrittenSoFar
    <2>6. \A j \in Records : Skipped(filesfound[j])' = Skipped(filesfound[j])
      BY <1>1 DEF Skipped, Future, Rawtime
    <2>7. number' = Len(fileinfo') + 1
      BY <1>1 DEF IInv, WrittenSoFar
    <2> QED
      BY <1>1, <2>4, <2>5, <2>6, <2>7 DEF WrittenSoFar, Records, Written
  <1> QED
    BY <1>1, <1>3, <1>4, <1>5, SameFiles DEF IInv

LEMMA FinishKeeps ==
  ASSUME IInv, Finish
  PROVE  IInv'
  <1>1. /\ pc = "write" /\ at \notin Records /\ pc' = "done"
        /\ UNCHANGED <<filesfound, hash, at, number, fileinfo, interrupts>>
    BY DEF Finish, Records
  <1>2. TypeOK' /\ Hashed' /\ Marked'
    BY <1>1 DEF IInv, TypeOK, Hashed, Marked, OneOfEach, Records, Digest
  <1>3. WrittenSoFar'
    BY <1>1 DEF IInv, WrittenSoFar, TakenFrom, Records, Skipped, Future, Rawtime, Written
  <1>4. Ended'
    BY <1>1, Lengths DEF Ended
  <1> QED
    BY <1>1, <1>2, <1>3, <1>4, SameFiles DEF IInv

(* An interrupted run leaves what it has written, a new one begins.        *)
LEMMA RestartKeeps ==
  ASSUME IInv, Interrupt \/ Rerun
  PROVE  IInv'
  <1>1. pc' \in {"stopped", "hash"} /\ UNCHANGED <<filesfound, fileinfo>>
    BY DEF Interrupt, Rerun
  <1>2. TypeOK'
    <2>1. CASE Interrupt
      <3>1. interrupts' \in 0 .. MaxInterrupts
        BY <2>1, CleanupAssumption DEF Interrupt, IInv, TypeOK
      <3> QED
        BY <2>1, <3>1 DEF Interrupt, IInv, TypeOK, Digest
    <2>2. CASE Rerun
      <3>1. hash' = <<>> /\ at' = 1 /\ number' = 1 /\ interrupts' = interrupts
        BY <2>2 DEF Rerun
      <3>2. at' \in 1 .. Len(filesfound) + 1 /\ number' \in 1 .. Len(fileinfo) + 1
        BY <3>1, Lengths
      <3> QED
        BY <1>1, <3>1, <3>2 DEF IInv, TypeOK
    <2> QED
      BY <2>1, <2>2
  <1>3. Hashed' /\ Marked' /\ WrittenSoFar' /\ Ended'
    BY <1>1 DEF Hashed, Marked, WrittenSoFar, Ended
  <1> QED
    BY <1>1, <1>2, <1>3, SameFiles DEF IInv

-----------------------------------------------------------------------------
(* The record at hand goes behind those that were written.                 *)

LEMMA WriteRecordKeeps ==
  ASSUME IInv, WriteRecord
  PROVE  IInv'
  <1> PICK n, l, r : n = Len(fileinfo) /\ l = Len(filesfound) /\ r = filesfound[at]
    OBVIOUS
  <1>1. /\ pc = "write" /\ at \in Records /\ hash[at] # None /\ ~Skipped(r)
        /\ fileinfo' = Append(fileinfo, [number |-> number, record |-> r])
        /\ number' = number + 1 /\ at' = at + 1
        /\ UNCHANGED <<filesfound, pc, hash, interrupts>>
    BY DEF WriteRecord, Writing, Step, Records
  <1>2. PICK f : TakenFrom(f, at - 1) /\ \A i \in DOMAIN fileinfo : hash[f[i]] # None
    BY <1>1 DEF IInv, WrittenSoFar
  <1>3. /\ n \in Nat /\ DOMAIN fileinfo = 1 .. n
        /\ at \in Nat /\ at >= 1 /\ at <= l /\ l \in Nat
        /\ r \in Record /\ number = n + 1
    <2>1. number = n + 1
      BY <1>1 DEF IInv, WrittenSoFar
    <2> QED
      BY <1>1, <2>1, Lengths
  <1>4. /\ Len(fileinfo') = n + 1 /\ DOMAIN fileinfo' = 1 .. n + 1
        /\ \A i \in 1 .. n : fileinfo'[i] = fileinfo[i]
        /\ fileinfo'[n + 1].number = n + 1 /\ fileinfo'[n + 1].record = r
        /\ fileinfo' \in Seq([number : Nat, record : Record])
    <2>1. [number |-> number, record |-> r] \in [number : Nat, record : Record]
      BY <1>3
    <2>2. fileinfo \in Seq([number : Nat, record : Record])
      BY Lengths
    <2>3. fileinfo'[n + 1] = [number |-> number, record |-> r]
      BY <1>1, <1>3, <2>1, <2>2
    <2> QED
      BY <1>1, <1>3, <2>1, <2>2, <2>3
  <1>5. /\ \A i \in 1 .. n : f[i] \in 1 .. at - 1 /\ fileinfo[i].record = filesfound[f[i]]
        /\ \A i, j \in 1 .. n : i < j => f[i] < f[j]
    BY <1>2, <1>3 DEF TakenFrom
  <1>6. PICK g : /\ DOMAIN g = 1 .. n + 1 /\ g[n + 1] = at
                 /\ \A i \in 1 .. n : g[i] = f[i]
    <2> DEFINE h == [i \in 1 .. n + 1 |-> IF i = n + 1 THEN at ELSE f[i]]
    <2>1. DOMAIN h = 1 .. n + 1 /\ h[n + 1] = at /\ \A i \in 1 .. n : h[i] = f[i]
      BY <1>3
    <2> QED
      BY <2>1
  <1>7. \A i \in 1 .. n + 1 : i \in 1 .. n \/ i = n + 1
    BY <1>3
  <1>8. ASSUME NEW i \in 1 .. n + 1, NEW j \in 1 .. n + 1, i < j
        PROVE  g[i] < g[j]
    <2>1. i \in 1 .. n
      BY <1>3, <1>8
    <2>2. CASE j \in 1 .. n
      BY <1>5, <1>6, <1>8, <2>1, <2>2
    <2>3. CASE j = n + 1
      <3>1. f[i] \in 1 .. at - 1
        BY <1>5, <2>1
      <3> QED
        BY <1>3, <1>6, <2>1, <2>3, <3>1
    <2> QED
      BY <1>7, <2>2, <2>3
  <1>9. ASSUME NEW m \in Nat, at <= m
        PROVE  TakenFrom(g, m)'
    <2> SUFFICES ASSUME NEW i \in 1 .. n + 1
                 PROVE  g[i] \in 1 .. m /\ fileinfo'[i].record = filesfound[g[i]]
      BY <1>1, <1>4, <1>6, <1>8 DEF TakenFrom
    <2>1. CASE i \in 1 .. n
      <3>1. f[i] \in 1 .. at - 1 /\ fileinfo[i].record = filesfound[f[i]]
        BY <1>5, <2>1
      <3>2. f[i] \in 1 .. m
        BY <1>3, <1>9, <3>1
      <3> QED
        BY <1>4, <1>6, <2>1, <3>1, <3>2
    <2>2. CASE i = n + 1
      BY <1>3, <1>4, <1>6, <1>9, <2>2
    <2> QED
      BY <1>7, <2>1, <2>2
  <1>10. TypeOK'
    <2>1. at' \in 1 .. Len(filesfound) + 1 /\ number' \in 1 .. Len(fileinfo') + 1
      BY <1>1, <1>3, <1>4
    <2>2. \A i \in DOMAIN fileinfo' : fileinfo'[i].record \in Record
      <3>1. \A i \in 1 .. n : fileinfo[i].record \in Record
        BY <1>3 DEF IInv, TypeOK
      <3> QED
        BY <1>3, <1>4, <1>7, <3>1
    <2> QED
      BY <1>1, <2>1, <2>2 DEF IInv, TypeOK, Digest
  <1>11. Shape' /\ Numbered'
    <2>1. \A i \in 1 .. n : fileinfo[i].number = i
      BY <1>3 DEF IInv, Numbered
    <2>2. \A i \in 1 .. n + 1 : fileinfo'[i].number = i
      BY <1>4, <1>7, <2>1
    <2> QED
      BY <1>4, <2>2 DEF Shape, Numbered
  <1>12. Hashed' /\ Marked' /\ Ended'
    BY <1>1 DEF IInv, Hashed, Marked, OneOfEach, Ended, Records, Digest
  <1>13. InOrder'
    <2>1. TakenFrom(g, l)' /\ l = Len(filesfound')
      BY <1>1, <1>3, <1>9
    <2> QED
      BY <2>1 DEF InOrder
  <1>14. ASSUME NEW i \in 1 .. n
         PROVE  Digest(fileinfo[i].record) # Digest(r)
    <2>1. f[i] \in Records /\ f[i] # at /\ fileinfo[i].record = filesfound[f[i]]
      BY <1>3, <1>5, Lengths
    <2>2. OneOfEach(hash)
      BY <1>1 DEF IInv, Marked
    <2>3. hash[f[i]] # None
      BY <1>2, <1>3
    <2>4. hash[f[i]] = Digest(filesfound[f[i]]) /\ hash[at] = Digest(r)
      BY <1>1, <2>1, <2>2, <2>3 DEF OneOfEach
    <2> QED
      BY <1>1, <2>1, <2>2, <2>3, <2>4 DEF OneOfEach
  <1>15. NoDuplicates'
    <2> SUFFICES ASSUME NEW i \in 1 .. n + 1, NEW j \in 1 .. n + 1,
                        Digest(fileinfo'[i].record) = Digest(fileinfo'[j].record)
                 PROVE  i = j
      BY <1>4 DEF NoDuplicates, Digest
    <2>1. CASE i \in 1 .. n /\ j \in 1 .. n
      BY <1>3, <1>4, <2>1 DEF IInv, NoDuplicates
    <2>2. CASE i \in 1 .. n /\ j = n + 1
      BY <1>4, <1>14, <2>2
    <2>3. CASE i = n + 1 /\ j \in 1 .. n
      BY <1>4, <1>14, <2>3
    <2> QED
      BY <1>7, <2>1, <2>2, <2>3
  <1>16. WrittenSoFar'
    <2>1. number' = Len(fileinfo') + 1
      BY <1>1, <1>3, <1>4
    <2>2. TakenFrom(g, at - 1)' /\ \A i \in 1 .. n + 1 : hash[g[i]] # None
      <3>1. PICK m \in Nat : m = at
        BY <1>3
      <3>2. TakenFrom(g, m)' /\ m = at' - 1
        BY <1>1, <1>3, <1>9, <3>1
      <3>3. \A i \in 1 .. n : hash[g[i]] # None
        BY <1>2, <1>3, <1>6
      <3> QED
        BY <1>1, <1>6, <1>7, <3>2, <3>3
    <2>3. ASSUME NEW j \in Records, j < at', hash[j] # None, ~Skipped(filesfound[j])
          PROVE  filesfound[j] \in Written'
      <3>1. \A i \in 1 .. n + 1 : fileinfo'[i].record \in Written'
        BY <1>4 DEF Written
      <3>2. CASE j < at
        <4>1. filesfound[j] \in Written
          BY <1>1, <2>3, <3>2 DEF IInv, WrittenSoFar
        <4>2. PICK i \in 1 .. n : filesfound[j] = fileinfo[i].record
          BY <1>3, <4>1 DEF Written
        <4>3. i \in 1 .. n + 1 /\ filesfound[j] = fileinfo'[i].record
          BY <1>3, <1>4, <4>2
        <4> QED
          BY <3>1, <4>3
      <3>3. CASE j = at
        <4>1. n + 1 \in 1 .. n + 1 /\ filesfound[j] = fileinfo'[n + 1].record
          BY <1>3, <1>4, <3>3
        <4> QED
          BY <3>1, <4>1
      <3> QED
        BY <1>1, <1>3, <2>3, <3>2, <3>3, Lengths
    <2>4. \A j \in Records : Skipped(filesfound[j])' = Skipped(filesfound[j])
      BY <1>1 DEF Skipped, Future, Rawtime
    <2> QED
      BY <1>1, <1>4, <2>1, <2>2, <2>3, <2>4 DEF WrittenSoFar, Records
  <1> QED
    BY <1>10, <1>11, <1>12, <1>13, <1>15, <1>16 DEF IInv

-----------------------------------------------------------------------------
(* The inductive invariant, and what it implies.                           *)

LEMMA InitIInv == Init => IInv
  <1> SUFFICES ASSUME Init
               PROVE  IInv
    OBVIOUS
  <1>1. /\ pc = "hash" /\ hash = <<>> /\ at = 1 /\ number = 1
        /\ fileinfo = <<>> /\ interrupts = 0
    BY DEF Init
  <1>2. filesfound \in Seq(Record) /\ Len(filesfound) \in Nat
    <2>1. PICK n \in 0 .. MaxRecords : filesfound \in [1 .. n -> Record]
      BY DEF Init
    <2>2. n \in Nat
      BY CleanupAssumption
    <2> QED
      BY <2>1, <2>2
  <1>3. TypeOK /\ Shape
    BY <1>1, <1>2, CleanupAssumption DEF TypeOK, Shape
  <1>4. Numbered /\ NoDuplicates
    BY <1>1 DEF Numbered, NoDuplicates
  <1>5. InOrder
    <2>1. TakenFrom(<<>>, Len(filesfound))
      BY <1>1 DEF TakenFrom
    <2> QED
      BY <2>1 DEF InOrder
  <1> QED
    BY <1>1, <1>3, <1>4, <1>5 DEF IInv, Hashed, Marked, WrittenSoFar, Ended

LEMMA NextIInv == IInv /\ [Next]_vars => IInv'
  <1> SUFFICES ASSUME IInv, [Next]_vars
               PROVE  IInv'
    OBVIOUS
  <1>1. CASE Next
    BY <1>1, HashAllKeeps, RemoveDuplicatesKeeps, SkipRecordKeeps, WriteRecordKeeps,
       FinishKeeps, RestartKeeps DEF Next
  <1>2. CASE UNCHANGED vars
    <2>1. UNCHANGED <<filesfound, pc, hash, at, number, fileinfo, interrupts>>
      BY <1>2 DEF vars
    <2>2. TypeOK' /\ Hashed' /\ Marked' /\ Ended'
      BY <2>1 DEF IInv, TypeOK, Hashed, Marked, OneOfEach, Ended, Records, Digest
    <2>3. WrittenSoFar'
      BY <2>1 DEF IInv, WrittenSoFar, TakenFrom, Records, Skipped, Future, Rawtime, Written
    <2> QED
      BY <2>1, <2>2, <2>3, SameFiles DEF IInv
  <1> QED
    BY <1>1, <1>2

LEMMA Invariance == Spec => []IInv
  BY InitIInv, NextIInv, PTL DEF Spec

(* The files and the array of digests keep their shape.                    *)
THEOREM TypeCorrect == Spec => []TypeOK
  <1>1. IInv => TypeOK
    BY DEF IInv
  <1> QED
    BY Invariance, <1>1, PTL

(* A record with a date the program can tell, not too far in the future,   *)
(* and a sound name and text is not skipped, nor is one with its digest.   *)
LEMMA NotSkipped ==
  ASSUME NEW r \in Record, r.date \in Epoch .. Epoch + Now + Tolerance,
         r.content \notin BadNames \cup Cut
  PROVE  ~Skipped(r)
  <1>1. r.date \in Nat /\ r.date < Modulus /\ Epoch \in Nat /\ Modulus \in Nat
        /\ Now \in Nat /\ Tolerance \in Nat
    <2>1. r.date \in Dates
      BY DEF Record
    <2> QED
      BY <2>1, CleanupAssumption
  <1>2. Rawtime(r) = r.date - Epoch
    <2>1. r.date - Epoch \in 0 .. Modulus - 1
      BY <1>1
    <2> QED
      BY <1>1, <2>1 DEF Rawtime
  <1>3. ~Future(r)
    BY <1>1, <1>2 DEF Future
  <1> QED
    BY <1>3 DEF Skipped

(* Step 2 (CleanupFileDatabase) leaves one entry of each file, numbered    *)
(* without gaps in the order step 1 found them: no duplicate is left,      *)
(* whatever qsort does, and no file with a date in reach is lost.          *)
THEOREM OneEntryLeft == Spec => []OneEntryOfEach
  <1>1. IInv => OneEntryOfEach
    <2> SUFFICES ASSUME IInv
                 PROVE  OneEntryOfEach
      OBVIOUS
    <2>1. NoDuplicates
      BY DEF IInv
    <2>2. NumbersCount
      <3>1. PICK f : TakenFrom(f, Len(filesfound))
        BY DEF IInv, InOrder
      <3> DEFINE g == [i \in DOMAIN fileinfo |-> f[i]]
      <3>2. g \in [DOMAIN fileinfo -> DOMAIN filesfound]
        BY <3>1, Lengths DEF TakenFrom, Records
      <3>3. /\ \A i \in DOMAIN fileinfo : fileinfo[i].record = filesfound[g[i]]
            /\ \A i, j \in DOMAIN fileinfo : i < j => g[i] < g[j]
        BY <3>1 DEF TakenFrom
      <3>4. \A i \in DOMAIN fileinfo : fileinfo[i].number = i
        BY DEF IInv, Numbered
      <3> HIDE DEF g
      <3> QED
        BY <3>2, <3>3, <3>4 DEF NumbersCount
    <2>3. PresentKept
      <3> SUFFICES ASSUME pc = "done", NEW i \in Records,
                          filesfound[i].date \in Epoch .. Epoch + Now + Tolerance,
                          filesfound[i].content \notin BadNames \cup Cut
                   PROVE  \E w \in Written : /\ w.content = filesfound[i].content
                                             /\ w.date = filesfound[i].date
        BY DEF PresentKept, Records
      <3>1. PICK j \in Records : hash[j] # None /\ hash[j] = Digest(filesfound[i])
        BY DEF IInv, Marked, OneOfEach
      <3>2. hash[j] = Digest(filesfound[j])
        BY <3>1 DEF IInv, Marked, OneOfEach
      <3>3. /\ filesfound[j].content = filesfound[i].content
            /\ filesfound[j].date = filesfound[i].date
        BY <3>1, <3>2, DigestOf
      <3>4. filesfound[j] \in Record /\ j < at
        BY Lengths DEF IInv, Ended
      <3>5. ~Skipped(filesfound[j])
        BY <3>3, <3>4, NotSkipped
      <3>6. filesfound[j] \in Written
        BY <3>1, <3>4, <3>5 DEF IInv, WrittenSoFar
      <3> QED
        BY <3>3, <3>6
    <2> QED
      BY <2>1, <2>2, <2>3 DEF OneEntryOfEach
  <1> QED
    BY Invariance, <1>1, PTL
=============================================================================
