------------------------------ MODULE PartsProofs ------------------------------
(***************************************************************************)
(* Theorems about the parts that share no state, for every value of their  *)
(* constants: each part's inductive invariant, and what follows from it in *)
(* the specification that runs one part while the others rest.             *)
(***************************************************************************)
EXTENDS Parts, DataLemmas, FiniteSetTheorems, TLAPS

(* A part steps, or it rests. *)
LEMMA StepsOrRests ==
  ASSUME PartsNext
  PROVE  /\ Loader!Next \/ UNCHANGED loaderVars
         /\ Wait!Next \/ UNCHANGED waitVars
         /\ Cache!Next \/ UNCHANGED cacheVars
         /\ Documents!Next \/ UNCHANGED docsVars
         /\ Query!Next \/ UNCHANGED queryVars
         /\ Chain!Next \/ UNCHANGED chainVars
  <1> USE DEF OthersRest, Resting
  <1>1. CASE BucketStep
    BY <1>1 DEF BucketStep
  <1>2. CASE LoaderStep
    BY <1>2 DEF LoaderStep
  <1>3. CASE WaitStep
    BY <1>3 DEF WaitStep
  <1>4. CASE CacheStep
    BY <1>4 DEF CacheStep
  <1>5. CASE DocsStep
    BY <1>5 DEF DocsStep
  <1>6. CASE ListStep
    BY <1>6 DEF ListStep
  <1>7. CASE TraceStep
    BY <1>7 DEF TraceStep
  <1> QED
    BY <1>1, <1>2, <1>3, <1>4, <1>5, <1>6, <1>7 DEF PartsNext

-----------------------------------------------------------------------------
(* MigrationLoader: what its loops compute, and what that makes of a load.   *)

LEMMA LoaderLoops ==
  ASSUME NEW s, NEW positions
  PROVE  /\ Loader!FlattenSeq(s) = FlattenSeq(s)
         /\ Loader!Kept(s, positions) = Kept(s, positions)
         /\ Loader!Cardinality(s) = Cardinality(s)
  BY DEF Loader!FlattenSeq, FlattenSeq, Loader!Kept, Kept, Loader!Cardinality, Cardinality

(* No directory comes twice. *)
LEMMA DirsDiffer ==
  ASSUME NEW o \in AllOptions
  PROVE  /\ Loader!UniqDirs(o) \in Seq(STRING)
         /\ \A i, j \in DOMAIN Loader!UniqDirs(o) :
              Loader!UniqDirs(o)[i] = Loader!UniqDirs(o)[j] => i = j
  <1> DEFINE dirs == <<o.dir>> \o o.dirs
             first == {i \in DOMAIN dirs :
                         dirs[i] # Loader!NoDir /\ \A j \in 1..(i - 1) : dirs[j] # dirs[i]}
             r == Kept(dirs, first)
  <1>1. dirs \in Seq(STRING) /\ DOMAIN dirs \subseteq Nat \ {0}
    <2>1. o.dir \in STRING /\ o.dirs \in Seq(STRING)
      BY LoaderAssumption DEF Loader!ConstantsOK
    <2>2. dirs \in Seq(STRING)
      BY <2>1
    <2> HIDE DEF dirs
    <2> QED
      BY <2>2
  <1>2. Loader!UniqDirs(o) = r
    BY LoaderLoops DEF Loader!UniqDirs
  <1>3. \A i, j \in first : dirs[i] = dirs[j] => i = j
    <2> SUFFICES ASSUME NEW i \in first, NEW j \in first, dirs[i] = dirs[j], i # j PROVE FALSE
      OBVIOUS
    <2>1. i \in Nat /\ j \in Nat /\ i > 0 /\ j > 0
      BY <1>1
    <2> HIDE DEF dirs
    <2>2. i \in 1..(j - 1) \/ j \in 1..(i - 1)
      BY <2>1
    <2> QED
      BY <2>2
  <1>4. PICK at \in [DOMAIN r -> (DOMAIN dirs) \cap first] :
          /\ \A l, m \in DOMAIN r : at[l] = at[m] => l = m
          /\ \A m \in DOMAIN r : r[m] = dirs[at[m]]
    <2> HIDE DEF dirs, first
    <2> QED
      BY <1>1, KeptLists
  <1>5. r \in Seq(STRING)
    <2> HIDE DEF dirs, first
    <2> QED
      BY <1>1, KeptLists
  <1>6. \A i, j \in DOMAIN r : r[i] = r[j] => i = j
    <2> HIDE DEF dirs, first, r
    <2> QED
      BY <1>3, <1>4
  <1> QED
    BY <1>2, <1>5, <1>6

(* Each migration file of a Runner's sources comes once for each source. *)
LEMMA FilesListed ==
  ASSUME NEW o \in AllOptions, NEW x \in AllListings
  PROVE  LET roots == Loader!Roots(o)
             files == Loader!Candidates(o, x)
         IN /\ roots \in Seq(STRING)
            /\ files \in Seq(Loader!AnyFile)
            /\ \A i \in DOMAIN files : Loader!ParsesAsMigration(files[i])
            /\ \E on \in [DOMAIN files -> (DOMAIN roots) \X Nat] :
                 /\ \A i, j \in DOMAIN files : on[i] = on[j] => i = j
                 /\ \A i \in DOMAIN files :
                      /\ on[i][2] \in DOMAIN x[roots[on[i][1]]]
                      /\ files[i] = x[roots[on[i][1]]][on[i][2]]
  <1> DEFINE roots == Loader!Roots(o)
             files == Loader!Candidates(o, x)
             parts == [i \in DOMAIN roots |-> x[roots[i]]]
             all == FlattenSeq(parts)
             named == {i \in DOMAIN all : Loader!ParsesAsMigration(all[i])}
  <1>1. roots \in Seq(STRING)
    <2>1. o.embedded \in Seq(STRING)
      BY LoaderAssumption DEF Loader!ConstantsOK
    <2> QED
      BY <2>1, DirsDiffer DEF Loader!Roots
  <1>2. files = Kept(all, named)
    BY LoaderLoops DEF Loader!Candidates, Loader!AllFiles
  <1>3. Len(roots) \in Nat /\ DOMAIN roots = 1..Len(roots)
    <2> HIDE DEF roots
    <2> QED
      BY <1>1
  <1>4. parts \in [1..Len(roots) -> Seq(Loader!AnyFile)]
    <2>1. ASSUME NEW i \in DOMAIN roots PROVE x[roots[i]] \in Seq(Loader!AnyFile)
      <3>1. roots[i] \in Loader!ToSet(roots)
        BY DEF Loader!ToSet
      <3> QED
        BY <3>1, LoaderAssumption DEF Loader!ConstantsOK
    <2> HIDE DEF roots
    <2> QED
      BY <1>3, <2>1
  <1> HIDE DEF roots, files, named
  <1>5. all \in Seq(Loader!AnyFile) /\ \E on : ListsTo(all, parts, Len(roots), on)
    <2> HIDE DEF parts
    <2> QED
      BY <1>3, <1>4, Flattened
  <1> HIDE DEF all
  <1>6. PICK cell : ListsTo(all, parts, Len(roots), cell)
    BY <1>5
  <1>7. PICK at \in [DOMAIN files -> (DOMAIN all) \cap named] :
          /\ \A l, m \in DOMAIN files : at[l] = at[m] => l = m
          /\ \A m \in DOMAIN files : files[m] = all[at[m]]
    BY <1>2, <1>5, KeptLists
  <1>8. files \in Seq(Loader!AnyFile)
    BY <1>2, <1>5, KeptLists
  <1>9. \A i \in DOMAIN files : Loader!ParsesAsMigration(files[i])
    BY <1>7 DEF named
  <1> DEFINE on == [i \in DOMAIN files |-> cell[at[i]]]
  <1>10. \A i \in DOMAIN files : cell[at[i]] \in CellsTo(parts, Len(roots))
    BY <1>6, <1>7 DEF ListsTo
  <1>11. on \in [DOMAIN files -> (DOMAIN roots) \X Nat]
    <2> HIDE DEF parts
    <2> QED
      BY <1>3, <1>10 DEF CellsTo
  <1>12. \A i, j \in DOMAIN files : on[i] = on[j] => i = j
    BY <1>6, <1>7 DEF ListsTo
  <1>13. ASSUME NEW i \in DOMAIN files
         PROVE  /\ on[i][2] \in DOMAIN x[roots[on[i][1]]]
                /\ files[i] = x[roots[on[i][1]]][on[i][2]]
    <2>1. on[i] = cell[at[i]] /\ at[i] \in DOMAIN all
      BY <1>7
    <2>2. on[i][2] \in DOMAIN parts[on[i][1]] /\ on[i][1] \in DOMAIN roots
      BY <1>3, <1>10, <2>1 DEF CellsTo
    <2>3. files[i] = parts[on[i][1]][on[i][2]]
      BY <1>6, <1>7, <2>1 DEF ListsTo
    <2> HIDE DEF on
    <2> QED
      BY <2>2, <2>3
  <1> HIDE DEF on
  <1> QED
    BY <1>1, <1>8, <1>9, <1>11, <1>12, <1>13 DEF roots, files

(* The order of files is that of numbers, so sorting places each file once. *)
LEMMA SortedLists ==
  ASSUME NEW files \in Seq(Loader!AnyFile),
         \A i \in DOMAIN files : files[i].dir \in {"up", "down"}
  PROVE  /\ DOMAIN Loader!Sorted(files) = DOMAIN files
         /\ \E at \in [DOMAIN files -> DOMAIN files] :
              /\ \A k \in DOMAIN files : Loader!Sorted(files)[k] = files[at[k]]
              /\ \A i \in DOMAIN files : \E k \in DOMAIN files : at[k] = i
              /\ \A k, l \in DOMAIN files : k < l => at[k] \in Loader!Earlier(files, at[l])
  <1> DEFINE n == Len(files)
             weight(i) == 2 * files[i].ver + IF files[i].dir = "up" THEN 1 ELSE 0
             E == [i \in 1..n |-> Loader!Earlier(files, i)]
             place(i, k) == Loader!Cardinality(Loader!Earlier(files, i)) = k - 1
             at == [k \in 1..n |-> CHOOSE i \in DOMAIN files : place(i, k)]
  <1>1. n \in Nat /\ DOMAIN files = 1..n
    OBVIOUS
  <1>2. \A i \in 1..n : files[i].ver \in Nat /\ files[i].dir \in {"up", "down"}
    <2> TAKE i \in 1..n
    <2>1. files[i] \in Loader!AnyFile
      BY <1>1
    <2> QED
      BY <1>1, <2>1 DEF Loader!AnyFile
  <1>3. \A i \in 1..n : weight(i) \in Nat
    BY <1>2
  <1>4. \A i, j \in 1..n : Loader!FileBefore(files[j], files[i]) <=> weight(j) < weight(i)
    <2> TAKE i, j \in 1..n
    <2>1. /\ files[i].ver \in Nat /\ files[i].dir \in {"up", "down"}
          /\ files[j].ver \in Nat /\ files[j].dir \in {"up", "down"}
      BY <1>2
    <2> QED
      BY <2>1 DEF Loader!FileBefore
  <1> HIDE DEF n, weight
  <1>5. \A i, j \in 1..n : j \in E[i] <=> weight(j) < weight(i) \/ (weight(j) = weight(i) /\ j < i)
    <2> TAKE i, j \in 1..n
    <2>1. weight(i) \in Nat /\ weight(j) \in Nat
      BY <1>3
    <2>2. /\ Loader!FileBefore(files[j], files[i]) <=> weight(j) < weight(i)
          /\ Loader!FileBefore(files[i], files[j]) <=> weight(i) < weight(j)
      BY <1>4
    <2>3. j \in E[i] <=> \/ Loader!FileBefore(files[j], files[i])
                         \/ ~Loader!FileBefore(files[i], files[j]) /\ j < i
      BY <1>1 DEF Loader!Earlier
    <2> HIDE DEF E
    <2> QED
      BY <2>1, <2>2, <2>3
  <1>6. E \in [1..n -> SUBSET (1..n)]
    BY <1>1 DEF Loader!Earlier
  <1>7. \A i \in 1..n : E[i] = Loader!Earlier(files, i)
    OBVIOUS
  <1> HIDE DEF E
  <1>8. /\ \A i \in 1..n : i \notin E[i]
        /\ \A i, j \in 1..n : i # j => i \in E[j] \/ j \in E[i]
    BY <1>3, <1>5
  <1>9. ASSUME NEW i \in 1..n, NEW j \in 1..n, j \in E[i] PROVE E[j] \subseteq E[i]
    <2> SUFFICES ASSUME NEW h \in E[j] PROVE h \in E[i]
      OBVIOUS
    <2>1. h \in 1..n
      BY <1>6
    <2>2. weight(h) \in Nat /\ weight(i) \in Nat /\ weight(j) \in Nat
      BY <1>3, <2>1
    <2> QED
      BY <1>5, <1>9, <2>1, <2>2
  <1>10. /\ \A i \in 1..n : Cardinality(E[i]) \in 0..(n - 1)
         /\ \A i, j \in 1..n : j \in E[i] => Cardinality(E[j]) < Cardinality(E[i])
         /\ \A k \in 1..n : \E i \in 1..n : Cardinality(E[i]) = k - 1
    BY <1>1, <1>6, <1>8, <1>9, Ranked
  <1>11. \A k \in 1..n : at[k] \in 1..n /\ Cardinality(E[at[k]]) = k - 1
    <2> TAKE k \in 1..n
    <2>1. \E i \in DOMAIN files : place(i, k)
      BY <1>1, <1>7, <1>10, LoaderLoops
    <2>2. at[k] = CHOOSE i \in DOMAIN files : place(i, k)
      OBVIOUS
    <2> HIDE DEF at, place
    <2>3. at[k] \in DOMAIN files /\ place(at[k], k)
      BY <2>1, <2>2
    <2> QED
      BY <1>1, <1>7, <2>3, LoaderLoops DEF place
  <1>12. at \in [1..n -> 1..n]
    BY <1>11
  <1>13. /\ DOMAIN Loader!Sorted(files) = 1..n
         /\ \A k \in 1..n : Loader!Sorted(files)[k] = files[at[k]]
    <2>1. DOMAIN Loader!Sorted(files) = 1..n
      BY <1>1 DEF Loader!Sorted
    <2>2. ASSUME NEW k \in 1..n PROVE Loader!Sorted(files)[k] = files[at[k]]
      <3>1. Loader!Sorted(files) =
              [m \in DOMAIN files |-> files[CHOOSE i \in DOMAIN files : place(i, m)]]
        BY Zenon DEF Loader!Sorted
      <3>2. at[k] = CHOOSE i \in DOMAIN files : place(i, k)
        OBVIOUS
      <3> HIDE DEF at, place
      <3> QED
        BY <1>1, <3>1, <3>2
    <2> QED
      BY <2>1, <2>2
  <1> HIDE DEF at, place
  <1>14. ASSUME NEW k \in 1..n, NEW l \in 1..n, k < l PROVE at[k] \in E[at[l]]
    <2>1. at[k] # at[l] /\ at[k] \in 1..n /\ at[l] \in 1..n
      BY <1>11, <1>14
    <2>2. CASE at[l] \in E[at[k]]
      <3>1. Cardinality(E[at[l]]) < Cardinality(E[at[k]])
        BY <1>10, <2>1, <2>2
      <3> QED
        BY <1>11, <1>14, <3>1
    <2> QED
      BY <1>8, <2>1, <2>2
  <1>15. ASSUME NEW i \in 1..n PROVE \E k \in 1..n : at[k] = i
    <2> DEFINE k == Cardinality(E[i]) + 1
    <2>1. k \in 1..n /\ k - 1 = Cardinality(E[i])
      BY <1>1, <1>10
    <2>2. Cardinality(E[at[k]]) = Cardinality(E[i]) /\ at[k] \in 1..n
      BY <1>11, <2>1
    <2>3. CASE at[k] # i
      <3>1. Cardinality(E[at[k]]) < Cardinality(E[i]) \/ Cardinality(E[i]) < Cardinality(E[at[k]])
        BY <1>8, <1>10, <2>2, <2>3
      <3> QED
        BY <2>1, <2>2, <3>1, <1>10
    <2> QED
      BY <2>1, <2>3
  <1>16. \A k, l \in 1..n : k < l => at[k] \in Loader!Earlier(files, at[l])
    BY <1>7, <1>12, <1>14
  <1> QED
    BY <1>1, <1>12, <1>13, <1>15, <1>16

(* Of two files with one key the later is a duplicate. *)
LEMMA AmbiguityIsSeen ==
  ASSUME NEW files \in Seq(Loader!AnyFile), NEW i \in DOMAIN files, NEW j \in DOMAIN files,
         i # j, Loader!SameKey(files[i], files[j])
  PROVE  Loader!Duplicates(files) # {}
  <1>1. i \in Nat \ {0} /\ j \in Nat \ {0}
    OBVIOUS
  <1>2. i \in 1..(j - 1) \/ j \in 1..(i - 1)
    BY <1>1
  <1> QED
    BY <1>2 DEF Loader!Duplicates, Loader!SameKey

-----------------------------------------------------------------------------
(* MigrationLoader: the invariant.  Only a pass that met no duplicate marks  *)
(* a load complete.                                                          *)

Ambiguous == \E i, j \in DOMAIN Loader!Files : i # j /\ Loader!SameKey(Loader!Files[i], Loader!Files[j])

Drawn(s) == s \in Seq(Loader!AnyFile) /\ \A i \in DOMAIN s : \E j \in DOMAIN Loader!Files : s[i] = Loader!Files[j]

LoaderInv ==
  /\ lOpts \in AllOptions
  /\ lListing \in AllListings
  /\ Drawn(lHeld)
  /\ lLoaded \in BOOLEAN
  /\ lResult \in {"none", "ok", "error"}
  /\ lResult = "ok" <=> lLoaded
  /\ Ambiguous => ~lLoaded

Exactly(r, files) ==
  /\ Len(r) = Len(files)
  /\ Loader!ToSet(r) = Loader!ToSet(files)
  /\ \A i, j \in DOMAIN r : i < j => Loader!FileBefore(r[i], r[j])

LEMMA LoaderFiles ==
  ASSUME LoaderInv
  PROVE  /\ Loader!Files \in Seq(Loader!AnyFile)
         /\ \A i \in DOMAIN Loader!Files : Loader!Files[i].dir \in {"up", "down"}
  BY FilesListed DEF LoaderInv, Loader!Files, Loader!ParsesAsMigration

(* Files without a duplicate are sorted by their keys. *)
LEMMA SortedExactly ==
  ASSUME NEW files \in Seq(Loader!AnyFile),
         \A i \in DOMAIN files : files[i].dir \in {"up", "down"},
         Loader!Duplicates(files) = {}
  PROVE  Exactly(Loader!Sorted(files), files)
  <1> DEFINE r == Loader!Sorted(files)
  <1>1. DOMAIN files = 1..Len(files) /\ Len(files) \in Nat
    OBVIOUS
  <1>2. PICK at \in [DOMAIN files -> DOMAIN files] :
          /\ \A k \in DOMAIN files : r[k] = files[at[k]]
          /\ \A i \in DOMAIN files : \E k \in DOMAIN files : at[k] = i
          /\ \A k, l \in DOMAIN files : k < l => at[k] \in Loader!Earlier(files, at[l])
    BY SortedLists
  <1>3. DOMAIN r = DOMAIN files
    BY SortedLists
  <1>4. Len(r) = Len(files)
    <2>1. r = [k \in 1..Len(files) |-> r[k]]
      BY <1>1, <1>3 DEF Loader!Sorted
    <2> HIDE DEF r
    <2> QED
      BY <1>1, <2>1
  <1> HIDE DEF r
  <1>5. Loader!ToSet(r) = Loader!ToSet(files)
    BY <1>2, <1>3 DEF Loader!ToSet
  <1>6. ASSUME NEW k \in DOMAIN r, NEW l \in DOMAIN r, k < l
        PROVE  Loader!FileBefore(r[k], r[l])
    <2>1. at[k] \in Loader!Earlier(files, at[l]) /\ r[k] = files[at[k]] /\ r[l] = files[at[l]]
      BY <1>2, <1>3, <1>6
    <2>2. at[k] \in DOMAIN files /\ at[l] \in DOMAIN files
      BY <1>2, <1>3
    <2>3. CASE at[k] # at[l]
      <3>1. ~Loader!SameKey(files[at[k]], files[at[l]])
        BY <2>2, <2>3, AmbiguityIsSeen
      <3>2. /\ files[at[k]].ver \in Nat /\ files[at[k]].dir \in {"up", "down"}
            /\ files[at[l]].ver \in Nat /\ files[at[l]].dir \in {"up", "down"}
        <4>1. files[at[k]] \in Loader!AnyFile /\ files[at[l]] \in Loader!AnyFile
          BY <1>1, <2>2
        <4> QED
          BY <2>2, <4>1 DEF Loader!AnyFile
      <3>3. ~Loader!FileBefore(files[at[l]], files[at[k]]) \/ Loader!FileBefore(files[at[k]], files[at[l]])
        BY <2>1 DEF Loader!Earlier
      <3> QED
        BY <2>1, <3>1, <3>2, <3>3 DEF Loader!SameKey, Loader!FileBefore
    <2>4. CASE at[k] = at[l]
      <3>1. at[l] \in Nat
        BY <1>1, <2>2
      <3> QED
        BY <2>1, <2>4, <3>1 DEF Loader!Earlier, Loader!FileBefore, Loader!AnyFile
    <2> QED
      BY <2>3, <2>4
  <1> QED
    BY <1>4, <1>5, <1>6 DEF Exactly, r

LEMMA DrawnMore ==
  ASSUME LoaderInv, NEW s, Drawn(s)
  PROVE  /\ Drawn(s \o Loader!Files)
         /\ \A m \in 1..Len(Loader!Files) : Drawn(s \o SubSeq(Loader!Files, 1, m - 1))
         /\ Drawn(Loader!Sorted(s))
  <1> DEFINE files == Loader!Files
             S == {f \in Loader!AnyFile : \E j \in DOMAIN files : f = files[j]}
  <1>1. files \in Seq(Loader!AnyFile) /\ \A i \in DOMAIN files : files[i].dir \in {"up", "down"}
    BY LoaderFiles
  <1>2. \A r : Drawn(r) <=> r \in Seq(S)
    <2> TAKE r
    <2>1. ASSUME Drawn(r) PROVE r \in Seq(S)
      <3>1. r = [i \in 1..Len(r) |-> r[i]] /\ Len(r) \in Nat /\ \A i \in 1..Len(r) : r[i] \in S
        BY <2>1 DEF Drawn
      <3> HIDE DEF S
      <3> QED
        BY <3>1
    <2>2. ASSUME r \in Seq(S) PROVE Drawn(r)
      <3>1. r = [i \in 1..Len(r) |-> r[i]] /\ Len(r) \in Nat /\ \A i \in 1..Len(r) : r[i] \in S
        <4> HIDE DEF S
        <4> QED
          BY <2>2
      <3>2. \A i \in 1..Len(r) : r[i] \in Loader!AnyFile /\ \E j \in DOMAIN files : r[i] = files[j]
        BY <3>1
      <3>3. r \in Seq(Loader!AnyFile) /\ DOMAIN r = 1..Len(r)
        BY <3>1, <3>2
      <3> HIDE DEF files, S
      <3> QED
        BY <3>2, <3>3 DEF Drawn, files
    <2> QED
      BY <2>1, <2>2
  <1>3. files \in Seq(S)
    <2>1. Drawn(files)
      BY <1>1 DEF Drawn
    <2> HIDE DEF S
    <2> QED
      BY <1>2, <2>1
  <1>4. s \in Seq(S) /\ s \in Seq(Loader!AnyFile)
    BY <1>2 DEF Drawn
  <1>5. \A f \in S : f.dir \in {"up", "down"}
    BY <1>1
  <1> HIDE DEF S, files
  <1>6. s \o files \in Seq(S)
    BY <1>3, <1>4
  <1>7. \A m \in 1..Len(files) : s \o SubSeq(files, 1, m - 1) \in Seq(S)
    <2> TAKE m \in 1..Len(files)
    <2>1. SubSeq(files, 1, m - 1) \in Seq(S)
      BY <1>3
    <2> QED
      BY <1>4, <2>1
  <1>8. Loader!Sorted(s) \in Seq(S)
    <2>1. DOMAIN s = 1..Len(s) /\ Len(s) \in Nat /\ \A i \in DOMAIN s : s[i] \in S
      BY <1>4
    <2>2. \A i \in DOMAIN s : s[i].dir \in {"up", "down"}
      BY <1>5, <2>1
    <2>3. /\ DOMAIN Loader!Sorted(s) = DOMAIN s
          /\ \A k \in DOMAIN s : Loader!Sorted(s)[k] \in S
      BY <1>4, <2>1, <2>2, SortedLists
    <2>4. Loader!Sorted(s) = [k \in 1..Len(s) |-> Loader!Sorted(s)[k]]
      BY <2>1, <2>3 DEF Loader!Sorted
    <2> QED
      BY <2>1, <2>3, <2>4
  <1> QED
    BY <1>2, <1>6, <1>7, <1>8 DEF files

(* The first stop of a pass is one of its files. *)
LEMMA StopFound ==
  ASSUME NEW n \in Nat, NEW stops \in SUBSET (1..n), stops # {}
  PROVE  Loader!Min(stops) \in 1..n
  <1>1. \E x \in stops : \A y \in stops : x <= y
    BY Smallest
  <1> QED
    BY <1>1 DEF Loader!Min

LEMMA LoadInv ==
  ASSUME LoaderInv, Loader!ReadFiles
  PROVE  /\ LoaderInv'
         /\ (lHeld = <<>> /\ lLoaded') => Exactly(lHeld', Loader!Files)
  <1> DEFINE files == Loader!Files
  <1>1. files \in Seq(Loader!AnyFile) /\ \A i \in DOMAIN files : files[i].dir \in {"up", "down"}
    BY LoaderFiles
  <1>2. PICK bad \in {0} \cup DOMAIN files :
          LET pass == Loader!Collect(lHeld, files, bad)
          IN /\ lHeld' = pass.held
             /\ lLoaded' = pass.ok
             /\ lResult' = IF pass.ok THEN "ok" ELSE "error"
    BY DEF Loader!ReadFiles, Loader!Completed
  <1>3. UNCHANGED <<lOpts, lListing>>
    BY DEF Loader!ReadFiles
  <1>4. Loader!Files' = Loader!Files
    BY <1>3 DEF Loader!Files
  <1>5. (Ambiguous' <=> Ambiguous) /\ \A s : Drawn(s)' <=> Drawn(s')
    BY <1>4 DEF Ambiguous, Drawn
  <1> DEFINE stops == Loader!Duplicates(files) \cup ({bad} \ {0})
  <1>6. CASE stops = {}
    <2>1. lHeld' = Loader!Sorted(lHeld \o files) /\ lLoaded' = TRUE /\ lResult' = "ok"
      BY <1>2, <1>6 DEF Loader!Collect
    <2>2. ~Ambiguous
      BY <1>1, <1>6, AmbiguityIsSeen DEF Ambiguous
    <2>3. Drawn(lHeld')
      BY <2>1, DrawnMore DEF LoaderInv
    <2>4. Drawn(lHeld)'
      BY <1>4, <2>3 DEF Drawn
    <2>5. LoaderInv'
      BY <1>3, <1>5, <2>1, <2>2, <2>4 DEF LoaderInv
    <2>6. ASSUME lHeld = <<>> PROVE Exactly(lHeld', files)
      <3>1. lHeld \o files = files
        BY <1>1, <2>6
      <3> QED
        BY <1>1, <1>6, <2>1, <3>1, SortedExactly
    <2> QED
      BY <2>5, <2>6
  <1>7. CASE stops # {}
    <2>1. /\ lHeld' = lHeld \o SubSeq(files, 1, Loader!Min(stops) - 1)
          /\ lLoaded' = FALSE /\ lResult' = "error"
      BY <1>2, <1>7 DEF Loader!Collect
    <2>2. stops \in SUBSET (1..Len(files)) /\ Len(files) \in Nat
      BY <1>1 DEF Loader!Duplicates
    <2>3. Drawn(lHeld')
      <3>1. Loader!Min(stops) \in 1..Len(files)
        BY <1>7, <2>2, StopFound
      <3> HIDE DEF stops
      <3> QED
        BY <2>1, <3>1, DrawnMore DEF LoaderInv
    <2>4. Drawn(lHeld)'
      BY <1>4, <2>3 DEF Drawn
    <2> QED
      BY <1>3, <1>5, <2>1, <2>4 DEF LoaderInv
  <1> QED
    BY <1>6, <1>7

LEMMA LoaderStepInv ==
  ASSUME LoaderInv, Loader!Next \/ UNCHANGED loaderVars
  PROVE  /\ LoaderInv'
         /\ (lHeld = <<>> /\ ~lLoaded /\ lLoaded') => Exactly(lHeld', Loader!Files)
  <1>1. CASE Loader!ReadFiles
    BY <1>1, LoadInv
  <1>2. CASE Loader!AlreadyLoaded \/ Loader!NoSource \/ Loader!ReadDirFails \/ UNCHANGED loaderVars
    <2>1. UNCHANGED <<lOpts, lListing, lHeld, lLoaded>>
      BY <1>2 DEF Loader!AlreadyLoaded, Loader!NoSource, Loader!ReadDirFails, loaderVars
    <2>2. lResult' \in {"none", "ok", "error"} /\ (lResult' = "ok" <=> lLoaded)
      BY <1>2 DEF Loader!AlreadyLoaded, Loader!NoSource, Loader!ReadDirFails, loaderVars, LoaderInv
    <2>3. Loader!Files' = Loader!Files
      BY <2>1 DEF Loader!Files
    <2>4. (Ambiguous' <=> Ambiguous) /\ Drawn(lHeld)'
      BY <2>1, <2>3 DEF Ambiguous, Drawn, LoaderInv
    <2> QED
      BY <2>1, <2>2, <2>4 DEF LoaderInv
  <1> QED
    BY <1>1, <1>2 DEF Loader!Next

LEMMA LoaderInit ==
  ASSUME Loader!Init
  PROVE  LoaderInv
  <1>1. Drawn(<<>>)
    BY DEF Drawn
  <1> QED
    BY <1>1 DEF Loader!Init, LoaderInv

LEMMA LoaderStays == PartsSpec => []LoaderInv
  <1>1. PartsInit => LoaderInv
    BY LoaderInit DEF PartsInit
  <1>2. LoaderInv /\ [PartsNext]_partsVars => LoaderInv'
    BY StepsOrRests, LoaderStepInv DEF partsVars
  <1> QED
    BY <1>1, <1>2, PTL DEF PartsSpec

(* A Runner whose sources hold two files of one version and direction never  *)
(* has a usable set of migrations, for any sources, whatever reads fail and  *)
(* however often it is called.                                               *)
THEOREM AmbiguousNeverLoads == PartsSpec => []AmbiguityIsRefused
  <1>1. LoaderInv => AmbiguityIsRefused
    BY DEF LoaderInv, Ambiguous, AmbiguityIsRefused, Loader!AmbiguityIsRefused
  <1> QED
    BY <1>1, LoaderStays, PTL

(* A first load that succeeds holds each migration file of the sources once, *)
(* sorted by version with each down before its up, for any sources.          *)
THEOREM LoadsAreExact == PartsSpec => LoadIsExact
  <1>1. LoaderInv /\ [PartsNext]_partsVars =>
          ((lHeld = <<>> /\ ~lLoaded /\ lLoaded') => Exactly(lHeld', Loader!Files))
    BY StepsOrRests, LoaderStepInv DEF partsVars
  <1>2. ((lHeld = <<>> /\ ~lLoaded /\ lLoaded') => Exactly(lHeld', Loader!Files)) =>
          ((lHeld = <<>> /\ ~lLoaded /\ lLoaded') =>
             /\ Len(lHeld') = Len(Loader!Files)
             /\ Loader!ToSet(lHeld') = Loader!ToSet(Loader!Files)
             /\ \A i, j \in DOMAIN lHeld' : i < j => Loader!FileBefore(lHeld'[i], lHeld'[j]))
    BY DEF Exactly
  <1> QED
    BY <1>1, <1>2, LoaderStays, PTL DEF PartsSpec, LoadIsExact, Loader!LoadIsExact

(* Naming a directory twice makes no load fail, for any directories: without *)
(* an embedded file system, there is a duplicate only if two different files *)
(* of the directories have one key.                                          *)
THEOREM RepetitionsAreHarmless == PartsSpec => []RepetitionIsHarmless
  <1>1. ASSUME LoaderInv PROVE RepetitionIsHarmless
    <2> DEFINE sources == Loader!ToSet(Loader!UniqDirs(lOpts))
               clash(s, i, t, j) ==
                 /\ <<s, i>> # <<t, j>>
                 /\ Loader!ParsesAsMigration(lListing[s][i]) /\ Loader!ParsesAsMigration(lListing[t][j])
                 /\ Loader!SameKey(lListing[s][i], lListing[t][j])
               roots == Loader!Roots(lOpts)
               files == Loader!Files
    <2> SUFFICES ASSUME lOpts.embedded = <<>>, Loader!Duplicates(files) # {}
                 PROVE  \E s, t \in sources :
                          \E i \in DOMAIN lListing[s], j \in DOMAIN lListing[t] : clash(s, i, t, j)
      BY DEF RepetitionIsHarmless, Loader!RepetitionIsHarmless
    <2>1. roots = Loader!UniqDirs(lOpts)
      BY <1>1, DirsDiffer DEF Loader!Roots, LoaderInv
    <2>2. \A i, j \in DOMAIN roots : roots[i] = roots[j] => i = j
      BY <1>1, <2>1, DirsDiffer DEF LoaderInv
    <2>3. \A i \in DOMAIN roots : roots[i] \in sources
      BY <2>1 DEF Loader!ToSet
    <2>4. PICK on \in [DOMAIN files -> (DOMAIN roots) \X Nat] :
            /\ \A i, j \in DOMAIN files : on[i] = on[j] => i = j
            /\ \A i \in DOMAIN files :
                 /\ on[i][2] \in DOMAIN lListing[roots[on[i][1]]]
                 /\ files[i] = lListing[roots[on[i][1]]][on[i][2]]
      BY <1>1, FilesListed DEF LoaderInv, Loader!Files
    <2>5. \A i \in DOMAIN files : Loader!ParsesAsMigration(files[i])
      BY <1>1, FilesListed DEF LoaderInv, Loader!Files
    <2>6. DOMAIN files \subseteq Nat
      BY <1>1, LoaderFiles
    <2>7. PICK i \in DOMAIN files : \E h \in 1..(i - 1) : Loader!SameKey(files[i], files[h])
      BY DEF Loader!Duplicates
    <2> PICK j \in 1..(i - 1) : Loader!SameKey(files[i], files[j])
      BY <2>7
    <2>8. j \in DOMAIN files /\ i # j
      BY <1>1, LoaderFiles, <2>6, <2>7
    <2> HIDE DEF sources, roots, files
    <2> DEFINE s == roots[on[i][1]]
               t == roots[on[j][1]]
    <2>9. <<s, on[i][2]>> # <<t, on[j][2]>>
      BY <2>2, <2>4, <2>8
    <2>10. s \in sources /\ t \in sources
      BY <2>3, <2>4, <2>8
    <2>11. clash(s, on[i][2], t, on[j][2])
      BY <2>4, <2>5, <2>7, <2>8, <2>9
    <2>12. on[i][2] \in DOMAIN lListing[s] /\ on[j][2] \in DOMAIN lListing[t]
      BY <2>4, <2>8
    <2> HIDE DEF clash, s, t
    <2> QED
      BY <2>10, <2>11, <2>12
  <1> QED
    BY <1>1, LoaderStays, PTL

-----------------------------------------------------------------------------
(* TraceContext: a service's ids are valid, so the header it sends parses.   *)

Served(i) == i < tNext => Chain!ValidId(tTrace[i]) /\ Chain!ValidId(tSpan[i])

(* What is under way from service i is its own header, unless it was spoiled. *)
HeaderOf(i) ==
  /\ tHeader.length = "canonical" /\ tHeader.version = "00" /\ tHeader.flags # "zz"
  /\ tHeader.traceId = tTrace[i] /\ tHeader.parentId = tSpan[i]

ChainInv ==
  /\ tNext \in 1..Chain!Services + 1
  /\ tTrace \in [1..Chain!Services -> Chain!AnyId \cup {"none"}]
  /\ tSpan \in [1..Chain!Services -> Chain!AnyId \cup {"none"}]
  /\ tHeader \in Chain!Headers
  /\ tIntact \in BOOLEAN /\ tSent \in BOOLEAN
  /\ \A i \in 1..Chain!Services : Served(i)
  /\ (tNext > 1 /\ (~tSent \/ tIntact)) => HeaderOf(tNext - 1)
  /\ (tSent /\ tIntact) => tNext > 1
  /\ tArrived \subseteq 2..(tNext - 1)
  /\ \A i \in tArrived \cap Chain!Trusting : tTrace[i] = tTrace[i - 1]

LEMMA ChainConstants ==
  /\ Chain!Services \in Nat
  /\ Chain!Zero \notin TraceIds /\ Chain!NotHex \notin TraceIds
  <1>1. Len(TraceOptions) \in Nat
    BY TraceAssumption DEF Chain!ConstantsOK
  <1>2. Chain!Zero \notin TraceIds /\ Chain!NotHex \notin TraceIds
    BY TraceAssumption DEF Chain!ConstantsOK
  <1> QED
    BY <1>1, <1>2 DEF Chain!Services

LEMMA NewIdValid ==
  ASSUME NEW draw \in TraceIds \cup {Chain!Zero}
  PROVE  Chain!NewId(draw) \in Chain!AnyId /\ Chain!ValidId(Chain!NewId(draw))
  BY ChainConstants
     DEF Chain!NewId, Chain!ValidId, Chain!AnyId, Chain!Zero, Chain!NotHex, Chain!First

LEMMA ChainInit ==
  ASSUME Chain!Init
  PROVE  ChainInv
  <1>1. tHeader \in Chain!Headers
    BY DEF Chain!Init, Chain!NoHeader, Chain!Headers, Chain!Lengths, Chain!AnyId
  <1>2. tNext = 1 /\ ~tSent /\ tIntact = FALSE /\ tArrived = {}
    BY DEF Chain!Init
  <1>3. /\ tTrace \in [1..Chain!Services -> Chain!AnyId \cup {"none"}]
        /\ tSpan \in [1..Chain!Services -> Chain!AnyId \cup {"none"}]
    BY DEF Chain!Init
  <1>4. tSent \in BOOLEAN
    BY DEF Chain!Init
  <1>5. \A i \in 1..Chain!Services : Served(i)
    BY <1>2 DEF Served
  <1>6. tNext \in 1..Chain!Services + 1 /\ ~(tNext > 1)
    BY <1>2, ChainConstants
  <1> QED
    BY <1>1, <1>2, <1>3, <1>4, <1>5, <1>6 DEF ChainInv

LEMMA SendInv ==
  ASSUME ChainInv, NEW h \in IF tNext = 1 THEN Chain!Headers ELSE {tHeader} \cup Chain!Spoiled, Chain!Send(h)
  PROVE  ChainInv'
  <1>1. h \in Chain!Headers
    BY DEF Chain!Spoiled, Chain!NoHeader, Chain!Headers, Chain!Lengths, Chain!AnyId, ChainInv
  <1>2. tNext' > 1 /\ (~tSent' \/ tIntact') => HeaderOf(tNext - 1)'
    BY DEF Chain!Send, ChainInv, HeaderOf
  <1>3. tSent' /\ tIntact' => tNext' > 1
    BY DEF Chain!Send, ChainInv
  <1>4. tIntact' \in BOOLEAN /\ tSent' \in BOOLEAN
    BY ChainConstants DEF Chain!Send, ChainInv
  <1> QED
    BY <1>1, <1>2, <1>3, <1>4 DEF Chain!Send, ChainInv, Served

(* The header a service sends is one the next service parses. *)
LEMMA SentParses ==
  ASSUME ChainInv, tNext > 1, HeaderOf(tNext - 1), tNext \in 1..Chain!Services
  PROVE  Chain!Parses(tHeader)
  <1>1. Served(tNext - 1) /\ tNext - 1 < tNext
    BY ChainConstants DEF ChainInv
  <1> QED
    BY <1>1 DEF Chain!Parses, HeaderOf, Served

LEMMA ServeInv ==
  ASSUME ChainInv, NEW i \in 1..Chain!Services,
         NEW drawTrace \in TraceIds \cup {Chain!Zero}, NEW drawSpan \in TraceIds \cup {Chain!Zero},
         Chain!Serve(i, drawTrace, drawSpan)
  PROVE  ChainInv'
  <1> DEFINE own == Chain!NewId(drawTrace)
             t == IF i \in Chain!Trusting /\ Chain!Parses(tHeader) THEN tHeader.traceId ELSE own
             s == Chain!NewId(drawSpan)
  <1>1. /\ tSent /\ i = tNext
        /\ tTrace' = [tTrace EXCEPT ![i] = t]
        /\ tSpan' = [tSpan EXCEPT ![i] = s]
        /\ tHeader' = Chain!Formatted(t, s, Chain!Sampled(i))
        /\ tArrived' = IF tIntact THEN tArrived \cup {i} ELSE tArrived
        /\ tNext' = tNext + 1
        /\ tSent' = FALSE
        /\ tIntact' = tIntact
    BY DEF Chain!Serve
  <1>2. own \in Chain!AnyId /\ Chain!ValidId(own) /\ s \in Chain!AnyId /\ Chain!ValidId(s)
    BY NewIdValid
  <1>3. tHeader.traceId \in Chain!AnyId
    BY DEF ChainInv, Chain!Headers
  <1>4. t \in Chain!AnyId /\ Chain!ValidId(t)
    BY <1>2, <1>3 DEF Chain!Parses
  <1>5. i \in Chain!Trusting /\ tIntact => t = tTrace[i - 1] /\ i > 1
    <2> SUFFICES ASSUME i \in Chain!Trusting, tIntact PROVE t = tTrace[i - 1] /\ i > 1
      OBVIOUS
    <2>1. tNext > 1 /\ HeaderOf(tNext - 1)
      BY <1>1 DEF ChainInv
    <2>2. Chain!Parses(tHeader)
      BY <1>1, <2>1, SentParses
    <2> QED
      BY <1>1, <2>1, <2>2 DEF HeaderOf
  <1>6. Chain!Sampled(i) \in {"00", "01"}
    BY DEF Chain!Sampled
  <1> HIDE DEF own, t, s
  <1>7. tHeader' \in Chain!Headers
    BY <1>1, <1>2, <1>4, <1>6 DEF Chain!Formatted, Chain!Headers, Chain!Lengths
  <1>8. HeaderOf(tNext - 1)'
    <2>1. tNext' - 1 = i /\ tTrace'[i] = t /\ tSpan'[i] = s
      BY <1>1, ChainConstants DEF ChainInv
    <2>2. /\ tHeader'.length = "canonical" /\ tHeader'.version = "00" /\ tHeader'.flags # "zz"
          /\ tHeader'.traceId = t /\ tHeader'.parentId = s
      <3>1. tHeader' = [length |-> "canonical", version |-> "00", traceId |-> t, parentId |-> s,
                        flags |-> Chain!Sampled(i)]
        BY <1>1 DEF Chain!Formatted
      <3>2. Chain!Sampled(i) # "zz"
        BY <1>6
      <3> QED
        BY <3>1, <3>2
    <2> QED
      BY <2>1, <2>2 DEF HeaderOf
  <1>9. /\ tTrace' \in [1..Chain!Services -> Chain!AnyId \cup {"none"}]
        /\ tSpan' \in [1..Chain!Services -> Chain!AnyId \cup {"none"}]
    BY <1>1, <1>2, <1>4 DEF ChainInv
  <1>10. \A j \in 1..Chain!Services : Served(j)'
    BY <1>1, <1>2, <1>4, ChainConstants DEF ChainInv, Served
  <1>11. tNext' \in 1..Chain!Services + 1 /\ tIntact' \in BOOLEAN /\ tSent' \in BOOLEAN
    <2>1. tNext' \in 1..Chain!Services + 1
      BY <1>1, ChainConstants
    <2>2. tIntact' \in BOOLEAN
      BY <1>1 DEF ChainInv
    <2>3. tSent' \in BOOLEAN
      BY <1>1
    <2> QED
      BY <2>1, <2>2, <2>3
  <1>12. tArrived' \subseteq 2..(tNext' - 1)
    BY <1>1, ChainConstants DEF ChainInv
  <1>13. \A j \in tArrived' \cap Chain!Trusting : tTrace'[j] = tTrace'[j - 1]
    <2> TAKE j \in tArrived' \cap Chain!Trusting
    <2>1. CASE j = i
      BY <1>1, <1>5, <1>12, <2>1, ChainConstants DEF ChainInv
    <2>2. CASE j # i
      BY <1>1, <1>12, <2>2, ChainConstants DEF ChainInv
    <2> QED
      BY <2>1, <2>2
  <1> QED
    BY <1>1, <1>7, <1>8, <1>9, <1>10, <1>11, <1>12, <1>13 DEF ChainInv

LEMMA ChainStep ==
  ASSUME ChainInv, Chain!Next \/ UNCHANGED chainVars
  PROVE  ChainInv'
  <1>1. CASE \E h \in (IF tNext = 1 THEN Chain!Headers ELSE {tHeader} \cup Chain!Spoiled) : Chain!Send(h)
    BY <1>1, SendInv
  <1>2. CASE \E i \in 1..Chain!Services, drawTrace, drawSpan \in TraceIds \cup {Chain!Zero} :
               Chain!Serve(i, drawTrace, drawSpan)
    BY <1>2, ServeInv
  <1>3. CASE UNCHANGED chainVars
    BY <1>3 DEF chainVars, ChainInv, Served, HeaderOf
  <1> QED
    BY <1>1, <1>2, <1>3 DEF Chain!Next

LEMMA ChainStays == PartsSpec => []ChainInv
  <1>1. PartsInit => ChainInv
    BY ChainInit DEF PartsInit
  <1>2. ChainInv /\ [PartsNext]_partsVars => ChainInv'
    BY StepsOrRests, ChainStep DEF partsVars
  <1> QED
    BY <1>1, <1>2, PTL DEF PartsSpec

(* Every service that trusts its callers stays in their trace, in a chain of *)
(* any length, with any options and whatever is drawn, lost or spoiled.      *)
THEOREM TracesStayTogether == PartsSpec => []OneTrace
  <1>1. ChainInv => OneTrace
    BY DEF ChainInv, OneTrace, Chain!OneTrace
  <1> QED
    BY <1>1, ChainStays, PTL

-----------------------------------------------------------------------------
(* WaitForApi. *)

(* A backoff is a natural number, whatever the table says.                  *)
LEMMA BackoffNat ==
  ASSUME NEW a \in Nat
  PROVE  Wait!Backoff(a) \in Nat
  <1> DEFINE d == IF a + 1 \in DOMAIN Decayed THEN Decayed[a + 1] ELSE 0
  <1>1. d \in Nat
    BY WaitAssumption DEF Wait!ConstantsOK
  <1>2. InitialBackoff \in Nat /\ MaxBackoff \in Nat
    BY WaitAssumption DEF Wait!ConstantsOK
  <1>3. Wait!Backoff(a) = Wait!Smaller(Wait!Larger(MaxBackoff - d, InitialBackoff), MaxBackoff)
    BY DEF Wait!Backoff
  <1> HIDE DEF d
  <1> QED
    BY <1>1, <1>2, <1>3 DEF Wait!Smaller, Wait!Larger

(* The clipped sleep ends within the budget of the clock reading it was      *)
(* clipped with.                                                            *)
LEMMA SleepWithinBudget ==
  ASSUME NEW e \in 0..Budget, NEW a \in Nat
  PROVE  Wait!TimeToNext(e, a) \in 0..(Budget - e)
  <1>1. Wait!Backoff(a) \in Nat
    BY BackoffNat
  <1>2. Budget \in Nat
    BY WaitAssumption DEF Wait!ConstantsOK
  <1> QED
    BY <1>1, <1>2 DEF Wait!TimeToNext

-----------------------------------------------------------------------------
(* Why the wait is bounded: a request is over RequestTime after the reading  *)
(* of the clock at most, which was within the budget, and a sleep ends by    *)
(* the deadline.                                                            *)
PhaseBounded ==
  /\ wElapsed <= wClock
  /\ wPc = "request" => wClock <= wElapsed + RequestTime
  /\ wPc = "sleep" => wClock <= wWake /\ wWake <= Wait!Deadline

WaitInv == Wait!TypeOK /\ PhaseBounded /\ Wait!WaitIsBounded

LEMMA WaitInit ==
  ASSUME Wait!Init
  PROVE  WaitInv
  <1> QED
    BY WaitAssumption
       DEF Wait!ConstantsOK, Wait!Init, WaitInv, Wait!TypeOK, PhaseBounded, Wait!WaitIsBounded,
           Wait!Deadline, Wait!Never

LEMMA WaitTimePassesInv ==
  ASSUME WaitInv, Wait!TimePasses
  PROVE  WaitInv'
  <1>1. Wait!TypeOK'
    BY WaitAssumption
       DEF Wait!ConstantsOK, Wait!TimePasses, WaitInv, Wait!TypeOK, Wait!Deadline, Wait!Never
  <1>2. CASE wPc = "request"
    BY <1>1, <1>2, WaitAssumption
       DEF Wait!ConstantsOK, Wait!TimePasses, WaitInv, Wait!TypeOK, PhaseBounded,
           Wait!WaitIsBounded, Wait!Deadline
  <1>3. CASE wPc = "sleep"
    BY <1>1, <1>3, WaitAssumption
       DEF Wait!ConstantsOK, Wait!TimePasses, WaitInv, Wait!TypeOK, PhaseBounded,
           Wait!WaitIsBounded, Wait!Deadline
  <1> QED
    BY <1>2, <1>3 DEF Wait!TimePasses

LEMMA WaitNotReadyInv ==
  ASSUME WaitInv, Wait!NotReady
  PROVE  WaitInv'
  <1>1. Wait!TimeToNext(wElapsed, wAttempt) \in 0..(Budget - wElapsed)
    BY SleepWithinBudget DEF WaitInv, Wait!TypeOK
  <1>2. wClock <= wWake' /\ wWake' <= Wait!Deadline /\ wWake' \in Nat
    BY <1>1, WaitAssumption
       DEF Wait!ConstantsOK, Wait!NotReady, WaitInv, Wait!TypeOK, PhaseBounded, Wait!Deadline
  <1> QED
    BY <1>2, WaitAssumption
       DEF Wait!ConstantsOK, Wait!NotReady, WaitInv, Wait!TypeOK, PhaseBounded,
           Wait!WaitIsBounded, Wait!Deadline

LEMMA WaitAgainInv ==
  ASSUME WaitInv, Wait!Again
  PROVE  WaitInv'
  <1> QED
    BY WaitAssumption
       DEF Wait!ConstantsOK, Wait!Again, Wait!Awake, WaitInv, Wait!TypeOK, PhaseBounded,
           Wait!WaitIsBounded, Wait!Deadline

LEMMA WaitEndInv ==
  ASSUME WaitInv, Wait!Ready \/ Wait!GiveUp
  PROVE  WaitInv'
  <1> QED
    BY WaitAssumption
       DEF Wait!ConstantsOK, Wait!Ready, Wait!GiveUp, Wait!Awake, WaitInv, Wait!TypeOK,
           PhaseBounded, Wait!WaitIsBounded, Wait!Deadline

LEMMA WaitStepInv ==
  ASSUME WaitInv, Wait!Next \/ UNCHANGED waitVars
  PROVE  WaitInv'
  <1>1. CASE Wait!TimePasses
    BY <1>1, WaitTimePassesInv
  <1>2. CASE Wait!Ready
    BY <1>2, WaitEndInv
  <1>3. CASE Wait!NotReady
    BY <1>3, WaitNotReadyInv
  <1>4. CASE Wait!Again
    BY <1>4, WaitAgainInv
  <1>5. CASE Wait!GiveUp
    BY <1>5, WaitEndInv
  <1>6. CASE UNCHANGED waitVars
    BY <1>6 DEF waitVars, WaitInv, Wait!TypeOK, PhaseBounded, Wait!WaitIsBounded, Wait!Deadline
  <1> QED
    BY <1>1, <1>2, <1>3, <1>4, <1>5, <1>6 DEF Wait!Next

LEMMA WaitStays == PartsSpec => []WaitInv
  <1>1. PartsInit => WaitInv
    BY WaitInit DEF PartsInit
  <1>2. WaitInv /\ [PartsNext]_partsVars => WaitInv'
    BY StepsOrRests, WaitStepInv DEF partsVars
  <1> QED
    BY <1>1, <1>2, PTL DEF PartsSpec

(* Whatever the budget, the timeout and the backoffs, waitForAPI is over one *)
(* request timeout after its budget.                                        *)
THEOREM WaitsEnd == PartsSpec => []WaitIsBounded
  <1>1. WaitInv => WaitIsBounded
    BY DEF WaitInv, WaitIsBounded
  <1> QED
    BY <1>1, WaitStays, PTL

(* The times of Earliest add up as the loop's turns do. *)
LEMMA EarliestAdds ==
  /\ Wait!Earliest[0] = 0
  /\ \A a \in 0..Budget : a > 0 => Wait!Earliest[a] = Wait!Earliest[a - 1] + Wait!Backoff(a - 1)
  <1> DEFINE Adds(f, k) == f = [a \in 0..k |-> IF a = 0 THEN 0 ELSE f[a - 1] + Wait!Backoff(a - 1)]
             S == {k \in Nat : \E f : Adds(f, k)}
  <1>1. 0 \in S
    <2> DEFINE f == [a \in 0..0 |-> 0]
    <2>1. f = [a \in 0..0 |-> IF a = 0 THEN 0 ELSE f[a - 1] + Wait!Backoff(a - 1)]
      OBVIOUS
    <2> HIDE DEF f
    <2>2. Adds(f, 0)
      BY <2>1
    <2> HIDE DEF Adds
    <2> QED
      BY <2>2
  <1>2. ASSUME NEW k \in Nat, k \in S PROVE k + 1 \in S
    <2>1. PICK f : Adds(f, k)
      BY <1>2
    <2> DEFINE g == [a \in 0..(k + 1) |-> IF a <= k THEN f[a] ELSE f[k] + Wait!Backoff(k)]
    <2>2. ASSUME NEW a \in 0..(k + 1)
          PROVE  g[a] = IF a = 0 THEN 0 ELSE g[a - 1] + Wait!Backoff(a - 1)
      <3>1. CASE a <= k
        <4>1. a \in 0..k /\ (a = 0 \/ a - 1 \in 0..k)
          BY <3>1
        <4>2. f[a] = IF a = 0 THEN 0 ELSE f[a - 1] + Wait!Backoff(a - 1)
          BY <2>1, <4>1
        <4> QED
          BY <3>1, <4>1, <4>2
      <3>2. CASE a = k + 1
        BY <3>2
      <3> QED
        BY <3>1, <3>2
    <2>3. g = [a \in 0..(k + 1) |-> IF a = 0 THEN 0 ELSE g[a - 1] + Wait!Backoff(a - 1)]
      BY <2>2
    <2> HIDE DEF g
    <2>4. Adds(g, k + 1)
      BY <2>3
    <2> HIDE DEF Adds
    <2> QED
      BY <2>4
  <1>3. Budget \in S
    <2>1. Budget \in Nat
      BY WaitAssumption DEF Wait!ConstantsOK
    <2> HIDE DEF S
    <2> QED
      BY <1>1, <1>2, <2>1, Inductive
  <1>4. Adds(Wait!Earliest, Budget)
    <2>1. \E f : Adds(f, Budget)
      BY <1>3
    <2> QED
      BY <2>1 DEF Wait!Earliest
  <1>5. Budget \in Nat
    BY WaitAssumption DEF Wait!ConstantsOK
  <1> QED
    BY <1>4, <1>5

(* Why an early API is found: a sleep that follows an early reading of the   *)
(* clock ends before the budget, and a request that is read after the API    *)
(* came up to stay does not fail.                                            *)
Prompt ==
  /\ wAttempt <= wElapsed
  /\ wElapsed < Budget => wElapsed >= Wait!Earliest[wAttempt]
  /\ wApi # "up" => wUpSince = Wait!Never
  /\ wPc = "sleep" => /\ wUpSince > wElapsed
                      /\ wElapsed <= Budget \div 2 => wWake < Budget
                      /\ wElapsed < Budget => wWake > wElapsed
                      /\ wWake < Budget => wWake >= wElapsed + Wait!Backoff(wAttempt)
  /\ wPc = "failed" => wUpSince > Budget \div 2

LEMMA PromptInit ==
  ASSUME Wait!Init
  PROVE  Prompt
  BY EarliestAdds DEF Wait!Init, Prompt

LEMMA WaitNumbers ==
  ASSUME WaitInv
  PROVE  /\ Budget \in Nat /\ RequestTime \in Nat
         /\ wClock \in Nat /\ wElapsed \in 0..Budget /\ wAttempt \in Nat /\ wWake \in Nat
         /\ wUpSince \in Nat /\ wElapsed <= wClock /\ wClock <= Wait!Deadline
         /\ Wait!Backoff(wAttempt) \in Nat
         /\ Wait!Deadline = Budget + RequestTime /\ Wait!Never = Budget + RequestTime + 1
  BY WaitAssumption, BackoffNat
     DEF Wait!ConstantsOK, WaitInv, Wait!TypeOK, PhaseBounded, Wait!WaitIsBounded, Wait!Deadline,
         Wait!Never

LEMMA EarliestNat == \A a \in 0..Budget : Wait!Earliest[a] \in Nat
  <1> DEFINE S == {a \in Nat : a \in 0..Budget => Wait!Earliest[a] \in Nat}
  <1>1. 0 \in S
    BY EarliestAdds
  <1>2. ASSUME NEW a \in Nat, a \in S PROVE a + 1 \in S
    <2> SUFFICES ASSUME a + 1 \in 0..Budget PROVE Wait!Earliest[a + 1] \in Nat
      OBVIOUS
    <2>1. Budget \in Nat
      BY WaitAssumption DEF Wait!ConstantsOK
    <2>2. Wait!Earliest[a] \in Nat /\ (a + 1) - 1 = a /\ a + 1 > 0
      BY <1>2, <2>1
    <2> QED
      BY <2>2, BackoffNat, EarliestAdds
  <1>3. \A a \in Nat : a \in S
    <2> HIDE DEF S
    <2> QED
      BY <1>1, <1>2, Inductive
  <1> QED
    BY <1>3

LEMMA FirstHalf == Budget \in Nat /\ Budget \div 2 \in Nat /\ Budget \div 2 < Budget
  <1>1. Budget \in Nat /\ RequestTime \in Nat
    BY WaitAssumption DEF Wait!ConstantsOK
  <1>2. Budget \div 2 \in Nat /\ (Budget # 0 => Budget \div 2 < Budget)
    BY <1>1
  <1>3. Budget # 0
    <2>1. Wait!Earliest[0] = 0 /\ 0 \in 0..Budget
      BY <1>1, EarliestAdds
    <2>2. Wait!Backoff(0) > 0 /\ Budget \div 2 + RequestTime + Wait!Backoff(0) < Budget
      BY <1>2, <2>1, BackoffAssumption DEF Wait!BackoffsAreShort
    <2>3. Wait!Backoff(0) \in Nat
      BY BackoffNat
    <2> QED
      BY <1>1, <1>2, <2>2, <2>3
  <1> QED
    BY <1>1, <1>2, <1>3

LEMMA PromptTimePasses ==
  ASSUME WaitInv, Prompt, Wait!TimePasses
  PROVE  Prompt'
  <1>1. wClock' > wClock /\ UNCHANGED <<wPc, wElapsed, wAttempt, wWake>> /\ wPc # "failed"
    BY WaitNumbers DEF Wait!TimePasses
  <1>2. wUpSince' = IF wApi' # "up" THEN Wait!Never ELSE IF wApi = "up" THEN wUpSince ELSE wClock'
    BY DEF Wait!TimePasses
  <1>3. wPc = "sleep" => wUpSince' > wElapsed
    BY <1>1, <1>2, WaitNumbers DEF Prompt, Wait!TimePasses
  <1> QED
    BY <1>1, <1>2, <1>3 DEF Prompt

LEMMA PromptNotReady ==
  ASSUME WaitInv, Prompt, Wait!NotReady
  PROVE  Prompt'
  <1> DEFINE d == Wait!TimeToNext(wElapsed, wAttempt)
             b == Wait!Backoff(wAttempt)
  <1>1. /\ wPc' = "sleep" /\ wWake' = wClock + d
        /\ UNCHANGED <<wClock, wApi, wUpSince, wElapsed, wAttempt>>
        /\ wClock <= wElapsed + RequestTime
    BY DEF Wait!NotReady, WaitInv, PhaseBounded
  <1>2. wUpSince > wElapsed
    BY WaitNumbers DEF Wait!NotReady, Prompt
  <1>3. wAttempt \in 0..Budget
    BY WaitNumbers DEF Prompt
  <1>4. b > 0 /\ (Wait!Earliest[wAttempt] <= Budget \div 2 => Budget \div 2 + RequestTime + b < Budget)
    BY <1>3, BackoffAssumption DEF Wait!BackoffsAreShort
  <1>5. d = IF wElapsed + b > Budget THEN Budget - wElapsed ELSE b
    BY DEF Wait!TimeToNext
  <1>6. Budget \div 2 \in Nat /\ Budget \div 2 < Budget
    BY FirstHalf
  <1> HIDE DEF d, b
  <1>7. b \in Nat
    BY WaitNumbers DEF b
  <1>8. wElapsed < Budget => wWake' > wElapsed
    BY <1>1, <1>4, <1>5, <1>7, WaitNumbers
  <1>9. wWake' < Budget => wWake' >= wElapsed + b
    BY <1>1, <1>5, <1>7, WaitNumbers
  <1>10. ASSUME wElapsed <= Budget \div 2 PROVE wWake' < Budget
    <2>1. Wait!Earliest[wAttempt] <= Budget \div 2
      <3>1. wElapsed >= Wait!Earliest[wAttempt]
        BY <1>6, <1>10, WaitNumbers DEF Prompt
      <3>2. Wait!Earliest[wAttempt] \in Nat
        BY <1>3, EarliestNat
      <3> QED
        BY <1>6, <1>10, <3>1, <3>2, WaitNumbers
    <2>2. Budget \div 2 + RequestTime + b < Budget
      BY <1>4, <2>1
    <2> QED
      BY <1>1, <1>5, <1>6, <1>7, <1>10, <2>2, WaitNumbers
  <1> QED
    BY <1>1, <1>2, <1>8, <1>9, <1>10 DEF Prompt, b

LEMMA PromptAgain ==
  ASSUME WaitInv, Prompt, Wait!Again
  PROVE  Prompt'
  <1>1. /\ wPc = "sleep" /\ wPc' = "request" /\ wClock = wWake /\ wElapsed < Budget
        /\ wAttempt' = wAttempt + 1 /\ wElapsed' = wClock
        /\ UNCHANGED <<wClock, wApi, wUpSince, wWake>>
    BY DEF Wait!Again, Wait!Awake
  <1>2. wWake > wElapsed
    BY <1>1 DEF Prompt
  <1>3. wAttempt' <= wElapsed'
    BY <1>1, <1>2, WaitNumbers DEF Prompt
  <1>4. ASSUME wElapsed' < Budget PROVE wElapsed' >= Wait!Earliest[wAttempt']
    <2>1. wElapsed' >= wElapsed + Wait!Backoff(wAttempt) /\ wElapsed >= Wait!Earliest[wAttempt]
      BY <1>1, <1>4 DEF Prompt
    <2>2. wAttempt + 1 \in 0..Budget /\ wAttempt \in 0..Budget
      BY <1>1, <1>3, <1>4, WaitNumbers
    <2>3. Wait!Earliest[wAttempt + 1] = Wait!Earliest[wAttempt] + Wait!Backoff(wAttempt)
      <3>1. (wAttempt + 1) - 1 = wAttempt /\ wAttempt + 1 > 0
        BY WaitNumbers
      <3> QED
        BY <2>2, <3>1, EarliestAdds
    <2>4. Wait!Earliest[wAttempt] \in Nat
      BY <2>2, EarliestNat
    <2> QED
      BY <1>1, <2>1, <2>3, <2>4, WaitNumbers
  <1> QED
    BY <1>1, <1>3, <1>4 DEF Prompt

LEMMA PromptGiveUp ==
  ASSUME WaitInv, Prompt, Wait!GiveUp
  PROVE  Prompt'
  <1>1. /\ wPc = "sleep" /\ wPc' = "failed" /\ wClock = wWake /\ wClock >= Budget
        /\ UNCHANGED <<wClock, wApi, wUpSince, wElapsed, wAttempt, wWake>>
    BY DEF Wait!GiveUp, Wait!Awake
  <1>2. wElapsed > Budget \div 2 /\ wUpSince > wElapsed
    BY <1>1, FirstHalf, WaitNumbers DEF Prompt
  <1>3. wUpSince > Budget \div 2
    BY <1>2, FirstHalf, WaitNumbers
  <1> QED
    BY <1>1, <1>3 DEF Prompt

LEMMA PromptStep ==
  ASSUME WaitInv, Prompt, Wait!Next \/ UNCHANGED waitVars
  PROVE  Prompt'
  <1>1. CASE Wait!Ready
    BY <1>1 DEF Wait!Ready, Prompt
  <1>2. CASE UNCHANGED waitVars
    BY <1>2 DEF waitVars, Prompt
  <1> QED
    BY <1>1, <1>2, PromptTimePasses, PromptNotReady, PromptAgain, PromptGiveUp DEF Wait!Next

(* An API that comes up in the first half of the budget and stays up is      *)
(* found, for any budget and timeouts for which the backoffs are short.      *)
THEOREM EarlyApisAreFound == PartsSpec => []EarlyApiIsFound
  <1>1. PartsInit => Prompt
    BY PromptInit DEF PartsInit
  <1>2. WaitInv /\ Prompt /\ [PartsNext]_partsVars => Prompt'
    BY StepsOrRests, PromptStep DEF partsVars
  <1>3. Prompt => EarlyApiIsFound
    BY DEF Prompt, EarlyApiIsFound, Wait!EarlyApiIsFound
  <1> QED
    BY <1>1, <1>2, <1>3, WaitStays, PTL DEF PartsSpec

-----------------------------------------------------------------------------
(* Docs: what the request knows.                                             *)

(* The words of the provider agree unless a registration is between them.    *)
WordsInv ==
  /\ dUnstored = {} => dType = dValue
  /\ (dUnstored # {} /\ "type" \notin dUnstored) => dType = dTarget
  /\ (dUnstored # {} /\ "value" \notin dUnstored) => dValue = dTarget

(* The history of a running request has what is there now.                   *)
RunningInv ==
  dPc # "idle" =>
    /\ dKind \in Documents!Kinds
    /\ {dType, dValue} \subseteq dHeld
    /\ dUnstored # {} => dRaced

(* What was compared was registered, and is so still if nothing raced.       *)
CallInv ==
  dPc = "call" =>
    /\ dCompared[1] # Nobody
    /\ {dCompared[1], dCompared[2]} \subseteq dHeld
    /\ ~dRaced => dCompared[1] = dType /\ dCompared[2] = dValue

(* A search begins at the first place, and one that came to a place found    *)
(* none of those before it readable.                                         *)
SearchInv ==
  /\ dPc \in {"idle", "compare", "call"} => dPlace = 1
  /\ dPc \in {"stat", "read"} =>
       /\ dKind = "openapi"
       /\ Nobody \in dHeld
       /\ 1..(dPlace - 1) \subseteq dGone

DocsInv ==
  /\ Documents!TypeOK
  /\ WordsInv /\ RunningInv /\ CallInv /\ SearchInv
  /\ Documents!AnswerHasSource

LEMMA DocsConstants == Nobody \notin Providers /\ Places \in Nat \ {0}
  BY DocsAssumption DEF Documents!ConstantsOK

LEMMA DocsInit ==
  ASSUME Documents!Init
  PROVE  DocsInv
  <1>1. Documents!TypeOK
    <2>1. dAnswer.code = 0
      BY DEF Documents!Init, Documents!NoAnswer, Documents!Answer
    <2>2. dRaced \in BOOLEAN
      BY DEF Documents!Init
    <2>3. dPlace \in 1..Places
      BY DocsConstants DEF Documents!Init
    <2>4. dCompared \in (Providers \cup {Nobody}) \X (Providers \cup {Nobody})
      BY DEF Documents!Init
    <2> QED
      BY <2>1, <2>2, <2>3, <2>4 DEF Documents!Init, Documents!TypeOK
  <1>2. WordsInv /\ RunningInv /\ CallInv /\ SearchInv
    BY DEF Documents!Init, WordsInv, RunningInv, CallInv, SearchInv
  <1>3. Documents!AnswerHasSource
    BY DEF Documents!Init, Documents!AnswerHasSource, Documents!NoAnswer, Documents!Answer
  <1> QED
    BY <1>1, <1>2, <1>3 DEF DocsInv

(* What a step of a running request, or of the world during it, observes.    *)
LEMMA Observed ==
  ASSUME DocsInv, dPc # "idle", Documents!Observe
  PROVE  /\ dHeld' = dHeld \cup {dType', dValue'}
         /\ dRaced' = (dUnstored' # {} \/ dRaced) /\ dRaced' \in BOOLEAN
         /\ dThere' \subseteq 1..Places /\ dGone' \subseteq 1..Places
         /\ dKind = "openapi" =>
              /\ dThere' = dThere \cup Documents!Readable'
              /\ dGone' = dGone \cup ((1..Places) \ Documents!Readable')
  <1>1. Documents!Readable' \subseteq 1..Places
    BY DEF Documents!Readable
  <1>2. dThere \subseteq 1..Places /\ dGone \subseteq 1..Places /\ dRaced \in BOOLEAN
    BY DEF DocsInv, Documents!TypeOK
  <1>3. /\ dHeld' = dHeld \cup {dType', dValue'}
        /\ dRaced' = (dUnstored' # {} \/ dRaced)
    BY DEF Documents!Observe
  <1>4. /\ dThere' = IF "openapi" \in {dKind, dKind'} THEN dThere \cup Documents!Readable' ELSE {}
        /\ dGone' = IF "openapi" \in {dKind, dKind'}
                    THEN dGone \cup ((1..Places) \ Documents!Readable') ELSE {}
    BY DEF Documents!Observe
  <1>5. dRaced' \in BOOLEAN
    BY <1>3
  <1> QED
    BY <1>1, <1>2, <1>3, <1>4, <1>5

-----------------------------------------------------------------------------
(* A step of the world: of a registration, or of the files.                  *)
LEMMA WorldInv ==
  ASSUME DocsInv, Documents!WorldOnly, WordsInv',
         {dType', dValue', dTarget'} \subseteq Providers \cup {Nobody},
         dUnstored' \subseteq {"type", "value"},
         dFiles' \in [1..Places -> {"absent", "unreadable", "readable"}],
         (dType' = dType /\ dValue' = dValue) \/ dUnstored # {}
  PROVE  DocsInv'
  <1> USE DEF Documents!WorldOnly, Documents!requestVars
  <1>1. UNCHANGED <<dPc, dKind, dCompared, dPlace, dAnswer>>
    OBVIOUS
  <1>2. CASE dPc = "idle"
    <2>1. UNCHANGED <<dHeld, dRaced, dThere, dGone>>
      BY <1>2 DEF Documents!historyVars
    <2>2. Documents!TypeOK'
      BY <1>1, <2>1 DEF DocsInv, Documents!TypeOK
    <2>3. RunningInv' /\ CallInv' /\ SearchInv'
      BY <1>1, <1>2 DEF DocsInv, RunningInv, CallInv, SearchInv
    <2>4. Documents!AnswerHasSource'
      BY <1>1, <2>1 DEF DocsInv, Documents!AnswerHasSource
    <2> QED
      BY <2>2, <2>3, <2>4 DEF DocsInv
  <1>3. CASE dPc # "idle"
    <2>1. Documents!Observe
      BY <1>3
    <2>2. /\ dHeld' = dHeld \cup {dType', dValue'}
          /\ dRaced' = (dUnstored' # {} \/ dRaced) /\ dRaced' \in BOOLEAN
          /\ dThere' \subseteq 1..Places /\ dGone' \subseteq 1..Places
          /\ dKind = "openapi" => dGone \subseteq dGone'
      BY <1>3, <2>1, Observed
    <2>3. Documents!TypeOK'
      BY <1>1, <2>2 DEF DocsInv, Documents!TypeOK
    <2>4. RunningInv'
      BY <1>1, <1>3, <2>2 DEF DocsInv, RunningInv
    <2>5. CallInv'
      BY <1>1, <1>3, <2>2 DEF DocsInv, CallInv, RunningInv
    <2>6. SearchInv'
      BY <1>1, <1>3, <2>2 DEF DocsInv, SearchInv
    <2>7. Documents!AnswerHasSource'
      BY <1>1, <1>3 DEF Documents!AnswerHasSource
    <2> QED
      BY <2>3, <2>4, <2>5, <2>6, <2>7 DEF DocsInv
  <1> QED
    BY <1>2, <1>3

LEMMA RegisterInv ==
  ASSUME DocsInv, NEW p \in Providers \cup {Nobody}, Documents!Register(p)
  PROVE  DocsInv'
  <1>1. WordsInv'
    BY DEF Documents!Register, WordsInv
  <1>2. /\ {dType', dValue', dTarget'} \subseteq Providers \cup {Nobody}
        /\ dFiles' \in [1..Places -> {"absent", "unreadable", "readable"}]
    BY DEF Documents!Register, DocsInv, Documents!TypeOK
  <1> QED
    BY <1>1, <1>2, WorldInv DEF Documents!Register

LEMMA StoreInv ==
  ASSUME DocsInv, NEW word \in {"type", "value"}, Documents!Store(word)
  PROVE  DocsInv'
  <1>1. /\ word \in dUnstored /\ dUnstored' = dUnstored \ {word}
        /\ dType' = IF word = "type" THEN dTarget ELSE dType
        /\ dValue' = IF word = "value" THEN dTarget ELSE dValue
        /\ dTarget' = IF dUnstored' = {} THEN Nobody ELSE dTarget
        /\ dFiles' = dFiles
        /\ Documents!WorldOnly
    BY DEF Documents!Store
  <1>2. dUnstored \subseteq {"type", "value"} /\ WordsInv
    BY DEF DocsInv, Documents!TypeOK
  <1>3. WordsInv'
    BY <1>1, <1>2 DEF WordsInv
  <1>4. /\ {dType', dValue', dTarget'} \subseteq Providers \cup {Nobody}
        /\ dFiles' \in [1..Places -> {"absent", "unreadable", "readable"}]
    BY <1>1 DEF DocsInv, Documents!TypeOK
  <1> QED
    BY <1>1, <1>2, <1>3, <1>4, WorldInv

LEMMA ChangeInv ==
  ASSUME DocsInv, NEW i \in 1..Places, NEW state \in {"absent", "unreadable", "readable"},
         Documents!Change(i, state)
  PROVE  DocsInv'
  <1>1. /\ UNCHANGED <<dType, dValue, dTarget, dUnstored>>
        /\ dFiles' = [dFiles EXCEPT ![i] = state]
        /\ Documents!WorldOnly
    BY DEF Documents!Change, Documents!managerVars
  <1>2. WordsInv'
    BY <1>1 DEF DocsInv, WordsInv
  <1>3. dFiles' \in [1..Places -> {"absent", "unreadable", "readable"}]
    BY <1>1 DEF DocsInv, Documents!TypeOK
  <1>4. {dType', dValue', dTarget'} \subseteq Providers \cup {Nobody} /\ dUnstored' \subseteq {"type", "value"}
    BY <1>1 DEF DocsInv, Documents!TypeOK
  <1> QED
    BY <1>1, <1>2, <1>3, <1>4, WorldInv

-----------------------------------------------------------------------------
(* A step of the request: it begins, goes on, or ends with an answer.        *)

StaysThere == UNCHANGED <<dType, dValue, dTarget, dUnstored, dFiles>>

LEMMA StaysTyped ==
  ASSUME DocsInv, StaysThere
  PROVE  /\ WordsInv'
         /\ {dType', dValue', dTarget'} \subseteq Providers \cup {Nobody}
         /\ dUnstored' \subseteq {"type", "value"}
         /\ dFiles' \in [1..Places -> {"absent", "unreadable", "readable"}]
         /\ Documents!Readable' = Documents!Readable
  BY DEF StaysThere, DocsInv, WordsInv, Documents!TypeOK, Documents!Readable

LEMMA BeginInv ==
  ASSUME DocsInv, NEW k \in Documents!Kinds, Documents!Begin(k)
  PROVE  DocsInv'
  <1>1. /\ StaysThere /\ dPc = "idle" /\ dPc' = "compare" /\ dKind' = k
        /\ dAnswer' = Documents!NoAnswer
        /\ dCompared' = dCompared /\ dPlace' = dPlace
        /\ Documents!Observe
    BY DEF Documents!Begin, StaysThere, Documents!managerVars
  <1>2. /\ dHeld' = {} \cup {dType', dValue'}
        /\ dRaced' = (dUnstored' # {} \/ (dRaced /\ FALSE))
    BY <1>1 DEF Documents!Observe
  <1>3. dThere' \subseteq 1..Places /\ dGone' \subseteq 1..Places
    <2>1. Documents!Readable' \subseteq 1..Places
      BY DEF Documents!Readable
    <2>2. /\ dThere' = IF "openapi" \in {dKind, dKind'} THEN {} \cup Documents!Readable' ELSE {}
          /\ dGone' = IF "openapi" \in {dKind, dKind'}
                      THEN {} \cup ((1..Places) \ Documents!Readable') ELSE {}
      BY <1>1 DEF Documents!Observe
    <2> QED
      BY <2>1, <2>2
  <1>4. Documents!TypeOK'
    <2>1. dAnswer'.code = 0
      BY <1>1 DEF Documents!NoAnswer, Documents!Answer
    <2>2. dRaced' \in BOOLEAN
      BY <1>2
    <2> QED
      BY <1>1, <1>3, <2>1, <2>2, StaysTyped DEF DocsInv, Documents!TypeOK
  <1>5. RunningInv' /\ CallInv' /\ SearchInv'
    BY <1>1, <1>2 DEF DocsInv, RunningInv, CallInv, SearchInv
  <1>6. Documents!AnswerHasSource'
    BY <1>1 DEF Documents!AnswerHasSource
  <1> QED
    BY <1>1, <1>4, <1>5, <1>6, StaysTyped DEF DocsInv

(* It goes on: what it does next is known by the invariant of that.          *)
LEMMA GoesOnInv ==
  ASSUME DocsInv, StaysThere, Documents!Observe, dPc # "idle",
         dPc' \in {"call", "stat", "read"}, UNCHANGED <<dKind, dAnswer>>, dPlace' \in 1..Places,
         dCompared' \in (Providers \cup {Nobody}) \X (Providers \cup {Nobody}),
         CallInv', SearchInv'
  PROVE  DocsInv'
  <1>1. /\ dHeld' = dHeld \cup {dType', dValue'}
        /\ dRaced' = (dUnstored' # {} \/ dRaced) /\ dRaced' \in BOOLEAN
        /\ dThere' \subseteq 1..Places /\ dGone' \subseteq 1..Places
    BY Observed
  <1>2. Documents!TypeOK'
    BY <1>1, StaysTyped DEF DocsInv, Documents!TypeOK
  <1>3. RunningInv'
    BY <1>1 DEF RunningInv, DocsInv, StaysThere
  <1>4. Documents!AnswerHasSource'
    BY DEF Documents!AnswerHasSource
  <1> QED
    BY <1>2, <1>3, <1>4, StaysTyped DEF DocsInv

(* It ends with an answer, whose source is to be shown.                      *)
LEMMA ReplyInv ==
  ASSUME DocsInv, StaysThere, Documents!Observe, dPc # "idle",
         dCompared' \in (Providers \cup {Nobody}) \X (Providers \cup {Nobody}),
         NEW code \in {200, 404, 500}, NEW source, NEW which,
         Documents!Reply(code, source, which),
         \/ source = "provider" /\ which \in dHeld'
         \/ source = "default" /\ Nobody \in dHeld'
         \/ source = "file" /\ Nobody \in dHeld' /\ which \in dThere' /\ 1..(which - 1) \subseteq dGone'
         \/ source = "minimal" /\ Nobody \in dHeld' /\ dGone' = 1..Places
         \/ source \in {"panic", "torn"} /\ dRaced'
  PROVE  DocsInv'
  <1>1. /\ dHeld' = dHeld \cup {dType', dValue'}
        /\ dRaced' \in BOOLEAN
        /\ dThere' \subseteq 1..Places /\ dGone' \subseteq 1..Places
    BY Observed
  <1>2. /\ dPc' = "idle" /\ dKind' = "none" /\ dPlace' = 1
        /\ dAnswer' = [code |-> code, source |-> source, which |-> which]
    BY DEF Documents!Reply, Documents!Answer
  <1>3. dAnswer'.code = code /\ dAnswer'.source = source /\ dAnswer'.which = which
    BY <1>2
  <1>4. Documents!TypeOK'
    BY <1>1, <1>2, <1>3, StaysTyped, DocsConstants DEF Documents!TypeOK
  <1>5. RunningInv' /\ CallInv' /\ SearchInv'
    BY <1>2 DEF RunningInv, CallInv, SearchInv
  <1>6. Documents!AnswerHasSource'
    BY <1>3 DEF Documents!AnswerHasSource
  <1> QED
    BY <1>4, <1>5, <1>6, StaysTyped DEF DocsInv

-----------------------------------------------------------------------------
(* The steps of the request.                                                 *)

LEMMA CompareInv ==
  ASSUME DocsInv, Documents!Compare
  PROVE  DocsInv'
  <1>1. dPc = "compare" /\ StaysThere /\ Documents!Observe
    BY DEF Documents!Compare, StaysThere, Documents!managerVars
  <1>2. /\ dHeld' = dHeld \cup {dType', dValue'}
        /\ dRaced' = (dUnstored' # {} \/ dRaced)
        /\ dType' = dType /\ dValue' = dValue /\ dUnstored' = dUnstored
    BY <1>1, Observed DEF StaysThere
  <1>3. /\ {dType, dValue} \subseteq Providers \cup {Nobody} /\ dPlace \in 1..Places
        /\ dCompared \in (Providers \cup {Nobody}) \X (Providers \cup {Nobody})
    BY DEF DocsInv, Documents!TypeOK
  <1>4. CASE dType = Nobody
    <2>1. Documents!Default /\ dCompared' = dCompared
      BY <1>4 DEF Documents!Compare
    <2>2. CASE dKind = "openapi"
      <3>1. dPc' = "stat" /\ dKind' = dKind /\ dPlace' = dPlace /\ dAnswer' = dAnswer
        BY <2>1, <2>2 DEF Documents!Default
      <3>2. dPlace = 1
        BY <1>1 DEF DocsInv, SearchInv
      <3>3. SearchInv'
        BY <1>2, <1>4, <2>2, <3>1, <3>2 DEF SearchInv
      <3>4. CallInv'
        BY <3>1 DEF CallInv
      <3> QED
        BY <1>1, <1>3, <2>1, <3>1, <3>3, <3>4, GoesOnInv
    <2>3. CASE dKind # "openapi"
      <3>1. Documents!Reply(200, "default", 0)
        BY <2>1, <2>3 DEF Documents!Default
      <3>2. Nobody \in dHeld'
        BY <1>2, <1>4
      <3> QED
        BY <1>1, <1>3, <2>1, <3>1, <3>2, ReplyInv
    <2> QED
      BY <2>2, <2>3
  <1>5. CASE dType # Nobody
    <2>1. /\ dPc' = "call" /\ dCompared' = <<dType, dValue>>
          /\ dKind' = dKind /\ dPlace' = dPlace /\ dAnswer' = dAnswer
      BY <1>5 DEF Documents!Compare
    <2>2. dCompared'[1] = dType /\ dCompared'[2] = dValue
      BY <2>1
    <2>3. CallInv'
      BY <1>2, <1>5, <2>2 DEF CallInv
    <2>4. SearchInv'
      BY <1>1, <2>1 DEF DocsInv, SearchInv
    <2> QED
      BY <1>1, <1>3, <2>1, <2>3, <2>4, GoesOnInv
  <1> QED
    BY <1>4, <1>5

LEMMA CallStepInv ==
  ASSUME DocsInv, Documents!Call
  PROVE  DocsInv'
  <1>1. dPc = "call" /\ StaysThere /\ Documents!Observe /\ dCompared' = <<Nobody, Nobody>>
    BY DEF Documents!Call, StaysThere, Documents!managerVars
  <1>2. /\ dHeld' = dHeld \cup {dType', dValue'}
        /\ dRaced' = (dUnstored' # {} \/ dRaced)
        /\ dType' = dType /\ dValue' = dValue /\ dUnstored' = dUnstored
    BY <1>1, Observed DEF StaysThere
  <1>3. dCompared' \in (Providers \cup {Nobody}) \X (Providers \cup {Nobody})
    BY <1>1
  <1>4. PICK t \in {dCompared[1], dType}, v \in {dCompared[2], dValue} :
          \/ t = v /\ t # Nobody /\ Documents!Reply(200, "provider", t)
          \/ t = v /\ t # Nobody /\ dKind # "info"
             /\ Documents!Reply(Documents!ErrorCode(dKind), "provider", t)
          \/ t = Nobody /\ Documents!Reply(500, "panic", 0)
          \/ t # v /\ t # Nobody /\ \E code \in {200, 404, 500} : Documents!Reply(code, "torn", 0)
    BY DEF Documents!Call
  <1>5. t \in dHeld'
    BY <1>1, <1>2 DEF DocsInv, CallInv
  <1>6. (t = Nobody \/ t # v) => dRaced'
    <2> SUFFICES ASSUME ~dRaced' PROVE t # Nobody /\ t = v
      OBVIOUS
    <2>1. ~dRaced /\ dUnstored = {}
      BY <1>2
    <2>2. dType = dValue
      BY <2>1 DEF DocsInv, WordsInv
    <2>3. dCompared[1] = dType /\ dCompared[2] = dValue /\ dType # Nobody
      BY <1>1, <2>1 DEF DocsInv, CallInv
    <2> QED
      BY <2>2, <2>3
  <1>7. CASE t = v /\ t # Nobody /\ Documents!Reply(200, "provider", t)
    BY <1>1, <1>3, <1>5, <1>7, ReplyInv
  <1>8. CASE /\ t = v /\ t # Nobody /\ dKind # "info"
             /\ Documents!Reply(Documents!ErrorCode(dKind), "provider", t)
    <2>1. Documents!ErrorCode(dKind) \in {200, 404, 500}
      BY DEF Documents!ErrorCode
    <2> QED
      BY <1>1, <1>3, <1>5, <1>8, <2>1, ReplyInv
  <1>9. CASE t = Nobody /\ Documents!Reply(500, "panic", 0)
    BY <1>1, <1>3, <1>6, <1>9, ReplyInv
  <1>10. CASE t # v /\ t # Nobody /\ \E code \in {200, 404, 500} : Documents!Reply(code, "torn", 0)
    BY <1>1, <1>3, <1>6, <1>10, ReplyInv
  <1> QED
    BY <1>4, <1>7, <1>8, <1>9, <1>10

(* A place that did not yield its file joins those that were not readable.   *)
LEMMA TryNextInv ==
  ASSUME DocsInv, dPc \in {"stat", "read"}, StaysThere, Documents!Observe, dCompared' = dCompared,
         dPlace \notin Documents!Readable, Documents!TryNext
  PROVE  DocsInv'
  <1>1. dKind = "openapi" /\ Nobody \in dHeld /\ 1..(dPlace - 1) \subseteq dGone
    BY DEF DocsInv, SearchInv
  <1>2. /\ dHeld' = dHeld \cup {dType', dValue'}
        /\ dGone' = dGone \cup ((1..Places) \ Documents!Readable)
        /\ dGone' \subseteq 1..Places
    BY <1>1, Observed, StaysTyped
  <1>3. /\ dPlace \in 1..Places /\ Places \in Nat
        /\ dCompared \in (Providers \cup {Nobody}) \X (Providers \cup {Nobody})
    BY DocsConstants DEF DocsInv, Documents!TypeOK
  <1>4. 1..dPlace \subseteq dGone'
    BY <1>1, <1>2, <1>3
  <1>5. CASE dPlace < Places
    <2>1. dPlace' = dPlace + 1 /\ dPc' = "stat" /\ dKind' = dKind /\ dAnswer' = dAnswer
      BY <1>5 DEF Documents!TryNext
    <2>2. dPlace' \in 1..Places /\ dPlace' - 1 = dPlace
      BY <1>3, <1>5, <2>1
    <2>3. SearchInv'
      BY <1>1, <1>2, <1>4, <2>1, <2>2 DEF SearchInv
    <2>4. CallInv'
      BY <2>1 DEF CallInv
    <2> QED
      BY <1>3, <2>1, <2>2, <2>3, <2>4, GoesOnInv
  <1>6. CASE ~(dPlace < Places)
    <2>1. Documents!Reply(200, "minimal", 0)
      BY <1>6 DEF Documents!TryNext
    <2>2. dGone' = 1..Places
      BY <1>2, <1>3, <1>4, <1>6
    <2> QED
      BY <1>1, <1>2, <1>3, <2>1, <2>2, ReplyInv
  <1> QED
    BY <1>5, <1>6

LEMMA StatInv ==
  ASSUME DocsInv, Documents!Stat
  PROVE  DocsInv'
  <1>1. dPc = "stat" /\ StaysThere /\ Documents!Observe /\ dCompared' = dCompared
    BY DEF Documents!Stat, StaysThere, Documents!managerVars
  <1>2. CASE dFiles[dPlace] # "absent" /\ dPc' = "read" /\ UNCHANGED <<dKind, dPlace, dAnswer>>
    <2>1. dHeld \subseteq dHeld' /\ dGone \subseteq dGone'
      BY <1>1, Observed DEF DocsInv, SearchInv
    <2>2. SearchInv'
      BY <1>1, <1>2, <2>1 DEF DocsInv, SearchInv
    <2>3. CallInv'
      BY <1>2 DEF CallInv
    <2>4. /\ dPlace \in 1..Places
          /\ dCompared \in (Providers \cup {Nobody}) \X (Providers \cup {Nobody})
      BY DEF DocsInv, Documents!TypeOK
    <2> QED
      BY <1>1, <1>2, <2>2, <2>3, <2>4, GoesOnInv
  <1>3. CASE dFiles[dPlace] = "absent" /\ Documents!TryNext
    <2>1. dPlace \notin Documents!Readable
      BY <1>3 DEF Documents!Readable
    <2> QED
      BY <1>1, <1>3, <2>1, TryNextInv
  <1> QED
    BY <1>2, <1>3 DEF Documents!Stat

LEMMA ReadInv ==
  ASSUME DocsInv, Documents!Read
  PROVE  DocsInv'
  <1>1. dPc = "read" /\ StaysThere /\ Documents!Observe /\ dCompared' = dCompared
    BY DEF Documents!Read, StaysThere, Documents!managerVars
  <1>2. CASE dPlace \in Documents!Readable /\ Documents!Reply(200, "file", dPlace)
    <2>1. dKind = "openapi" /\ Nobody \in dHeld /\ 1..(dPlace - 1) \subseteq dGone
      BY <1>1 DEF DocsInv, SearchInv
    <2>2. dHeld \subseteq dHeld' /\ dGone \subseteq dGone' /\ dPlace \in dThere'
      BY <1>1, <1>2, <2>1, Observed, StaysTyped
    <2>3. dCompared \in (Providers \cup {Nobody}) \X (Providers \cup {Nobody})
      BY DEF DocsInv, Documents!TypeOK
    <2> QED
      BY <1>1, <1>2, <2>1, <2>2, <2>3, ReplyInv
  <1>3. CASE dPlace \notin Documents!Readable /\ Documents!TryNext
    BY <1>1, <1>3, TryNextInv
  <1> QED
    BY <1>2, <1>3 DEF Documents!Read

LEMMA DocsStepInv ==
  ASSUME DocsInv, Documents!Next \/ UNCHANGED docsVars
  PROVE  DocsInv'
  <1>1. CASE \E p \in Providers \cup {Nobody} : Documents!Register(p)
    BY <1>1, RegisterInv
  <1>2. CASE \E word \in {"type", "value"} : Documents!Store(word)
    BY <1>2, StoreInv
  <1>3. CASE \E i \in 1..Places : \E state \in {"absent", "unreadable", "readable"} :
               Documents!Change(i, state)
    BY <1>3, ChangeInv
  <1>4. CASE \E k \in Documents!Kinds : Documents!Begin(k)
    BY <1>4, BeginInv
  <1>5. CASE Documents!Compare \/ Documents!Call \/ Documents!Stat \/ Documents!Read
    BY <1>5, CompareInv, CallStepInv, StatInv, ReadInv
  <1>6. CASE UNCHANGED docsVars
    <2> USE <1>6 DEF docsVars
    <2>1. Documents!TypeOK'
      BY DEF DocsInv, Documents!TypeOK
    <2>2. WordsInv' /\ RunningInv' /\ CallInv' /\ SearchInv'
      BY DEF DocsInv, WordsInv, RunningInv, CallInv, SearchInv
    <2>3. Documents!AnswerHasSource'
      BY DEF DocsInv, Documents!AnswerHasSource
    <2> QED
      BY <2>1, <2>2, <2>3 DEF DocsInv
  <1> QED
    BY <1>1, <1>2, <1>3, <1>4, <1>5, <1>6 DEF Documents!Next

LEMMA DocsStays == PartsSpec => []DocsInv
  <1>1. PartsInit => DocsInv
    BY DocsInit DEF PartsInit
  <1>2. DocsInv /\ [PartsNext]_partsVars => DocsInv'
    BY StepsOrRests, DocsStepInv DEF partsVars
  <1> QED
    BY <1>1, <1>2, PTL DEF PartsSpec

(* Every answer of the documentation handlers has a source that was there    *)
(* during the request, for any providers and any number of places, however   *)
(* registrations and changes of the files fall into the request.             *)
THEOREM AnswersHaveSources == PartsSpec => []AnswerHasSource
  <1>1. DocsInv => AnswerHasSource
    BY DEF DocsInv, AnswerHasSource
  <1> QED
    BY <1>1, DocsStays, PTL

-----------------------------------------------------------------------------
(* ListQuery: what the loop over the parameters has gathered.                *)

Seen == DOMAIN qQuery \ qTodo
Clean == {Query!Text(word) : word \in Query!Words}
GivenSeen(name) == \E word \in Query!Words : Query!PlacesIn(Seen, name, word) # {}

(* The filters are those the parameters seen so far give. *)
FiltersOfSeen ==
  /\ DOMAIN qFilters = {name \in Query!Names : Query!Allowed(name) /\ GivenSeen(name)}
  /\ \A name \in DOMAIN qFilters :
       /\ qFilters[name] \in Seq(Clean)
       /\ \A word \in Query!Words :
            Cardinality(PlacesOf(qFilters[name], Query!Text(word)))
              = Cardinality(Query!PlacesIn(Seen, name, word))
  /\ \A name \in Query!Names, word \in Query!Words : IsFiniteSet(Query!PlacesIn(Seen, name, word))

PageBounded ==
  /\ qResult.limit \in Int /\ qResult.limit >= 1
  /\ qResult.offset \in Int /\ qResult.offset >= 0
  /\ qConfig.max > 0 => qResult.limit <= qConfig.max

MissingExactly ==
  Query!ToSet(qResult.missing) = (Query!ToSet(qConfig.required) \ {Query!Blank}) \ DOMAIN qFilters

ListInv ==
  /\ qPc \in {"idle", "range", "done"}
  /\ qConfig \in ListConfigs /\ qNumber \in Numbers
  /\ qQuery \in [DOMAIN qQuery -> ValueLists] /\ DOMAIN qQuery \subseteq ListKeys
  /\ qTodo \subseteq DOMAIN qQuery
  /\ FiltersOfSeen
  /\ qPc = "idle" => DOMAIN qQuery = {}
  /\ qPc = "done" => qTodo = {} /\ PageBounded /\ MissingExactly

LEMMA QueryLoops ==
  ASSUME NEW s, NEW positions
  PROVE  /\ Query!Kept(s, positions) = Kept(s, positions)
         /\ Query!Cardinality(s) = Cardinality(s)
  BY DEF Query!FlattenSeq, FlattenSeq, Query!Kept, Kept, Query!Cardinality, Cardinality

LEMMA TextsTyped ==
  /\ \A text \in Query!Texts :
       Query!TrimSpace(text) = Query!Text(text.word)
  /\ \A v, w : Query!Text(v) = Query!Text(w) <=> v = w
  /\ \A w : Query!Text(w).word = w /\ ~Query!Text(w).padded
  /\ \A w \in STRING : Query!Text(w) \in Query!Texts
  /\ \A w \in Query!Words : w \in STRING /\ w # "" /\ Query!Text(w) # Query!Blank
  <1>1. \A v, w : Query!Text(v) = Query!Text(w) <=> v = w
    <2>1. \A w : Query!Text(w).word = w
      BY DEF Query!Text
    <2> QED
      BY <2>1
  <1>2. ASSUME NEW w \in Query!Words PROVE w \in STRING /\ w # ""
    <2>1. w # "" /\ \E list \in ValueLists : \E text \in Query!ToSet(list) : text.word = w
      BY DEF Query!Words
    <2>2. PICK list \in ValueLists : \E text \in Query!ToSet(list) : text.word = w
      BY <2>1
    <2>3. PICK i \in DOMAIN list : list[i].word = w
      BY <2>2 DEF Query!ToSet
    <2>4. list \in Seq(Query!Texts)
      BY ListAssumption DEF Query!ConstantsOK
    <2>5. list[i] \in Query!Texts
      BY <2>4
    <2> QED
      BY <2>1, <2>3, <2>5 DEF Query!Texts
  <1>3. \A w \in Query!Words : Query!Text(w) # Query!Blank
    BY <1>1, <1>2 DEF Query!Blank
  <1>4. \A text \in Query!Texts :
          Query!TrimSpace(text) = Query!Text(text.word)
    BY DEF Query!TrimSpace
  <1>5. \A w : Query!Text(w).word = w /\ ~Query!Text(w).padded
    BY DEF Query!Text
  <1>6. \A w \in STRING : Query!Text(w) \in Query!Texts
    BY DEF Query!Text, Query!Texts
  <1> QED
    BY <1>1, <1>2, <1>3, <1>4, <1>5, <1>6

(* The name the code gives a parameter is the one its client means. *)
LEMMA SpellsName ==
  ASSUME NEW given \in ListKeys, NEW name \in Query!Names
  PROVE  Query!Spells(given, name) <=> Query!FilterName(given) = name
  <1>1. \A k \in ListKeys : k.form \in {"plain", "bracket", "dot"} /\ k.name \in Query!Texts
    BY ListAssumption DEF Query!ConstantsOK
  <1>2. CASE given.form = "plain" \/ given.name = Query!Blank
    BY <1>2 DEF Query!Spells
  <1>3. CASE given.form # "plain" /\ given.name # Query!Blank
    <2>1. Query!FilterName(given) = Query!Text(given.name.word)
      BY <1>1, <1>3, TextsTyped DEF Query!FilterName
    <2>2. PICK k \in ListKeys : name = Query!FilterName(k)
      BY DEF Query!Names
    <2>3. CASE k.form = "plain"
      <3>1. name \in Query!Texts
        BY <1>1, <2>2, <2>3 DEF Query!FilterName
      <3>2. name.word = given.name.word /\ ~name.padded <=> name = Query!Text(given.name.word)
        BY <3>1 DEF Query!Texts, Query!Text
      <3> QED
        BY <1>3, <2>1, <3>2 DEF Query!Spells
    <2>4. CASE k.form # "plain"
      <3>1. \/ name = Query!Text(k.name.word)
            \/ name = Query!Text("filter[]")
            \/ name = Query!Text("filter.")
        <4>1. CASE k.name # Query!Blank
          BY <2>2, <2>4, <4>1 DEF Query!FilterName, Query!TrimSpace
        <4>2. CASE k.name = Query!Blank
          BY <1>1, <2>2, <2>4, <4>2 DEF Query!FilterName
        <4> QED
          BY <4>1, <4>2
      <3>2. PICK w : name = Query!Text(w)
        BY <3>1
      <3>3. name.word = given.name.word /\ ~name.padded <=> name = Query!Text(given.name.word)
        BY <3>2, TextsTyped
      <3> QED
        BY <1>3, <2>1, <3>3 DEF Query!Spells
    <2> QED
      BY <1>1, <2>3, <2>4
  <1> QED
    BY <1>2, <1>3

(* Before any parameter is seen, none gives anything. *)
LEMMA NoneSeen ==
  ASSUME DOMAIN qQuery \subseteq qTodo, DOMAIN qFilters = {}
  PROVE  FiltersOfSeen
  <1>1. Seen = {}
    BY DEF Seen
  <1>2. \A name, word : Query!PlacesIn(Seen, name, word) = {}
    BY <1>1 DEF Query!PlacesIn
  <1> QED
    BY <1>2, FS_EmptySet DEF FiltersOfSeen, GivenSeen

LEMMA ListInit ==
  ASSUME PartsInit
  PROVE  ListInv
  <1>1. Query!Init
    BY DEF PartsInit
  <1>2. qQuery = <<>> /\ qFilters = <<>> /\ qTodo = {} /\ qPc = "idle" /\ qNumber \in Numbers
    BY <1>1, ListAssumption DEF Query!Init, Query!ConstantsOK
  <1>3. qConfig \in ListConfigs
    BY <1>1, ListAssumption DEF Query!Init, Query!ConstantsOK
  <1>4. DOMAIN qQuery = {} /\ DOMAIN qFilters = {} /\ qQuery \in [DOMAIN qQuery -> ValueLists]
    BY <1>2
  <1>5. FiltersOfSeen
    BY <1>4, NoneSeen
  <1> QED
    BY <1>2, <1>3, <1>4, <1>5 DEF ListInv

LEMMA ReceiveInv ==
  ASSUME ListInv, Query!Receive
  PROVE  ListInv'
  <1>1. /\ qPc' = "range" /\ qConfig' \in ListConfigs /\ qNumber' \in Numbers
        /\ qTodo' = DOMAIN qQuery' /\ qFilters' = qFilters /\ qPc = "idle"
    BY DEF Query!Receive
  <1>2. PICK some \in SUBSET ListKeys : qQuery' \in [some -> ValueLists]
    BY DEF Query!Receive
  <1>3. DOMAIN qQuery' = some
    BY <1>2
  <1>4. DOMAIN qFilters = {}
    BY <1>1 DEF ListInv, FiltersOfSeen, GivenSeen, Seen, Query!PlacesIn
  <1>5. FiltersOfSeen'
    <2>1. (DOMAIN qQuery \subseteq qTodo)' /\ (DOMAIN qFilters = {})'
      BY <1>1, <1>4
    <2>2. Seen' = {}
      BY <2>1 DEF Seen
    <2>3. \A name, word : Query!PlacesIn(Seen, name, word)' = {}
      BY <2>2 DEF Query!PlacesIn
    <2> QED
      BY <2>1, <2>3, FS_EmptySet DEF FiltersOfSeen, GivenSeen
  <1> QED
    BY <1>1, <1>2, <1>3, <1>5 DEF ListInv

(* What the values of a parameter add, trimmed, blanks dropped. *)
LEMMA ValuesKept ==
  ASSUME NEW list \in ValueLists
  PROVE  LET trimmed == Query!TrimAll(list)
             values == Query!Kept(trimmed, {i \in DOMAIN trimmed : trimmed[i] # Query!Blank})
         IN /\ values \in Seq(Clean)
            /\ \A word \in Query!Words :
                 /\ IsFiniteSet(Query!PlacesWith(list, word))
                 /\ Cardinality(PlacesOf(values, Query!Text(word))) = Cardinality(Query!PlacesWith(list, word))
            /\ values = <<>> <=> \A word \in Query!Words : Query!PlacesWith(list, word) = {}
  <1> DEFINE trimmed == Query!TrimAll(list)
             positions == {i \in DOMAIN trimmed : trimmed[i] # Query!Blank}
             values == Kept(trimmed, positions)
  <1>1. list \in Seq(Query!Texts) /\ \A i \in DOMAIN list : list[i] \in Query!Texts
    BY ListAssumption DEF Query!ConstantsOK
  <1>2. Query!Kept(trimmed, positions) = values
    BY QueryLoops
  <1>3. /\ DOMAIN trimmed = DOMAIN list
        /\ \A i \in DOMAIN list : trimmed[i] = Query!Text(list[i].word)
    BY <1>1, TextsTyped DEF Query!TrimAll
  <1>4. trimmed \in Seq(Query!Texts)
    <2>1. \A i \in DOMAIN list : list[i].word \in STRING
      BY <1>1 DEF Query!Texts
    <2>2. \A i \in DOMAIN list : trimmed[i] \in Query!Texts
      BY <1>3, <2>1, TextsTyped
    <2>3. DOMAIN list = 1..Len(list) /\ Len(list) \in Nat
      BY <1>1
    <2>4. trimmed = [i \in 1..Len(list) |-> trimmed[i]]
      BY <2>3 DEF Query!TrimAll
    <2> HIDE DEF trimmed
    <2> QED
      BY <2>2, <2>3, <2>4
  <1> HIDE DEF trimmed
  <1>5. \A i \in positions : trimmed[i] \in Clean /\ list[i].word \in Query!Words
    <2>1. ASSUME NEW i \in positions PROVE list[i].word \in Query!Words
      <3>1. i \in DOMAIN list /\ list[i].word # ""
        BY <1>3 DEF Query!Blank
      <3>2. list[i] \in Query!ToSet(list)
        BY <3>1 DEF Query!ToSet
      <3> QED
        BY <3>1, <3>2 DEF Query!Words
    <2> QED
      BY <1>3, <2>1 DEF Clean
  <1>6. \A word \in Query!Words :
          /\ Query!PlacesWith(list, word) = PlacesOf(trimmed, Query!Text(word))
          /\ PlacesOf(trimmed, Query!Text(word)) \subseteq positions
    <2>1. ASSUME NEW word \in Query!Words, NEW i \in DOMAIN list
          PROVE  /\ list[i].word = word <=> trimmed[i] = Query!Text(word)
                 /\ trimmed[i] = Query!Text(word) => trimmed[i] # Query!Blank
      BY <1>3, TextsTyped
    <2> QED
      BY <1>3, <2>1 DEF Query!PlacesWith, PlacesOf
  <1>7. PICK at \in [DOMAIN values -> (DOMAIN trimmed) \cap positions] :
          /\ \A i \in (DOMAIN trimmed) \cap positions : \E m \in DOMAIN values : at[m] = i
          /\ \A m \in DOMAIN values : values[m] = trimmed[at[m]]
    <2> HIDE DEF positions
    <2> QED
      BY <1>4, KeptLists
  <1>8. values \in Seq(Query!Texts)
    <2> HIDE DEF positions
    <2> QED
      BY <1>4, KeptLists
  <1> HIDE DEF values
  <1>9. values \in Seq(Clean)
    <2>1. \A m \in DOMAIN values : values[m] \in Clean
      <3> HIDE DEF positions
      <3> QED
        BY <1>5, <1>7
    <2>2. DOMAIN values = 1..Len(values) /\ Len(values) \in Nat
      BY <1>8
    <2>3. \A m \in 1..Len(values) : values[m] \in Clean
      BY <2>1, <2>2
    <2> QED
      BY <1>8, <2>3
  <1>10. ASSUME NEW word \in Query!Words
         PROVE  /\ IsFiniteSet(Query!PlacesWith(list, word))
                /\ Cardinality(PlacesOf(values, Query!Text(word))) = Cardinality(Query!PlacesWith(list, word))
    <2> HIDE DEF positions
    <2> QED
      BY <1>4, <1>6, PlacesFinite, PlacesKept DEF values
  <1>11. values = <<>> <=> DOMAIN values = {}
    BY <1>8
  <1>12. ASSUME DOMAIN values = {}, NEW word \in Query!Words PROVE Query!PlacesWith(list, word) = {}
    <2>1. (DOMAIN trimmed) \cap positions = {}
      <3> HIDE DEF positions
      <3> QED
        BY <1>7, <1>12
    <2> QED
      BY <1>6, <2>1 DEF PlacesOf
  <1>13. ASSUME NEW m \in DOMAIN values PROVE \E word \in Query!Words : Query!PlacesWith(list, word) # {}
    <2>1. at[m] \in (DOMAIN trimmed) \cap positions
      <3> HIDE DEF positions
      <3> QED
        BY <1>7
    <2>2. list[at[m]].word \in Query!Words /\ at[m] \in Query!PlacesWith(list, list[at[m]].word)
      BY <1>3, <1>5, <2>1 DEF Query!PlacesWith
    <2> QED
      BY <2>2
  <1> HIDE DEF positions
  <1>14. values = <<>> <=> \A word \in Query!Words : Query!PlacesWith(list, word) = {}
    BY <1>11, <1>12, <1>13
  <1> QED
    BY <1>2, <1>9, <1>10, <1>14 DEF positions, trimmed

(* One turn of the loop adds the places of its parameter to one name. *)
LEMMA SeenOneMore ==
  ASSUME NEW given \in qTodo, qTodo \subseteq DOMAIN qQuery, qTodo' = qTodo \ {given}, qQuery' = qQuery,
         NEW word, NEW name \in Query!Names, given \in ListKeys
  PROVE  LET before == Query!PlacesIn(Seen, name, word)
             new == {given} \X Query!PlacesWith(qQuery[given], word)
         IN /\ Query!FilterName(given) # name => Query!PlacesIn(Seen, name, word)' = before
            /\ Query!FilterName(given) = name => /\ Query!PlacesIn(Seen, name, word)' = before \cup new
                                               /\ before \cap new = {}
  <1> DEFINE before == Query!PlacesIn(Seen, name, word)
             after == Query!PlacesIn(Seen, name, word)'
             new == {given} \X Query!PlacesWith(qQuery[given], word)
             cell(c, k) == Query!Spells(k, name) /\ c \in {k} \X Query!PlacesWith(qQuery[k], word)
  <1>1. Seen' = Seen \cup {given} /\ given \notin Seen
    BY DEF Seen
  <1>2. \A c : c \in before <=> \E k \in Seen : cell(c, k)
    BY DEF Query!PlacesIn
  <1>3. \A c : c \in after <=> \E k \in Seen' : cell(c, k)
    BY DEF Query!PlacesIn
  <1>4. \A c, k : cell(c, k) => c[1] = k
    OBVIOUS
  <1>5. \A c : cell(c, given) <=> Query!FilterName(given) = name /\ c \in new
    BY SpellsName
  <1> HIDE DEF before, after, new, cell
  <1>6. \A c : c \in after <=> c \in before \/ (Query!FilterName(given) = name /\ c \in new)
    BY <1>1, <1>2, <1>3, <1>5
  <1>7. ASSUME Query!FilterName(given) = name PROVE before \cap new = {}
    BY <1>1, <1>2, <1>4, <1>5, <1>7
  <1>8. /\ Query!FilterName(given) # name => after = before
        /\ Query!FilterName(given) = name => after = before \cup new /\ before \cap new = {}
    BY <1>6, <1>7
  <1> QED
    BY <1>8 DEF before, after, new

(* A turn that leaves no trace: the name is refused or every value is blank. *)
LEMMA TakeNothing ==
  ASSUME ListInv, NEW given \in ListKeys, Query!Take(given), qFilters' = qFilters,
         ~Query!Allowed(Query!FilterName(given))
           \/ \A word \in Query!Words : Query!PlacesWith(qQuery[given], word) = {}
  PROVE  FiltersOfSeen'
  <1>1. /\ given \in qTodo /\ qTodo' = qTodo \ {given} /\ qQuery' = qQuery /\ qConfig' = qConfig
        /\ qTodo \subseteq DOMAIN qQuery /\ FiltersOfSeen /\ qQuery[given] \in ValueLists
    BY DEF Query!Take, ListInv
  <1>2. ASSUME NEW name \in Query!Names, NEW word \in Query!Words
        PROVE  IsFiniteSet(Query!PlacesIn(Seen, name, word)')
    <2> DEFINE before == Query!PlacesIn(Seen, name, word)
               new == {given} \X Query!PlacesWith(qQuery[given], word)
    <2>1. IsFiniteSet(new)
      BY <1>1, ValuesKept, FS_Singleton, FS_Product
    <2>2. IsFiniteSet(before)
      BY <1>1 DEF FiltersOfSeen
    <2>3. before' = before \/ before' = before \cup new
      BY <1>1, SeenOneMore
    <2> HIDE DEF before, new
    <2>4. IsFiniteSet(before \cup new)
      BY <2>1, <2>2, FS_Union
    <2>5. IsFiniteSet(before')
      BY <2>2, <2>3, <2>4
    <2> QED
      BY <2>5 DEF before
  <1>3. ASSUME NEW name \in Query!Names, Query!Allowed(name), NEW word \in Query!Words
        PROVE  Query!PlacesIn(Seen, name, word)' = Query!PlacesIn(Seen, name, word)
    <2>1. CASE Query!FilterName(given) # name
      BY <1>1, <2>1, SeenOneMore
    <2>2. CASE Query!FilterName(given) = name
      <3>1. {given} \X Query!PlacesWith(qQuery[given], word) = {}
        BY <1>3, <2>2
      <3>2. Query!PlacesIn(Seen, name, word)' =
              Query!PlacesIn(Seen, name, word) \cup ({given} \X Query!PlacesWith(qQuery[given], word))
        BY <1>1, <2>2, SeenOneMore
      <3>3. \A old : old \cup {} = old
        OBVIOUS
      <3> QED
        BY <3>1, <3>2, <3>3
    <2> QED
      BY <2>1, <2>2
  <1>4. \A name : Query!Allowed(name)' = Query!Allowed(name)
    BY <1>1 DEF Query!Allowed
  <1>5. ASSUME NEW name \in Query!Names, Query!Allowed(name) PROVE GivenSeen(name)' = GivenSeen(name)
    BY <1>3, <1>5 DEF GivenSeen
  <1>6. (DOMAIN qFilters)' = {name \in Query!Names : Query!Allowed(name)' /\ GivenSeen(name)'}
    BY <1>1, <1>4, <1>5 DEF FiltersOfSeen
  <1>7. ASSUME NEW name \in DOMAIN qFilters
        PROVE  /\ qFilters[name] \in Seq(Clean)
               /\ \A word \in Query!Words :
                    Cardinality(PlacesOf(qFilters[name], Query!Text(word))) = Cardinality(Query!PlacesIn(Seen, name, word)')
    BY <1>1, <1>3 DEF FiltersOfSeen
  <1> QED
    BY <1>2, <1>6, <1>7 DEF FiltersOfSeen

(* A turn that appends its values to those of its filter. *)
LEMMA TakeSome ==
  ASSUME ListInv, NEW given \in ListKeys, Query!Take(given),
         NEW values \in Seq(Clean), values # <<>>,
         qFilters' = Query!Added(Query!FilterName(given), values),
         Query!Allowed(Query!FilterName(given)),
         \A word \in Query!Words :
           Cardinality(PlacesOf(values, Query!Text(word))) = Cardinality(Query!PlacesWith(qQuery[given], word)),
         \E word \in Query!Words : Query!PlacesWith(qQuery[given], word) # {}
  PROVE  FiltersOfSeen'
  <1> DEFINE name == Query!FilterName(given)
             old == IF name \in DOMAIN qFilters THEN qFilters[name] ELSE <<>>
             new(word) == {given} \X Query!PlacesWith(qQuery[given], word)
             before(n, word) == Query!PlacesIn(Seen, n, word)
  <1>1. /\ given \in qTodo /\ qTodo' = qTodo \ {given} /\ qQuery' = qQuery /\ qConfig' = qConfig
        /\ qTodo \subseteq DOMAIN qQuery /\ FiltersOfSeen /\ qQuery[given] \in ValueLists
    BY DEF Query!Take, ListInv
  <1>2. name \in Query!Names
    BY DEF Query!Names
  <1>3. /\ qFilters' = [n \in DOMAIN qFilters \cup {name} |->
                          IF n = name THEN old \o values ELSE qFilters[n]]
        /\ DOMAIN qFilters' = DOMAIN qFilters \cup {name}
        /\ qFilters'[name] = old \o values
        /\ \A n \in DOMAIN qFilters : n # name => qFilters'[n] = qFilters[n]
    BY DEF Query!Added, Query!With
  <1>4. ASSUME NEW word \in Query!Words
        PROVE  /\ IsFiniteSet(new(word)) /\ IsFiniteSet(before(name, word))
               /\ Cardinality(new(word)) = Cardinality(PlacesOf(values, Query!Text(word)))
               /\ Cardinality(new(word)) \in Nat /\ Cardinality(before(name, word)) \in Nat
    <2>1. /\ IsFiniteSet(Query!PlacesWith(qQuery[given], word)) /\ IsFiniteSet({given})
          /\ Cardinality(Query!PlacesWith(qQuery[given], word)) \in Nat /\ Cardinality({given}) = 1
      BY <1>1, ValuesKept, FS_Singleton, FS_CardinalityType
    <2>2. /\ IsFiniteSet(new(word))
          /\ Cardinality(new(word)) = 1 * Cardinality(Query!PlacesWith(qQuery[given], word))
      BY <2>1, FS_Product
    <2> QED
      BY <1>1, <1>2, <2>1, <2>2, FS_CardinalityType DEF FiltersOfSeen
  <1>5. ASSUME NEW word \in Query!Words
        PROVE  /\ before(name, word)' = before(name, word) \cup new(word)
               /\ Cardinality(before(name, word)') = Cardinality(before(name, word)) + Cardinality(new(word))
               /\ IsFiniteSet(before(name, word)')
    <2>1. before(name, word)' = before(name, word) \cup new(word) /\ before(name, word) \cap new(word) = {}
      BY <1>1, <1>2, SeenOneMore
    <2> HIDE DEF new, before
    <2>2. Cardinality(before(name, word) \cap new(word)) = 0
      BY <2>1, FS_EmptySet
    <2>3. /\ IsFiniteSet(before(name, word) \cup new(word))
          /\ Cardinality(before(name, word) \cup new(word)) =
               Cardinality(before(name, word)) + Cardinality(new(word))
                 - Cardinality(before(name, word) \cap new(word))
      BY <1>4, FS_Union
    <2> QED
      BY <1>4, <2>1, <2>2, <2>3
  <1>6. ASSUME NEW word \in Query!Words
        PROVE  Cardinality(PlacesOf(old, Query!Text(word))) = Cardinality(before(name, word))
    <2>1. CASE name \in DOMAIN qFilters
      BY <1>1, <2>1 DEF FiltersOfSeen
    <2>2. CASE name \notin DOMAIN qFilters
      <3>1. before(name, word) = {}
        BY <1>1, <1>2, <2>2 DEF FiltersOfSeen, GivenSeen
      <3>2. PlacesOf(old, Query!Text(word)) = {}
        BY <2>2 DEF PlacesOf
      <3> QED
        BY <3>1, <3>2, FS_EmptySet
    <2> QED
      BY <2>1, <2>2
  <1>7. old \in Seq(Clean)
    BY <1>1 DEF FiltersOfSeen
  <1>8. \A n \in Query!Names : \A word : n # name => before(n, word)' = before(n, word)
    BY <1>1, SeenOneMore
  <1>9. \A n : Query!Allowed(n)' = Query!Allowed(n)
    BY <1>1 DEF Query!Allowed
  <1>10. GivenSeen(name)' /\ \A n \in Query!Names : n # name => GivenSeen(n)' = GivenSeen(n)
    <2>1. PICK word \in Query!Words : Query!PlacesWith(qQuery[given], word) # {}
      OBVIOUS
    <2>2. \A i \in Query!PlacesWith(qQuery[given], word) : <<given, i>> \in new(word)
      OBVIOUS
    <2>3. before(name, word)' # {}
      BY <1>5, <2>1, <2>2
    <2> QED
      BY <1>8, <2>3 DEF GivenSeen
  <1> HIDE DEF name, old, new
  <1>11. (DOMAIN qFilters)' = {n \in Query!Names : Query!Allowed(n)' /\ GivenSeen(n)'}
    <2>1. DOMAIN qFilters = {n \in Query!Names : Query!Allowed(n) /\ GivenSeen(n)}
      BY <1>1 DEF FiltersOfSeen
    <2>2. Query!Allowed(name)
      BY DEF name
    <2>3. ASSUME NEW n
          PROVE  n \in DOMAIN qFilters \cup {name} <=> n \in Query!Names /\ Query!Allowed(n)' /\ GivenSeen(n)'
      BY <1>2, <1>9, <1>10, <2>1, <2>2
    <2> QED
      BY <1>3, <2>3
  <1>12. ASSUME NEW n \in DOMAIN qFilters'
         PROVE  /\ qFilters'[n] \in Seq(Clean)
                /\ \A word \in Query!Words :
                     Cardinality(PlacesOf(qFilters'[n], Query!Text(word))) = Cardinality(before(n, word)')
    <2>1. CASE n = name
      <3>1. old \o values \in Seq(Clean)
        BY <1>7
      <3>2. ASSUME NEW word \in Query!Words
            PROVE  Cardinality(PlacesOf(old \o values, Query!Text(word))) = Cardinality(before(name, word)')
        <4>1. Cardinality(PlacesOf(old \o values, Query!Text(word))) =
                Cardinality(PlacesOf(old, Query!Text(word))) + Cardinality(PlacesOf(values, Query!Text(word)))
          BY <1>7, PlacesAdd
        <4> QED
          BY <1>4, <1>5, <1>6, <4>1
      <3> QED
        BY <1>3, <2>1, <3>1, <3>2
    <2>2. CASE n # name
      <3>1. n \in DOMAIN qFilters /\ qFilters'[n] = qFilters[n]
        BY <1>3, <2>2
      <3> QED
        BY <1>1, <1>8, <2>2, <3>1 DEF FiltersOfSeen
    <2> QED
      BY <2>1, <2>2
  <1>13. ASSUME NEW n \in Query!Names, NEW word \in Query!Words PROVE IsFiniteSet(before(n, word)')
    BY <1>1, <1>5, <1>8 DEF FiltersOfSeen
  <1> QED
    BY <1>11, <1>12, <1>13 DEF FiltersOfSeen

LEMMA TakeInv ==
  ASSUME ListInv, NEW given \in ListKeys, Query!Take(given)
  PROVE  ListInv'
  <1> DEFINE name == Query!FilterName(given)
             trimmed == Query!TrimAll(qQuery[given])
             values == Query!Kept(trimmed, {i \in DOMAIN trimmed : trimmed[i] # Query!Blank})
  <1>1. /\ given \in qTodo /\ qTodo' = qTodo \ {given} /\ qQuery' = qQuery /\ qConfig' = qConfig
        /\ qNumber' = qNumber /\ qPc' = "range"
    BY DEF Query!Take
  <1>2. qQuery[given] \in ValueLists
    BY <1>1 DEF ListInv
  <1>3. qFilters' = IF Query!Allowed(name) /\ values # <<>> THEN Query!Added(name, values) ELSE qFilters
    BY DEF Query!Take
  <1>4. /\ values \in Seq(Clean)
        /\ \A word \in Query!Words :
             Cardinality(PlacesOf(values, Query!Text(word))) = Cardinality(Query!PlacesWith(qQuery[given], word))
        /\ values = <<>> <=> \A word \in Query!Words : Query!PlacesWith(qQuery[given], word) = {}
    BY <1>2, ValuesKept
  <1> HIDE DEF values
  <1>5. FiltersOfSeen'
    <2>1. CASE Query!Allowed(name) /\ values # <<>>
      BY <1>3, <1>4, <2>1, TakeSome
    <2>2. CASE ~(Query!Allowed(name) /\ values # <<>>)
      BY <1>3, <1>4, <2>2, TakeNothing
    <2> QED
      BY <2>1, <2>2
  <1> QED
    BY <1>1, <1>5 DEF ListInv

(* requiredMissing *)
LEMMA MissingFound ==
  ASSUME ListInv
  PROVE  Query!ToSet(Query!Missing) =
           (Query!ToSet(qConfig.required) \ {Query!Blank}) \ DOMAIN qFilters
  <1> DEFINE list == qConfig.required
             positions == {i \in DOMAIN list : list[i] \notin {Query!Blank} \cup DOMAIN qFilters}
             r == Kept(list, positions)
  <1>1. list \in Seq(Query!Texts)
    BY ListAssumption DEF Query!ConstantsOK, ListInv
  <1>2. Query!Missing = r
    BY QueryLoops DEF Query!Missing
  <1>3. PICK at \in [DOMAIN r -> (DOMAIN list) \cap positions] :
          /\ \A i \in (DOMAIN list) \cap positions : \E m \in DOMAIN r : at[m] = i
          /\ \A m \in DOMAIN r : r[m] = list[at[m]]
    <2> HIDE DEF list, positions
    <2> QED
      BY <1>1, KeptLists
  <1>4. \A i : i \in (DOMAIN list) \cap positions
                 <=> i \in DOMAIN list /\ list[i] \notin {Query!Blank} \cup DOMAIN qFilters
    OBVIOUS
  <1> HIDE DEF list, positions, r
  <1>5. ASSUME NEW w PROVE w \in Query!ToSet(r)
                             <=> w \in Query!ToSet(list) /\ w \notin {Query!Blank} \cup DOMAIN qFilters
    BY <1>3, <1>4 DEF Query!ToSet
  <1> QED
    BY <1>2, <1>5 DEF list

(* What the parameters seen so far give does not depend on anything else. *)
LEMMA FiltersRest ==
  ASSUME FiltersOfSeen, UNCHANGED <<qConfig, qQuery, qTodo, qFilters>>
  PROVE  FiltersOfSeen'
  <1>1. Seen' = Seen
    BY DEF Seen
  <1>2. \A name, word : Query!PlacesIn(Seen, name, word)' = Query!PlacesIn(Seen, name, word)
    BY <1>1 DEF Query!PlacesIn
  <1>3. \A name : Query!Allowed(name)' = Query!Allowed(name) /\ GivenSeen(name)' = GivenSeen(name)
    BY <1>2 DEF Query!Allowed, GivenSeen
  <1>4. qFilters' = qFilters
    OBVIOUS
  <1> QED
    BY <1>2, <1>3, <1>4 DEF FiltersOfSeen

LEMMA FinishInv ==
  ASSUME ListInv, Query!Finish
  PROVE  ListInv'
  <1>1. /\ qPc' = "done" /\ qTodo = {} /\ UNCHANGED <<qConfig, qQuery, qNumber, qTodo, qFilters>>
    BY DEF Query!Finish
  <1>2. /\ qResult'.limit = Query!ClampInt(Query!ParseInt(qNumber, qConfig.default), 1, qConfig.max)
        /\ qResult'.offset = Query!ParseOffset(qNumber)
        /\ qResult'.missing = Query!Missing
    BY DEF Query!Finish
  <1>3. qConfig.default \in Int /\ qConfig.max \in Int /\ qNumber \in Int \cup {NotANumber}
    BY ListAssumption DEF Query!ConstantsOK, ListInv
  <1>4. Query!ParseInt(qNumber, qConfig.default) \in Int
    BY <1>3 DEF Query!ParseInt
  <1>5. ASSUME NEW n \in Int
        PROVE  /\ Query!ClampInt(n, 1, qConfig.max) \in Int
               /\ Query!ClampInt(n, 1, qConfig.max) >= 1
               /\ qConfig.max > 0 => Query!ClampInt(n, 1, qConfig.max) <= qConfig.max
    BY <1>3 DEF Query!ClampInt
  <1>6. Query!ParseOffset(qNumber) \in Int /\ Query!ParseOffset(qNumber) >= 0
    <2>1. CASE qNumber = NotANumber
      BY <2>1 DEF Query!ParseOffset
    <2>2. CASE qNumber # NotANumber
      BY <1>3, <2>2 DEF Query!ParseOffset
    <2> QED
      BY <2>1, <2>2
  <1>7. PageBounded'
    BY <1>1, <1>2, <1>4, <1>5, <1>6 DEF PageBounded
  <1>8. MissingExactly'
    BY <1>1, <1>2, MissingFound DEF MissingExactly
  <1>9. FiltersOfSeen'
    BY <1>1, FiltersRest DEF ListInv
  <1> QED
    BY <1>1, <1>7, <1>8, <1>9 DEF ListInv

LEMMA ListRests ==
  ASSUME ListInv, UNCHANGED queryVars
  PROVE  ListInv'
  <1>1. FiltersOfSeen'
    BY FiltersRest DEF queryVars, ListInv
  <1>2. UNCHANGED queryVars
    OBVIOUS
  <1> QED
    BY <1>1, <1>2 DEF queryVars, ListInv, PageBounded, MissingExactly

LEMMA ListStays == PartsSpec => []ListInv
  <1>1. PartsInit => ListInv
    BY ListInit
  <1>2. ListInv /\ [PartsNext]_partsVars => ListInv'
    <2> SUFFICES ASSUME ListInv, PartsNext \/ UNCHANGED partsVars PROVE ListInv'
      OBVIOUS
    <2>1. Query!Next \/ UNCHANGED queryVars
      BY StepsOrRests DEF partsVars
    <2> QED
      BY <2>1, ReceiveInv, TakeInv, FinishInv, ListRests DEF Query!Next
  <1> QED
    BY <1>1, <1>2, PTL DEF PartsSpec

(* endpoints.ParseListQuery: whatever the order of the map, the filters of a  *)
(* request hold each word given under any spelling of an allowed name, once   *)
(* per occurrence, trimmed, and nothing else, and a page is within its bounds. *)
THEOREM ListsAreExact == PartsSpec => []ListIsExact
  <1>1. ListInv => ListIsExact
    <2> SUFFICES ASSUME ListInv, qPc = "done" PROVE Query!ListIsExact
      BY DEF ListIsExact, Query!ListIsExact
    <2>1. Seen = DOMAIN qQuery /\ FiltersOfSeen /\ PageBounded /\ MissingExactly
      BY DEF ListInv, Seen
    <2>2. ASSUME NEW name \in Query!Names, NEW word \in Query!Words
          PROVE  Query!Given(name, word) > 0 <=> Query!PlacesIn(Seen, name, word) # {}
      <3>1. Query!Given(name, word) = Cardinality(Query!PlacesIn(Seen, name, word))
        BY <2>1, QueryLoops DEF Query!Given
      <3>2. IsFiniteSet(Query!PlacesIn(Seen, name, word))
        BY <2>1 DEF FiltersOfSeen
      <3> QED
        BY <3>1, <3>2, FS_EmptySet, FS_CardinalityType
    <2>3. DOMAIN qFilters = Query!GivenNames
      BY <2>1, <2>2 DEF FiltersOfSeen, GivenSeen, Query!GivenNames
    <2>4. ASSUME NEW name \in DOMAIN qFilters
          PROVE  /\ Query!ToSet(qFilters[name]) \subseteq Clean
                 /\ \A word \in Query!Words :
                      Query!PlacesWith(qFilters[name], word) = PlacesOf(qFilters[name], Query!Text(word))
      <3>1. \A i \in DOMAIN qFilters[name] : qFilters[name][i] \in Clean
        BY <2>1 DEF FiltersOfSeen
      <3>2. ASSUME NEW i \in DOMAIN qFilters[name], NEW word \in Query!Words
            PROVE  qFilters[name][i].word = word <=> qFilters[name][i] = Query!Text(word)
        <4>1. PICK v \in Query!Words : qFilters[name][i] = Query!Text(v)
          BY <3>1 DEF Clean
        <4>2. qFilters[name][i].word = v
          BY <4>1, TextsTyped
        <4> QED
          BY <4>1, <4>2, TextsTyped
      <3> QED
        BY <3>1, <3>2 DEF Query!ToSet, Query!PlacesWith, PlacesOf
    <2>5. ASSUME NEW name \in DOMAIN qFilters, NEW word \in Query!Words
          PROVE  Query!Occurrences(qFilters[name], word) = Query!Given(name, word)
      <3>1. Query!Occurrences(qFilters[name], word) = Cardinality(PlacesOf(qFilters[name], Query!Text(word)))
        BY <2>4, QueryLoops DEF Query!Occurrences
      <3>2. Query!Given(name, word) = Cardinality(Query!PlacesIn(Seen, name, word))
        BY <2>1, QueryLoops DEF Query!Given
      <3> QED
        BY <2>1, <3>1, <3>2 DEF FiltersOfSeen
    <2> QED
      BY <2>1, <2>3, <2>4, <2>5 DEF Query!ListIsExact, PageBounded, MissingExactly, Clean
  <1> QED
    BY <1>1, ListStays, PTL

-----------------------------------------------------------------------------
(* TestCache: what a tester knows of the watched tests.                      *)

Packages == UNION {Cache!PackagesOf(c) : c \in Cache!AllConfigs}
ConfigValues == [packages : Seq(Packages) \ {<<>>}, pattern : Cache!Patterns, caching : BOOLEAN]
TesterStates ==
  [pc : {"idle", "look", "test", "report"}, config : Cache!AllConfigs \cup {Cache!NoConfig},
   left : Seq(Packages), passed : BOOLEAN, start : Nat, began : Nat, ok : BOOLEAN]

Elements(s) == {s[i] : i \in DOMAIN s}
Covers(c) == cWatched[1] \in Cache!PackagesOf(c) /\ cWatched[2] = c.pattern
Slack(c) == IF c.caching THEN TTL + TestTime ELSE 0
Recent(r) == cLastPass >= r.start - Slack(r.config)

(* A tester at work has packages left, the watched one among them unless it  *)
(* is done with it, and then its tests passed recently; a test run is not    *)
(* older than it may be, and a pass it reports happened in it.               *)
AtWork(t, r) ==
  r.pc # "idle" =>
    /\ r.config \in TesterConfigs[t]
    /\ r.left # <<>> /\ Elements(r.left) \subseteq Cache!PackagesOf(r.config)
    /\ ~r.ok
    /\ Covers(r.config) => Recent(r) \/ cWatched[1] \in Elements(r.left)

Testing(r) ==
  r.pc \in {"test", "report"} =>
    /\ r.start <= r.began
    /\ cClock <= r.began + TestTime

Passed(r) ==
  (r.pc = "report" /\ r.passed /\ <<Head(r.left), r.config.pattern>> = cWatched) =>
    cLastPass >= r.began

TesterInv(t, r) ==
  /\ r.config \in TesterConfigs[t] \cup {Cache!NoConfig}
  /\ r.start <= cClock /\ r.began <= cClock
  /\ r.pc = "idle" => r.left = <<>>
  /\ AtWork(t, r) /\ Testing(r) /\ Passed(r)

(* The file of the watched pair is no younger than the last pass by more     *)
(* than a test run.                                                          *)
FileBacked == cCache[cWatched] # Cache!NoFile => cLastPass >= cCache[cWatched] - TestTime

CacheWorld ==
  /\ cClock \in 0..CacheClock
  /\ cWatched \in Cache!Pairs
  /\ cPasses \in BOOLEAN
  /\ cLastPass \in Cache!Never..cClock
  /\ cPasses => cLastPass = cClock

CacheInv ==
  /\ CacheWorld
  /\ cCache \in [Cache!Pairs -> Cache!Never..cClock]
  /\ FileBacked
  /\ cRun \in [Testers -> TesterStates]
  /\ \A t \in Testers : TesterInv(t, cRun[t])

LEMMA CacheConstants ==
  /\ TTL \in Nat /\ TestTime \in Nat /\ CacheClock \in Nat
  /\ Cache!AllConfigs \subseteq ConfigValues
  /\ Cache!Never \in Int /\ Cache!Never < 0 /\ Cache!NoFile = Cache!Never
  <1>1. TTL \in Nat /\ TestTime \in Nat /\ CacheClock \in Nat
    BY CacheAssumption DEF Cache!ConstantsOK
  <1>2. Cache!AllConfigs \subseteq ConfigValues
    BY CacheAssumption DEF Cache!ConstantsOK, ConfigValues, Packages
  <1> QED
    BY <1>1, <1>2 DEF Cache!Never, Cache!NoFile

LEMMA ConfigTyped ==
  ASSUME NEW t \in Testers, NEW c \in TesterConfigs[t]
  PROVE  /\ c \in Cache!AllConfigs
         /\ c.packages \in Seq(Packages) /\ c.packages # <<>>
         /\ c.caching \in BOOLEAN
         /\ Elements(c.packages) = Cache!PackagesOf(c)
         /\ \A x \in Cache!PackagesOf(c) : <<x, c.pattern>> \in Cache!Pairs
         /\ Slack(c) \in Nat
  <1>1. c \in Cache!AllConfigs
    BY DEF Cache!AllConfigs
  <1>2. c \in ConfigValues
    BY <1>1, CacheConstants
  <1>3. c.packages \in Seq(Packages) /\ c.packages # <<>> /\ c.caching \in BOOLEAN
    BY <1>2 DEF ConfigValues
  <1>4. \A x \in Cache!PackagesOf(c) : <<x, c.pattern>> \in Cache!Pairs
    BY <1>1 DEF Cache!Pairs
  <1> QED
    BY <1>1, <1>3, <1>4, CacheConstants DEF Elements, Cache!PackagesOf, Slack

LEMMA IdleTyped ==
  /\ Cache!Idle \in TesterStates
  /\ Cache!Idle.pc = "idle" /\ Cache!Idle.config = Cache!NoConfig /\ Cache!Idle.left = <<>>
  /\ Cache!Idle.start = 0 /\ Cache!Idle.began = 0 /\ Cache!Idle.ok = FALSE
  BY DEF Cache!Idle, TesterStates

LEMMA ExitedTyped ==
  ASSUME NEW ok \in BOOLEAN
  PROVE  /\ Cache!Exited(ok) \in TesterStates
         /\ Cache!Exited(ok).pc = "idle" /\ Cache!Exited(ok).config = Cache!NoConfig
         /\ Cache!Exited(ok).left = <<>>
         /\ Cache!Exited(ok).start = 0 /\ Cache!Exited(ok).began = 0
  <1> DEFINE r == Cache!Exited(ok)
  <1>1. r = [Cache!Idle EXCEPT !.ok = ok]
    BY DEF Cache!Exited
  <1> HIDE DEF r
  <1>2. r \in TesterStates
    BY <1>1, IdleTyped DEF TesterStates
  <1>3. /\ r.pc = Cache!Idle.pc /\ r.config = Cache!Idle.config /\ r.left = Cache!Idle.left
        /\ r.start = Cache!Idle.start /\ r.began = Cache!Idle.began
    BY <1>1, IdleTyped DEF TesterStates
  <1>4. QED
    BY <1>2, <1>3, IdleTyped DEF r

LEMMA ExitedAnswer ==
  ASSUME NEW ok \in BOOLEAN
  PROVE  Cache!Exited(ok).ok = ok
  BY DEF Cache!Exited, Cache!Idle

(* The states a step puts a tester in. *)
Begun(c, n) ==
  [Cache!Idle EXCEPT !.pc = "look", !.config = c, !.left = c.packages, !.start = n]
ToTest(q, n) == [q EXCEPT !.pc = "test", !.began = n]
ToReport(q, b) == [q EXCEPT !.pc = "report", !.passed = b]
ToNext(q, s) == [q EXCEPT !.pc = "look", !.left = s, !.passed = FALSE, !.began = 0]

LEMMA BegunTyped ==
  ASSUME NEW c \in Cache!AllConfigs, c.packages \in Seq(Packages), NEW n \in Nat
  PROVE  /\ Begun(c, n) \in TesterStates
         /\ Begun(c, n).pc = "look" /\ Begun(c, n).config = c /\ Begun(c, n).left = c.packages
         /\ Begun(c, n).start = n /\ Begun(c, n).began = 0 /\ Begun(c, n).ok = FALSE
  BY DEF Begun, Cache!Idle, TesterStates

LEMMA TestTyped ==
  ASSUME NEW q \in TesterStates, NEW n \in Nat
  PROVE  /\ ToTest(q, n) \in TesterStates
         /\ ToTest(q, n).pc = "test" /\ ToTest(q, n).began = n
         /\ ToTest(q, n).config = q.config /\ ToTest(q, n).left = q.left
         /\ ToTest(q, n).start = q.start /\ ToTest(q, n).ok = q.ok
  BY DEF ToTest, TesterStates

LEMMA ReportTyped ==
  ASSUME NEW q \in TesterStates, NEW b \in BOOLEAN
  PROVE  /\ ToReport(q, b) \in TesterStates
         /\ ToReport(q, b).pc = "report" /\ ToReport(q, b).passed = b
         /\ ToReport(q, b).config = q.config /\ ToReport(q, b).left = q.left
         /\ ToReport(q, b).start = q.start /\ ToReport(q, b).began = q.began
         /\ ToReport(q, b).ok = q.ok
  BY DEF ToReport, TesterStates

LEMMA NextTyped ==
  ASSUME NEW q \in TesterStates, NEW s \in Seq(Packages)
  PROVE  /\ ToNext(q, s) \in TesterStates
         /\ ToNext(q, s).pc = "look" /\ ToNext(q, s).left = s /\ ToNext(q, s).began = 0
         /\ ToNext(q, s).config = q.config /\ ToNext(q, s).start = q.start
         /\ ToNext(q, s).ok = q.ok
  BY DEF ToNext, TesterStates

LEMMA HeadAndTail ==
  ASSUME NEW s \in Seq(Packages), s # <<>>
  PROVE  /\ Head(s) \in Elements(s) /\ Tail(s) \in Seq(Packages)
         /\ Elements(Tail(s)) \subseteq Elements(s)
         /\ \A x \in Elements(s) : x = Head(s) \/ x \in Elements(Tail(s))
         /\ Tail(s) = <<>> => \A x \in Elements(s) : x = Head(s)
  <1>1. /\ Tail(s) \in Seq(Packages) /\ Len(s) \in Nat \ {0} /\ Len(Tail(s)) = Len(s) - 1
        /\ DOMAIN s = 1..Len(s) /\ DOMAIN Tail(s) = 1..(Len(s) - 1)
        /\ Head(s) = s[1]
    OBVIOUS
  <1>2. \A i \in 1..(Len(s) - 1) : Tail(s)[i] = s[i + 1]
    BY <1>1
  <1>3. Head(s) \in Elements(s)
    BY <1>1 DEF Elements
  <1>4. ASSUME NEW x \in Elements(Tail(s)) PROVE x \in Elements(s)
    <2>1. PICK i \in 1..(Len(s) - 1) : x = Tail(s)[i]
      BY <1>1, <1>4 DEF Elements
    <2>2. i + 1 \in DOMAIN s /\ x = s[i + 1]
      BY <1>1, <1>2, <2>1
    <2> QED
      BY <2>2 DEF Elements
  <1>5. ASSUME NEW x \in Elements(s), x # Head(s) PROVE x \in Elements(Tail(s)) /\ Len(s) # 1
    <2>1. PICK i \in DOMAIN s : x = s[i]
      BY <1>5 DEF Elements
    <2>2. i - 1 \in 1..(Len(s) - 1) /\ x = Tail(s)[i - 1] /\ Len(s) # 1
      BY <1>1, <1>2, <1>5, <2>1
    <2> QED
      BY <1>1, <2>2 DEF Elements
  <1>6. Tail(s) = <<>> => Len(s) = 1
    BY <1>1
  <1> QED
    BY <1>1, <1>3, <1>4, <1>5, <1>6

(* What VerdictIsRecent says of a step. *)
Verdicts ==
  \A t \in Testers :
    (cRun[t].left # <<>> /\ cRun'[t].ok /\ Covers(cRun[t].config)) => Recent(cRun[t])

LEMMA TesterStays ==
  ASSUME NEW u \in Testers, NEW q \in TesterStates, cRun'[u] = q, TesterInv(u, q),
         UNCHANGED <<cClock, cWatched, cLastPass>>
  PROVE  TesterInv(u, cRun[u])'
  BY DEF TesterInv, AtWork, Testing, Passed, Covers, Recent

(* One tester moves, and may write the file of a pair.                       *)
LEMMA TesterMoves ==
  ASSUME CacheInv, NEW t \in Testers, NEW r \in TesterStates,
         cRun' = [cRun EXCEPT ![t] = r],
         UNCHANGED <<cClock, cWatched, cPasses, cLastPass>>,
         TesterInv(t, r),
         (r.ok /\ cRun[t].left # <<>> /\ Covers(cRun[t].config)) => Recent(cRun[t]),
         \/ cCache' = cCache
         \/ \E x \in Cache!Pairs : /\ cCache' = [cCache EXCEPT ![x] = cClock]
                                   /\ x = cWatched => cLastPass >= cClock - TestTime
  PROVE  CacheInv' /\ Verdicts
  <1>1. CacheWorld' /\ cClock' = cClock /\ cWatched' = cWatched /\ cLastPass' = cLastPass
    BY DEF CacheInv, CacheWorld
  <1>2. cRun' \in [Testers -> TesterStates] /\ cRun'[t] = r
        /\ \A u \in Testers \ {t} : cRun'[u] = cRun[u]
    BY DEF CacheInv
  <1>3. ASSUME NEW u \in Testers PROVE TesterInv(u, cRun[u])'
    <2>1. PICK q \in TesterStates : q = cRun'[u] /\ TesterInv(u, q)
      BY <1>2 DEF CacheInv
    <2> QED
      BY <2>1, TesterStays
  <1>4. /\ cCache' \in [Cache!Pairs -> Cache!Never..cClock']
        /\ FileBacked'
    <2>1. CASE cCache' = cCache
      BY <2>1 DEF CacheInv, FileBacked
    <2>2. ASSUME NEW x \in Cache!Pairs, cCache' = [cCache EXCEPT ![x] = cClock],
                 x = cWatched => cLastPass >= cClock - TestTime
          PROVE  cCache' \in [Cache!Pairs -> Cache!Never..cClock'] /\ FileBacked'
      <3>1. cClock \in Cache!Never..cClock
        BY CacheConstants DEF CacheInv, CacheWorld
      <3>2. cCache' \in [Cache!Pairs -> Cache!Never..cClock']
        BY <1>1, <2>2, <3>1 DEF CacheInv
      <3>3. cWatched \in Cache!Pairs
        BY DEF CacheInv, CacheWorld
      <3>4. CASE x = cWatched
        <4>1. cCache'[cWatched] = cClock
          BY <2>2, <3>4 DEF CacheInv
        <4> QED
          BY <1>1, <2>2, <3>2, <3>4, <4>1 DEF FileBacked
      <3>5. CASE x # cWatched
        <4>1. cCache'[cWatched] = cCache[cWatched]
          BY <2>2, <3>3, <3>5 DEF CacheInv
        <4> QED
          BY <1>1, <3>2, <4>1 DEF CacheInv, FileBacked
      <3> QED
        BY <3>2, <3>4, <3>5
    <2> QED
      BY <2>1, <2>2
  <1>5. ASSUME NEW u \in Testers, cRun[u].left # <<>>, cRun'[u].ok, Covers(cRun[u].config)
        PROVE  Recent(cRun[u])
    <2>1. CASE u = t
      BY <1>2, <1>5, <2>1
    <2>2. CASE u # t
      <3>1. TesterInv(u, cRun[u])
        BY DEF CacheInv
      <3>2. ~cRun[u].ok
        BY <1>5, <3>1 DEF TesterInv, AtWork
      <3> QED
        BY <1>2, <1>5, <2>2, <3>2
    <2> QED
      BY <2>1, <2>2
  <1>6. CacheInv'
    BY <1>1, <1>2, <1>3, <1>4 DEF CacheInv
  <1> QED
    BY <1>5, <1>6 DEF Verdicts

-----------------------------------------------------------------------------
(* The steps of a tester.                                                    *)

LEMMA WorldStays ==
  ASSUME UNCHANGED Cache!worldVars
  PROVE  UNCHANGED <<cClock, cWatched, cPasses, cLastPass>>
  BY DEF Cache!worldVars

LEMMA BeginTester ==
  ASSUME CacheInv, NEW t \in Testers, NEW c \in TesterConfigs[t], Cache!Begin(t, c)
  PROVE  CacheInv' /\ Verdicts
  <1>1. cClock \in Nat
    BY CacheConstants DEF CacheInv, CacheWorld
  <1>2. PICK r : r = Begun(c, cClock)
    OBVIOUS
  <1>3. cRun' = [cRun EXCEPT ![t] = r] /\ cCache' = cCache
        /\ UNCHANGED <<cClock, cWatched, cPasses, cLastPass>>
    BY <1>2, WorldStays DEF Cache!Begin, Begun
  <1>4. /\ r \in TesterStates
        /\ r.pc = "look" /\ r.config = c /\ r.left = c.packages /\ r.start = cClock
        /\ r.began = 0 /\ r.ok = FALSE
    <2>1. c \in Cache!AllConfigs /\ c.packages \in Seq(Packages)
      BY ConfigTyped
    <2> QED
      BY <1>1, <1>2, <2>1, BegunTyped
  <1>5. TesterInv(t, r)
    BY <1>1, <1>4, ConfigTyped DEF TesterInv, AtWork, Testing, Passed, Covers
  <1> QED
    BY <1>3, <1>4, <1>5, TesterMoves

LEMMA ExitOk ==
  ASSUME CacheInv, NEW t \in Testers, NEW ok \in BOOLEAN
  PROVE  TesterInv(t, Cache!Exited(ok))
  <1>1. 0 <= cClock
    BY CacheConstants DEF CacheInv, CacheWorld
  <1> QED
    BY <1>1, ExitedTyped DEF TesterInv, AtWork, Testing, Passed

LEMMA NothingListedInv ==
  ASSUME CacheInv, NEW t \in Testers, Cache!NothingListed(t)
  PROVE  CacheInv' /\ Verdicts
  <1>1. PICK ok \in BOOLEAN : cRun' = [cRun EXCEPT ![t] = Cache!Exited(ok)]
    BY DEF Cache!NothingListed
  <1>2. cCache' = cCache /\ UNCHANGED <<cClock, cWatched, cPasses, cLastPass>>
    BY WorldStays DEF Cache!NothingListed
  <1>3. cRun[t].left = <<>>
    BY DEF Cache!NothingListed, CacheInv, TesterInv
  <1>4. Cache!Exited(ok) \in TesterStates /\ TesterInv(t, Cache!Exited(ok))
    BY ExitedTyped, ExitOk
  <1> QED
    BY <1>1, <1>2, <1>3, <1>4, TesterMoves

LEMMA DieInv ==
  ASSUME CacheInv, NEW t \in Testers, Cache!Die(t)
  PROVE  CacheInv' /\ Verdicts
  <1>1. cRun' = [cRun EXCEPT ![t] = Cache!Idle]
    BY DEF Cache!Die
  <1>2. cCache' = cCache /\ UNCHANGED <<cClock, cWatched, cPasses, cLastPass>>
    BY WorldStays DEF Cache!Die
  <1>3. 0 <= cClock
    BY CacheConstants DEF CacheInv, CacheWorld
  <1>4. TesterInv(t, Cache!Idle)
    BY <1>3, IdleTyped DEF TesterInv, AtWork, Testing, Passed
  <1> QED
    BY <1>1, <1>2, <1>4, IdleTyped, TesterMoves

(* What a tester at work has.                                                *)
LEMMA WorkTyped ==
  ASSUME CacheInv, NEW t \in Testers, cRun[t].pc # "idle"
  PROVE  /\ cRun[t] \in TesterStates /\ TesterInv(t, cRun[t])
         /\ cRun[t].config \in TesterConfigs[t]
         /\ cRun[t].left \in Seq(Packages) /\ cRun[t].left # <<>>
         /\ cRun[t].start \in Nat /\ cRun[t].began \in Nat /\ cRun[t].passed \in BOOLEAN
         /\ cClock \in Nat /\ cLastPass \in Int /\ cRun[t].start <= cClock
         /\ <<Head(cRun[t].left), cRun[t].config.pattern>> \in Cache!Pairs
         /\ Head(cRun[t].left) \in Cache!PackagesOf(cRun[t].config)
  <1>1. cRun[t] \in TesterStates /\ TesterInv(t, cRun[t])
    BY DEF CacheInv
  <1>2. /\ cRun[t].left \in Seq(Packages) /\ cRun[t].start \in Nat /\ cRun[t].began \in Nat
        /\ cRun[t].passed \in BOOLEAN
    BY <1>1 DEF TesterStates
  <1>3. /\ cRun[t].config \in TesterConfigs[t] /\ cRun[t].left # <<>>
        /\ Elements(cRun[t].left) \subseteq Cache!PackagesOf(cRun[t].config)
        /\ cRun[t].start <= cClock
    BY <1>1 DEF TesterInv, AtWork
  <1>4. cClock \in Nat /\ cLastPass \in Int
    BY CacheConstants DEF CacheInv, CacheWorld
  <1>5. Head(cRun[t].left) \in Cache!PackagesOf(cRun[t].config)
    BY <1>2, <1>3, HeadAndTail
  <1>6. <<Head(cRun[t].left), cRun[t].config.pattern>> \in Cache!Pairs
    BY <1>3, <1>5, ConfigTyped
  <1> QED
    BY <1>1, <1>2, <1>3, <1>4, <1>5, <1>6

LEMMA MissInv ==
  ASSUME CacheInv, NEW t \in Testers, Cache!Miss(t)
  PROVE  CacheInv' /\ Verdicts
  <1>1. PICK r : r = ToTest(cRun[t], cClock)
    OBVIOUS
  <1>2. cRun[t].pc = "look" /\ t \in DOMAIN cRun
    BY DEF Cache!Miss, CacheInv
  <1>3. cRun' = [cRun EXCEPT ![t] = r]
    BY <1>1, <1>2 DEF Cache!Miss, ToTest
  <1>4. cCache' = cCache /\ UNCHANGED <<cClock, cWatched, cPasses, cLastPass>>
    BY WorldStays DEF Cache!Miss
  <1>5. /\ r \in TesterStates /\ r.pc = "test" /\ r.began = cClock /\ r.config = cRun[t].config
        /\ r.left = cRun[t].left /\ r.start = cRun[t].start /\ r.ok = cRun[t].ok
    <2>1. cRun[t] \in TesterStates /\ cClock \in Nat
      BY <1>2, WorkTyped
    <2> QED
      BY <1>1, <2>1, TestTyped
  <1>6. ~r.ok /\ AtWork(t, r)
    BY <1>2, <1>5, WorkTyped DEF TesterInv, AtWork, Covers, Recent
  <1>7. /\ cClock \in Nat /\ TestTime \in Nat /\ cRun[t].start <= cClock
        /\ cRun[t].config \in TesterConfigs[t]
    BY <1>2, WorkTyped, CacheConstants
  <1>8. TesterInv(t, r)
    <2>1. Testing(r)
      BY <1>5, <1>7 DEF Testing
    <2>2. Passed(r)
      BY <1>5 DEF Passed
    <2>3. r.start <= cClock /\ r.began <= cClock /\ r.config \in TesterConfigs[t]
      BY <1>5, <1>7
    <2> QED
      BY <1>5, <1>6, <2>1, <2>2, <2>3 DEF TesterInv
  <1> QED
    BY <1>3, <1>4, <1>5, <1>6, <1>8, TesterMoves

LEMMA TestInv ==
  ASSUME CacheInv, NEW t \in Testers, Cache!Test(t)
  PROVE  CacheInv' /\ Verdicts
  <1>1. PICK b \in (IF Cache!Selected(t) = cWatched THEN {cPasses} ELSE BOOLEAN) :
          cRun' = [cRun EXCEPT ![t] = ToReport(cRun[t], b)]
    BY DEF Cache!Test, CacheInv, ToReport
  <1>2. b \in BOOLEAN /\ cRun[t].pc = "test"
    BY <1>1 DEF Cache!Test, CacheInv, CacheWorld
  <1>3. cCache' = cCache /\ UNCHANGED <<cClock, cWatched, cPasses, cLastPass>>
    BY WorldStays DEF Cache!Test
  <1>4. PICK r : r = ToReport(cRun[t], b)
    OBVIOUS
  <1>5. cRun[t] \in TesterStates /\ TesterInv(t, cRun[t])
    BY <1>2, WorkTyped
  <1>6. /\ r \in TesterStates /\ r.pc = "report" /\ r.passed = b /\ r.config = cRun[t].config
        /\ r.left = cRun[t].left /\ r.start = cRun[t].start /\ r.began = cRun[t].began
        /\ r.ok = cRun[t].ok
    BY <1>2, <1>4, <1>5, ReportTyped
  <1>7. AtWork(t, r) /\ ~r.ok
    BY <1>2, <1>5, <1>6 DEF TesterInv, AtWork, Covers, Recent
  <1>8. Passed(r)
    <2> SUFFICES ASSUME b, <<Head(r.left), r.config.pattern>> = cWatched
                 PROVE  cLastPass >= r.began
      BY <1>6 DEF Passed
    <2>1. Cache!Selected(t) = cWatched
      BY <1>6 DEF Cache!Selected
    <2>2. cPasses
      BY <1>1, <2>1
    <2> QED
      BY <1>5, <1>6, <2>2 DEF CacheInv, CacheWorld, TesterInv
  <1>9. TesterInv(t, r)
    BY <1>2, <1>5, <1>6, <1>7, <1>8 DEF TesterInv, Testing
  <1> QED
    BY <1>1, <1>3, <1>4, <1>6, <1>7, <1>9, TesterMoves

(* main's loop goes on, or ends.                                             *)
LEMMA ForwardInv ==
  ASSUME CacheInv, NEW t \in Testers, cRun[t].pc # "idle", NEW passed \in BOOLEAN,
         Cache!Forward(t, passed),
         UNCHANGED <<cClock, cWatched, cPasses, cLastPass>>,
         (passed /\ cWatched = Cache!Selected(t)) => Recent(cRun[t]),
         \/ cCache' = cCache
         \/ \E x \in Cache!Pairs : /\ cCache' = [cCache EXCEPT ![x] = cClock]
                                   /\ x = cWatched => cLastPass >= cClock - TestTime
  PROVE  CacheInv' /\ Verdicts
  <1> DEFINE left == Tail(cRun[t].left)
  <1>1. /\ cRun[t] \in TesterStates /\ TesterInv(t, cRun[t]) /\ AtWork(t, cRun[t])
        /\ cRun[t].left \in Seq(Packages) /\ cRun[t].left # <<>>
        /\ cRun[t].config \in TesterConfigs[t] /\ cRun[t].start <= cClock /\ ~cRun[t].ok
    BY WorkTyped DEF TesterInv, AtWork
  <1>2. /\ left \in Seq(Packages)
        /\ Elements(left) \subseteq Elements(cRun[t].left)
        /\ \A x \in Elements(cRun[t].left) : x = Head(cRun[t].left) \/ x \in Elements(left)
        /\ left = <<>> => \A x \in Elements(cRun[t].left) : x = Head(cRun[t].left)
    BY <1>1, HeadAndTail
  <1>3. ASSUME passed, Covers(cRun[t].config)
        PROVE  Recent(cRun[t]) \/ (cWatched[1] \in Elements(left) /\ left # <<>>)
    <2>1. CASE cWatched = Cache!Selected(t)
      BY <1>3, <2>1
    <2>2. CASE cWatched # Cache!Selected(t)
      <3>1. cWatched = <<cWatched[1], cWatched[2]>>
        BY DEF CacheInv, CacheWorld, Cache!Pairs
      <3>2. cWatched[1] # Head(cRun[t].left)
        BY <1>3, <2>2, <3>1 DEF Covers, Cache!Selected
      <3> QED
        BY <1>1, <1>2, <1>3, <3>2 DEF AtWork
    <2> QED
      BY <2>1, <2>2
  <1>4. cRun' = [cRun EXCEPT ![t] =
           CASE ~passed -> Cache!Exited(FALSE)
             [] passed /\ left = <<>> -> Cache!Exited(TRUE)
             [] OTHER -> ToNext(cRun[t], left)]
    BY DEF Cache!Forward, CacheInv, ToNext
  <1> HIDE DEF left
  <1>5. CASE ~passed
    <2>1. cRun' = [cRun EXCEPT ![t] = Cache!Exited(FALSE)]
      BY <1>4, <1>5
    <2>2. /\ Cache!Exited(FALSE) \in TesterStates /\ TesterInv(t, Cache!Exited(FALSE))
          /\ Cache!Exited(FALSE).ok = FALSE
      BY ExitedTyped, ExitOk, ExitedAnswer
    <2> QED
      BY <2>1, <2>2, TesterMoves
  <1>6. CASE passed /\ left = <<>>
    <2>1. cRun' = [cRun EXCEPT ![t] = Cache!Exited(TRUE)]
      BY <1>4, <1>6
    <2>2. Cache!Exited(TRUE) \in TesterStates /\ TesterInv(t, Cache!Exited(TRUE))
      BY ExitedTyped, ExitOk
    <2>3. Covers(cRun[t].config) => Recent(cRun[t])
      BY <1>3, <1>6
    <2> QED
      BY <2>1, <2>2, <2>3, TesterMoves
  <1>7. CASE passed /\ left # <<>>
    <2>1. PICK r : r = ToNext(cRun[t], left)
      OBVIOUS
    <2>2. cRun' = [cRun EXCEPT ![t] = r]
      BY <1>4, <1>7, <2>1
    <2>3. /\ r \in TesterStates /\ r.pc = "look" /\ r.left = left /\ r.began = 0
          /\ r.config = cRun[t].config /\ r.start = cRun[t].start /\ r.ok = cRun[t].ok
      BY <1>1, <1>2, <2>1, NextTyped
    <2>4. 0 <= cClock
      BY CacheConstants DEF CacheInv, CacheWorld
    <2>5. Covers(r.config) => Recent(r) \/ cWatched[1] \in Elements(r.left)
      BY <1>3, <1>7, <2>3 DEF Recent
    <2>6. AtWork(t, r) /\ ~r.ok
      BY <1>1, <1>2, <1>7, <2>3, <2>5 DEF AtWork
    <2>7. TesterInv(t, r)
      BY <1>1, <2>3, <2>4, <2>6 DEF TesterInv, Testing, Passed
    <2> QED
      BY <2>2, <2>3, <2>6, <2>7, TesterMoves
  <1> QED
    BY <1>5, <1>6, <1>7

(* A file that is still valid tells of a pass within the TTL and a test run. *)
LEMMA HitInv ==
  ASSUME CacheInv, NEW t \in Testers, Cache!Hit(t)
  PROVE  CacheInv' /\ Verdicts
  <1>1. /\ cRun[t].pc = "look" /\ cRun[t].config.caching
        /\ Cache!IsCacheValid(Cache!Current(t))
        /\ Cache!Forward(t, TRUE)
        /\ cCache' = cCache /\ UNCHANGED <<cClock, cWatched, cPasses, cLastPass>>
    BY WorldStays DEF Cache!Hit
  <1>2. cWatched = Cache!Selected(t) => Recent(cRun[t])
    <2> SUFFICES ASSUME cWatched = Cache!Selected(t) PROVE Recent(cRun[t])
      OBVIOUS
    <2>1. Cache!Current(t) = cWatched
      BY DEF Cache!Current, Cache!CacheKey, Cache!Selected
    <2>2. cCache[cWatched] # Cache!NoFile /\ cClock - cCache[cWatched] <= TTL
      BY <1>1, <2>1 DEF Cache!IsCacheValid
    <2>3. cLastPass >= cCache[cWatched] - TestTime
      BY <2>2 DEF CacheInv, FileBacked
    <2>4. cCache[cWatched] \in Int
      BY CacheConstants DEF CacheInv, CacheWorld
    <2>5. /\ cRun[t].start \in Nat /\ cRun[t].start <= cClock /\ cClock \in Nat /\ cLastPass \in Int
      BY <1>1, WorkTyped
    <2>6. Slack(cRun[t].config) = TTL + TestTime
      BY <1>1 DEF Slack
    <2>7. cLastPass >= cRun[t].start - (TTL + TestTime)
      BY <2>2, <2>3, <2>4, <2>5, CacheConstants
    <2> QED
      BY <2>6, <2>7 DEF Recent
  <1>3. cRun[t].pc # "idle"
    BY <1>1
  <1> QED
    BY <1>1, <1>2, <1>3, ForwardInv

LEMMA ReportInv ==
  ASSUME CacheInv, NEW t \in Testers, Cache!Report(t)
  PROVE  CacheInv' /\ Verdicts
  <1>1. /\ cRun[t].pc = "report"
        /\ Cache!Forward(t, cRun[t].passed)
        /\ UNCHANGED <<cClock, cWatched, cPasses, cLastPass>>
    BY WorldStays DEF Cache!Report
  <1>2. /\ cRun[t].passed \in BOOLEAN /\ cRun[t].config \in TesterConfigs[t]
        /\ cRun[t].start \in Nat /\ cRun[t].began \in Nat /\ cClock \in Nat /\ cLastPass \in Int
        /\ Cache!Current(t) \in Cache!Pairs /\ TesterInv(t, cRun[t])
    BY <1>1, WorkTyped DEF Cache!Current, Cache!CacheKey
  <1>3. cRun[t].start <= cRun[t].began /\ cClock <= cRun[t].began + TestTime
    BY <1>1, <1>2 DEF TesterInv, Testing
  <1>4. ASSUME cRun[t].passed, cWatched = Cache!Selected(t)
        PROVE  cLastPass >= cRun[t].began
    BY <1>1, <1>2, <1>4 DEF TesterInv, Passed, Cache!Selected
  <1>5. (cRun[t].passed /\ cWatched = Cache!Selected(t)) => Recent(cRun[t])
    <2> SUFFICES ASSUME cRun[t].passed, cWatched = Cache!Selected(t) PROVE Recent(cRun[t])
      OBVIOUS
    <2>1. cLastPass >= cRun[t].began /\ Slack(cRun[t].config) \in Nat
      BY <1>2, <1>4, ConfigTyped
    <2>2. cLastPass >= cRun[t].start - Slack(cRun[t].config)
      BY <1>2, <1>3, <2>1
    <2> QED
      BY <2>2 DEF Recent
  <1>6. \/ cCache' = cCache
        \/ \E x \in Cache!Pairs : /\ cCache' = [cCache EXCEPT ![x] = cClock]
                                  /\ x = cWatched => cLastPass >= cClock - TestTime
    <2>1. CASE Cache!Writes(t) /\ cCache' = [cCache EXCEPT ![Cache!Current(t)] = cClock]
      <3>1. cRun[t].passed
        BY <2>1 DEF Cache!Writes
      <3>2. Cache!Current(t) = cWatched => cLastPass >= cRun[t].began
        BY <1>4, <3>1 DEF Cache!Current, Cache!CacheKey, Cache!Selected
      <3>3. Cache!Current(t) = cWatched => cLastPass >= cClock - TestTime
        BY <1>2, <1>3, <3>2, CacheConstants
      <3> QED
        BY <1>2, <2>1, <3>3
    <2> QED
      BY <2>1 DEF Cache!Report
  <1>7. cRun[t].pc # "idle"
    BY <1>1
  <1> QED
    BY <1>1, <1>2, <1>5, <1>6, <1>7, ForwardInv

LEMMA TickInv ==
  ASSUME CacheInv, Cache!Tick
  PROVE  CacheInv' /\ Verdicts
  <1>1. /\ cClock < CacheClock /\ cClock' = cClock + 1
        /\ \A t \in Testers : cRun[t].pc \in {"test", "report"} => cClock - cRun[t].began < TestTime
        /\ cPasses' \in BOOLEAN
        /\ cLastPass' = IF cPasses' THEN cClock' ELSE cLastPass
        /\ cWatched' = cWatched /\ cCache' = cCache /\ cRun' = cRun
    BY DEF Cache!Tick
  <1>2. /\ cClock \in Nat /\ cClock <= CacheClock /\ cLastPass \in Int /\ cLastPass <= cClock
        /\ Cache!Never <= cLastPass /\ Cache!Never \in Int /\ Cache!Never < 0 /\ CacheClock \in Nat
    BY CacheConstants DEF CacheInv, CacheWorld
  <1>3. cClock' \in 0..CacheClock /\ cLastPass' \in Cache!Never..cClock' /\ cLastPass' >= cLastPass
    BY <1>1, <1>2
  <1>4. CacheWorld'
    BY <1>1, <1>3 DEF CacheInv, CacheWorld
  <1>5. cCache' \in [Cache!Pairs -> Cache!Never..cClock']
    <2>1. Cache!Never..cClock \subseteq Cache!Never..cClock'
      BY <1>1, <1>2
    <2> QED
      BY <1>1, <2>1 DEF CacheInv
  <1>6. FileBacked'
    <2>1. cCache[cWatched] \in Int
      BY <1>2 DEF CacheInv, CacheWorld
    <2>2. cLastPass' \in Int
      BY <1>3, <1>2, <1>1
    <2> QED
      BY <1>1, <1>2, <1>3, <2>1, <2>2, CacheConstants DEF CacheInv, FileBacked
  <1>7. ASSUME NEW t \in Testers PROVE TesterInv(t, cRun[t])'
    <2>1. PICK r \in TesterStates : r = cRun[t]
      BY DEF CacheInv
    <2>2. TesterInv(t, r) /\ cRun'[t] = r
      BY <1>1, <2>1 DEF CacheInv
    <2>3. r.start \in Nat /\ r.began \in Nat
      BY DEF TesterStates
    <2>4. r.start <= cClock' /\ r.began <= cClock'
      BY <1>1, <1>2, <2>2, <2>3 DEF TesterInv
    <2>5. r.pc \in {"test", "report"} => r.start <= r.began /\ cClock' <= r.began + TestTime
      BY <1>1, <1>2, <2>1, <2>2, <2>3, CacheConstants DEF TesterInv, Testing
    <2>6. (r.pc = "report" /\ r.passed /\ <<Head(r.left), r.config.pattern>> = cWatched) =>
            cLastPass' >= r.began
      BY <1>2, <1>3, <2>2, <2>3 DEF TesterInv, Passed
    <2>7. ASSUME r.pc # "idle", Covers(r.config)
          PROVE  cLastPass' >= r.start - Slack(r.config) \/ cWatched[1] \in Elements(r.left)
      <3>1. r.config \in TesterConfigs[t]
        BY <2>2, <2>7 DEF TesterInv, AtWork
      <3>2. Slack(r.config) \in Nat
        BY <3>1, ConfigTyped
      <3>3. Recent(r) \/ cWatched[1] \in Elements(r.left)
        BY <2>2, <2>7 DEF TesterInv, AtWork
      <3> QED
        BY <1>2, <1>3, <2>3, <3>2, <3>3 DEF Recent
    <2> QED
      BY <1>1, <2>2, <2>4, <2>5, <2>6, <2>7
         DEF TesterInv, AtWork, Testing, Passed, Covers, Recent
  <1>8. Verdicts
    BY <1>1 DEF Verdicts, CacheInv, TesterInv, AtWork
  <1>9. cRun' \in [Testers -> TesterStates]
    BY <1>1 DEF CacheInv
  <1> QED
    BY <1>4, <1>5, <1>6, <1>7, <1>8, <1>9 DEF CacheInv

LEMMA CacheStepInv ==
  ASSUME CacheInv, Cache!Next \/ UNCHANGED cacheVars
  PROVE  CacheInv' /\ Verdicts
  <1>1. CASE Cache!Tick
    BY <1>1, TickInv
  <1>2. ASSUME NEW t \in Testers,
               \/ \E c \in TesterConfigs[t] : Cache!Begin(t, c)
               \/ Cache!NothingListed(t) \/ Cache!Hit(t) \/ Cache!Miss(t) \/ Cache!Test(t)
               \/ Cache!Report(t) \/ Cache!Die(t)
        PROVE  CacheInv' /\ Verdicts
    BY <1>2, BeginTester, NothingListedInv, HitInv, MissInv, TestInv, ReportInv, DieInv
  <1>3. CASE UNCHANGED cacheVars
    <2>1. /\ cClock' = cClock /\ cWatched' = cWatched /\ cPasses' = cPasses
          /\ cLastPass' = cLastPass /\ cCache' = cCache /\ cRun' = cRun
      BY <1>3 DEF cacheVars
    <2>2. CacheWorld' /\ FileBacked'
      BY <2>1 DEF CacheInv, CacheWorld, FileBacked
    <2>3. ASSUME NEW t \in Testers PROVE TesterInv(t, cRun[t])'
      BY <2>1, TesterStays DEF CacheInv
    <2>4. Verdicts
      BY <2>1 DEF Verdicts, CacheInv, TesterInv, AtWork
    <2> QED
      BY <2>1, <2>2, <2>3, <2>4 DEF CacheInv
  <1> QED
    BY <1>1, <1>2, <1>3 DEF Cache!Next

LEMMA CacheInit ==
  ASSUME Cache!Init
  PROVE  CacheInv
  <1>1. CacheWorld
    <2>1. cClock = 0 /\ cWatched \in Cache!Pairs /\ cPasses = FALSE /\ cLastPass = Cache!Never
      BY DEF Cache!Init
    <2>2. cClock \in 0..CacheClock /\ cLastPass \in Cache!Never..cClock
      BY <2>1, CacheConstants
    <2> QED
      BY <2>1, <2>2 DEF CacheWorld
  <1>2. cCache = [x \in Cache!Pairs |-> Cache!NoFile] /\ cRun = [t \in Testers |-> Cache!Idle]
        /\ cWatched \in Cache!Pairs /\ cClock = 0
    BY DEF Cache!Init
  <1>3. cCache \in [Cache!Pairs -> Cache!Never..cClock] /\ FileBacked
    BY <1>2, CacheConstants DEF FileBacked
  <1>4. \A t \in Testers : TesterInv(t, cRun[t])
    BY <1>2, IdleTyped DEF TesterInv, AtWork, Testing, Passed
  <1>5. cRun \in [Testers -> TesterStates]
    BY <1>2, IdleTyped
  <1> QED
    BY <1>1, <1>3, <1>4, <1>5 DEF CacheInv

(* A tester that exits with 0 speaks of recent code, for any testers,        *)
(* packages, patterns, TTL and length of a test run, however many of them    *)
(* share the cache directory, fail, or die.                                  *)
THEOREM VerdictsAreRecent == PartsSpec => VerdictIsRecent
  <1>1. PartsInit => CacheInv
    BY CacheInit DEF PartsInit
  <1>2. CacheInv /\ [PartsNext]_partsVars => CacheInv' /\ Verdicts
    <2>1. ASSUME CacheInv, PartsNext PROVE CacheInv' /\ Verdicts
      BY <2>1, StepsOrRests, CacheStepInv
    <2>2. ASSUME CacheInv, UNCHANGED partsVars PROVE CacheInv' /\ Verdicts
      BY <2>2, CacheStepInv DEF partsVars
    <2> QED
      BY <2>1, <2>2
  <1>3. Verdicts =>
          \A t \in Testers :
            (/\ cRun[t].left # <<>> /\ cRun'[t].ok
             /\ cWatched[1] \in Cache!PackagesOf(cRun[t].config)
                /\ cWatched[2] = cRun[t].config.pattern) =>
              cLastPass >= cRun[t].start - (IF cRun[t].config.caching THEN TTL + TestTime ELSE 0)
    BY DEF Verdicts, Covers, Recent, Slack
  <1> QED
    BY <1>1, <1>2, <1>3, PTL DEF PartsSpec, VerdictIsRecent, Cache!VerdictIsRecent

-----------------------------------------------------------------------------
(* The types of the parts, each from its part's invariant. *)

LEMMA CacheStays == PartsSpec => []CacheInv
  <1>1. PartsInit => CacheInv
    BY CacheInit DEF PartsInit
  <1>2. CacheInv /\ [PartsNext]_partsVars => CacheInv'
    BY StepsOrRests, CacheStepInv DEF partsVars
  <1> QED
    BY <1>1, <1>2, PTL DEF PartsSpec

(* Every part keeps its types, for every value of the constants. *)
THEOREM PartsTyped == PartsSpec => []PartsTypeOK
  <1>1. LoaderInv => Loader!TypeOK
    BY DEF LoaderInv, Drawn, Loader!TypeOK
  <1>2. WaitInv => Wait!TypeOK
    BY DEF WaitInv
  <1>3. ChainInv => Chain!TypeOK
    <2> SUFFICES ASSUME ChainInv PROVE Chain!TypeOK
      OBVIOUS
    <2>1. tArrived \subseteq 1..Chain!Services
      BY ChainConstants DEF ChainInv
    <2> QED
      BY <2>1 DEF ChainInv, Chain!TypeOK
  <1>4. DocsInv => Documents!TypeOK
    BY DEF DocsInv
  <1>5. ListInv => Query!TypeOK
    BY DEF ListInv, FiltersOfSeen, Query!TypeOK
  <1>6. CacheInv => Cache!TypeOK
    <2> SUFFICES ASSUME CacheInv PROVE Cache!TypeOK
      OBVIOUS
    <2>1. ASSUME NEW t \in Testers
          PROVE  /\ cRun[t].pc \in {"idle", "look", "test", "report"}
                 /\ cRun[t].config \in TesterConfigs[t] \cup {Cache!NoConfig}
                 /\ cRun[t].start \in 0..cClock /\ cRun[t].began \in 0..cClock
                 /\ cRun[t].ok \in BOOLEAN
      <3>1. cRun[t] \in TesterStates /\ TesterInv(t, cRun[t]) /\ cClock \in Nat
        BY CacheConstants DEF CacheInv, CacheWorld
      <3> QED
        BY <3>1 DEF TesterStates, TesterInv
    <2> QED
      BY <2>1 DEF CacheInv, CacheWorld, Cache!TypeOK
  <1>7. LoaderInv /\ WaitInv /\ ChainInv /\ DocsInv /\ ListInv /\ CacheInv => PartsTypeOK
    BY <1>1, <1>2, <1>3, <1>4, <1>5, <1>6 DEF PartsTypeOK
  <1> QED
    BY <1>7, LoaderStays, WaitStays, ChainStays, DocsStays, ListStays, CacheStays, PTL
=============================================================================
