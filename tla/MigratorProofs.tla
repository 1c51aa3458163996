--------------------------- MODULE MigratorProofs ---------------------------
(***************************************************************************)
(* Theorems about Migrator, for any number of processes, connections,      *)
(* versions and files: the types, and the lock.                            *)
(***************************************************************************)
EXTENDS Migrator, DataLemmas, SequenceTheorems, TLAPS

(* At these statements a call is at work on the smallest version it has left. *)
AtWork == {"exec", "commit", "recordOk", "recordFail"}

Todos == [Versions -> 0..MaxCopies]
OpNames == {"none", "up", "down", "status"}
Holders == Conns \cup {NoConn}

(* TypeOK is not inductive: the checksum of a row comes from a file that Up   *)
(* must have, the version at work from a set that must not be empty, and an   *)
(* unlock subtracts from a depth that must not be zero.                       *)
WorkOK(r, l, o, t) ==
  /\ o = "up" => \A v \in Versions : t[v] > 0 => HasFile(r, v, "up")
  /\ l \in AtWork => o \in {"up", "down"} /\ \E v \in Versions : t[v] > 0
  /\ l \notin AtWork => t = NoVersions
  /\ l \in {"recordOk", "recordFail"} => o = "up"

CallInv ==
  /\ pc \in [Calls -> PCs] /\ op \in [Calls -> OpNames] /\ todo \in [Calls -> Todos]
  /\ \A c \in Calls : WorkOK(RunnerOf[c], pc[c], op[c], todo[c])
  /\ \A c \in Calls : pc[c] = "commit" => busy[c] # NoConn

PoolInv ==
  /\ busy \in [Calls -> Holders] /\ idle \in [Runners -> Seq(Conns)]
  /\ holder \in Holders /\ depth \in 0..MaxDepth /\ refused \in Nat
  /\ holder = NoConn <=> depth = 0

RunnerInv ==
  /\ copies \in [Runners -> Todos] /\ loaded \in [Runners -> BOOLEAN]
  /\ \A r \in Runners : \A v \in Versions : copies[r][v] > 0 => HasFile(r, v, "up")

DbInv == table \in Seq(Rows) /\ schema \in Seq(Versions)

TypeInv == CallInv /\ PoolInv /\ RunnerInv /\ DbInv

-----------------------------------------------------------------------------
(* Sequences, files and rows. *)

LEMMA RemoveAtType ==
  ASSUME NEW S, NEW s \in Seq(S), NEW i \in DOMAIN s
  PROVE  RemoveAt(s, i) \in Seq(S)
  <1>1. i \in 1..Len(s) /\ Len(s) \in Nat
    OBVIOUS
  <1>2. SubSeq(s, 1, i - 1) \in Seq(S)
    BY <1>1, SubSeqProperties
  <1>3. SubSeq(s, i + 1, Len(s)) \in Seq(S)
    BY <1>1, SubSeqProperties
  <1> QED
    BY <1>2, <1>3 DEF RemoveAt

LEMMA WithoutType ==
  ASSUME DbInv, NEW v \in Versions
  PROVE  RowsWithout(v) \in Seq(Rows) /\ SchemaWithout(v) \in Seq(Versions)
  <1>1. RowsWithout(v) \in Seq(Rows)
    <2>1. CASE HasRow(v)
      <3>1. RowIndex(v) \in DOMAIN table
        BY <2>1 DEF HasRow, RowIndex
      <3> QED
        BY <2>1, <3>1, RemoveAtType DEF RowsWithout, DbInv
    <2> QED
      BY <2>1 DEF RowsWithout, DbInv
  <1>2. SchemaWithout(v) \in Seq(Versions)
    <2>1. CASE InSchema(v)
      <3>1. (CHOOSE i \in DOMAIN schema : schema[i] = v) \in DOMAIN schema
        BY <2>1 DEF InSchema
      <3> QED
        BY <2>1, <3>1, RemoveAtType DEF SchemaWithout, DbInv
    <2> QED
      BY <2>1 DEF SchemaWithout, DbInv
  <1> QED
    BY <1>1, <1>2

LEMMA UpSumType ==
  ASSUME NEW r \in Runners, NEW v \in Versions, HasFile(r, v, "up")
  PROVE  UpSum(r, v) \in Sums
  <1>1. \A f \in ToSet(FilesOf[r]) : f \in FileRecords
    BY FilesAssumption DEF ToSet
  <1>2. PICK f \in ToSet(FilesOf[r]) : f.ver = v /\ f.dir = "up"
    BY DEF HasFile, ToSet
  <1>3. (CHOOSE g \in ToSet(FilesOf[r]) : g.ver = v /\ g.dir = "up") \in ToSet(FilesOf[r])
    BY <1>2
  <1> QED
    BY <1>1, <1>3 DEF UpSum, FileRecords

LEMMA TargetLeft ==
  ASSUME CallInv, NEW c \in Calls, pc[c] \in AtWork
  PROVE  /\ Target(c) \in Versions
         /\ todo[c][Target(c)] > 0
         /\ op[c] = "up" => HasFile(RunnerOf[c], Target(c), "up")
         /\ \A w \in Left(c) : Target(c) <= w
  <1>1. Left(c) \in SUBSET Nat /\ Left(c) # {}
    BY VersionAssumption DEF CallInv, WorkOK, Left
  <1>2. \E v \in Left(c) : \A w \in Left(c) : v <= w
    BY <1>1, Smallest
  <1>3. Target(c) \in Left(c) /\ \A w \in Left(c) : Target(c) <= w
    BY <1>2 DEF Target
  <1> QED
    BY <1>3 DEF CallInv, WorkOK, Left

LEMMA NewRowType ==
  ASSUME CallInv, NEW c \in Calls, pc[c] \in {"recordOk", "recordFail"}, NEW b \in BOOLEAN
  PROVE  NewRow(c, b) \in Rows
  <1>1. op[c] = "up" /\ pc[c] \in AtWork
    BY DEF CallInv, WorkOK, AtWork
  <1>2. UpSum(RunnerOf[c], Target(c)) \in Sums
    BY <1>1, TargetLeft, UpSumType, RunnerAssumption
  <1> QED
    BY <1>1, <1>2, TargetLeft DEF NewRow, Rows

(* Down's latest row is a row. *)
LEMMA LatestRow ==
  ASSUME DbInv, NEW latest, latest = SelectLastInSeq(table, LAMBDA row : row.ok), latest # 0
  PROVE  /\ latest \in DOMAIN table /\ table[latest].ver \in Versions
         /\ table[latest].ok /\ \A j \in DOMAIN table : j > latest => ~table[j].ok
  <1> DEFINE I == {i \in 1..Len(table) : table[i].ok}
             Rest == {Len(table) - i : i \in I}
  <1>1. Len(table) \in Nat /\ DOMAIN table = 1..Len(table)
    BY DEF DbInv
  <1>2. latest = (IF I # {} THEN Max(I) ELSE 0)
    BY DEF SelectLastInSeq
  <1>3. PICK m \in I : \A i \in I : i <= m
    <2>1. Rest \in SUBSET Nat /\ Rest # {}
      BY <1>1, <1>2
    <2>2. PICK x \in Rest : \A y \in Rest : x <= y
      <3> HIDE DEF Rest
      <3> QED
        BY <2>1, Smallest
    <2>3. PICK m \in I : x = Len(table) - m
      OBVIOUS
    <2>4. ASSUME NEW i \in I PROVE i <= m
      <3>1. x <= Len(table) - i
        BY <2>2
      <3> QED
        BY <1>1, <2>3, <3>1
    <2> QED
      BY <2>4
  <1>4. latest \in I /\ \A i \in I : latest >= i
    <2>1. \E x \in I : \A y \in I : x >= y
      BY <1>3
    <2>2. Max(I) \in I /\ \A i \in I : Max(I) >= i
      BY <2>1 DEF Max
    <2> QED
      BY <1>2, <1>3, <2>2
  <1>5. \A i \in DOMAIN table : table[i] \in Rows
    BY DEF DbInv
  <1>6. ASSUME NEW j \in DOMAIN table, j > latest, table[j].ok PROVE FALSE
    BY <1>1, <1>4, <1>6
  <1> QED
    BY <1>1, <1>4, <1>5, <1>6 DEF Rows

-----------------------------------------------------------------------------
(* The pool. *)

LEMMA PutBackPool ==
  ASSUME PoolInv, NEW c \in Calls, busy[c] # NoConn,
         NEW h \in Holders, NEW d \in 0..MaxDepth, h = NoConn <=> d = 0, NEW n \in Nat,
         PutBackWith(c, h, d, n)
  PROVE  PoolInv' /\ busy' = [busy EXCEPT ![c] = NoConn]
  <1>1. busy[c] \in Conns /\ RunnerOf[c] \in Runners
    BY RunnerAssumption DEF PoolInv, Holders
  <1>2. busy' = [busy EXCEPT ![c] = NoConn]
    BY DEF PutBackWith
  <1>3. idle' \in [Runners -> Seq(Conns)]
    <2>1. Append(idle[RunnerOf[c]], busy[c]) \in Seq(Conns)
      BY <1>1 DEF PoolInv
    <2> QED
      BY <1>1, <2>1 DEF PutBackWith, PoolInv
  <1>4. holder' \in Holders /\ depth' \in 0..MaxDepth /\ (holder' = NoConn <=> depth' = 0)
        /\ refused' \in Nat
    BY BoundAssumption DEF PutBackWith, Holders
  <1> QED
    BY <1>2, <1>3, <1>4 DEF PoolInv, Holders

LEMMA PutBackSame ==
  ASSUME PoolInv, NEW c \in Calls, busy[c] # NoConn, PutBack(c)
  PROVE  PoolInv' /\ busy' = [busy EXCEPT ![c] = NoConn]
  <1>1. holder \in Holders /\ depth \in 0..MaxDepth /\ (holder = NoConn <=> depth = 0)
        /\ refused \in Nat
    BY DEF PoolInv
  <1> QED
    BY <1>1, PutBackPool DEF PutBack

LEMMA DiscardPool ==
  ASSUME PoolInv, NEW c \in Calls, Discard(c)
  PROVE  PoolInv' /\ busy' = [busy EXCEPT ![c] = NoConn]
  BY BoundAssumption DEF PoolInv, Discard, EndSessions, Holders

-----------------------------------------------------------------------------
(* The calls. *)

(* A step moves one call, and leaves the connections of the others alone. *)
LEMMA CallMoves ==
  ASSUME CallInv, NEW c \in Calls,
         NEW l \in PCs, NEW o \in OpNames, NEW t \in Todos,
         pc' = [pc EXCEPT ![c] = l], op' = [op EXCEPT ![c] = o], todo' = [todo EXCEPT ![c] = t],
         \A d \in Calls \ {c} : busy'[d] = busy[d],
         WorkOK(RunnerOf[c], l, o, t), l = "commit" => busy'[c] # NoConn
  PROVE  CallInv'
  <1>1. /\ pc' \in [Calls -> PCs] /\ op' \in [Calls -> OpNames] /\ todo' \in [Calls -> Todos]
        /\ pc'[c] = l /\ op'[c] = o /\ todo'[c] = t
        /\ \A d \in Calls \ {c} : pc'[d] = pc[d] /\ op'[d] = op[d] /\ todo'[d] = todo[d]
    BY DEF CallInv
  <1>2. \A d \in Calls : WorkOK(RunnerOf[d], pc'[d], op'[d], todo'[d])
    BY <1>1 DEF CallInv
  <1>3. \A d \in Calls : pc'[d] = "commit" => busy'[d] # NoConn
    BY <1>1 DEF CallInv
  <1> QED
    BY <1>1, <1>2, <1>3 DEF CallInv, WorkOK, HasFile

(* The call keeps its operation and what it has left. *)
LEMMA GotoCall ==
  ASSUME CallInv, NEW c \in Calls, NEW l \in PCs, Goto(c, l), UNCHANGED <<op, todo>>,
         \A d \in Calls \ {c} : busy'[d] = busy[d],
         WorkOK(RunnerOf[c], l, op[c], todo[c]), l = "commit" => busy'[c] # NoConn
  PROVE  CallInv'
  <1>1. op[c] \in OpNames /\ todo[c] \in Todos
    BY DEF CallInv
  <1>2. op' = [op EXCEPT ![c] = op[c]] /\ todo' = [todo EXCEPT ![c] = todo[c]]
    BY DEF CallInv
  <1> QED
    BY <1>1, <1>2, CallMoves DEF Goto

LEMMA GotoIdle ==
  ASSUME CallInv, NEW c \in Calls, pc[c] \notin AtWork, NEW l \in PCs \ AtWork, Goto(c, l), UNCHANGED <<op, todo>>,
         \A d \in Calls \ {c} : busy'[d] = busy[d]
  PROVE  CallInv'
  <1>1. WorkOK(RunnerOf[c], l, op[c], todo[c]) /\ l # "commit"
    BY DEF CallInv, WorkOK, AtWork
  <1> QED
    BY <1>1, GotoCall

LEMMA NothingLeft ==
  /\ NoVersions \in Todos
  /\ \A v \in Versions : NoVersions[v] = 0
  BY BoundAssumption DEF NoVersions, Todos

LEMMA LeaveCall ==
  ASSUME CallInv, NEW c \in Calls, Leave(c) \/ Return(c),
         \A d \in Calls \ {c} : busy'[d] = busy[d]
  PROVE  CallInv'
  <1>1. CASE Return(c)
    <2>1. WorkOK(RunnerOf[c], "idle", "none", NoVersions)
      BY DEF WorkOK, AtWork
    <2>2. "idle" \in PCs /\ "none" \in OpNames
      BY DEF PCs, OpNames
    <2> QED
      BY <1>1, <2>1, <2>2, NothingLeft, CallMoves DEF Return, Goto
  <1>2. CASE ~Return(c)
    <2>1. WorkOK(RunnerOf[c], "unlock", op[c], NoVersions)
      BY NothingLeft DEF WorkOK, AtWork
    <2>2. "unlock" \in PCs /\ op[c] \in OpNames /\ op' = [op EXCEPT ![c] = op[c]]
      BY <1>2 DEF PCs, CallInv, Leave
    <2> QED
      BY <1>2, <2>1, <2>2, NothingLeft, CallMoves DEF Leave, Goto
  <1> QED
    BY <1>1, <1>2

-----------------------------------------------------------------------------
(* The actions. *)

LEMMA InitTyped == Init => TypeInv
  <1> SUFFICES ASSUME Init PROVE TypeInv
    OBVIOUS
  <1>1. CallInv
    BY NothingLeft DEF Init, CallInv, PCs, OpNames, WorkOK, AtWork
  <1>2. PoolInv
    BY BoundAssumption DEF Init, PoolInv, Holders
  <1>3. RunnerInv
    BY NothingLeft DEF Init, RunnerInv
  <1>4. DbInv
    BY DEF Init, DbInv
  <1> QED
    BY <1>1, <1>2, <1>3, <1>4 DEF TypeInv

(* Only the answer to the files' pass changes the Runner, only a COMMIT and a *)
(* record change the database.                                                *)
LEMMA RunnerSame ==
  ASSUME RunnerInv, UNCHANGED runnerVars
  PROVE  RunnerInv'
  BY DEF RunnerInv, runnerVars, HasFile

LEMMA DbSame ==
  ASSUME DbInv, UNCHANGED dbVars
  PROVE  DbInv'
  BY DEF DbInv, dbVars

LEMMA PoolSame ==
  ASSUME PoolInv, UNCHANGED poolVars
  PROVE  PoolInv'
  BY DEF PoolInv, poolVars

LEMMA OthersKeepTheirs ==
  ASSUME PoolInv, NEW c \in Calls, busy' = [busy EXCEPT ![c] = NoConn]
  PROVE  \A d \in Calls \ {c} : busy'[d] = busy[d]
  BY DEF PoolInv

LEMMA StartTyped ==
  ASSUME TypeInv, NEW c \in Calls, NEW o \in Ops, Start(c, o)
  PROVE  TypeInv'
  <1>1. todo[c] = NoVersions
    BY DEF TypeInv, CallInv, WorkOK, AtWork, Start
  <1>2. FirstStatement(o) \in PCs \ AtWork /\ o \in OpNames
    BY ChoiceAssumption DEF FirstStatement, PCs, AtWork, OpNames
  <1>3. WorkOK(RunnerOf[c], FirstStatement(o), o, NoVersions)
    BY <1>2, NothingLeft DEF WorkOK, AtWork
  <1>4. todo' = [todo EXCEPT ![c] = NoVersions]
    BY <1>1 DEF Start, TypeInv, CallInv
  <1>5. FirstStatement(o) # "commit"
    BY DEF FirstStatement
  <1>6. CallInv'
    BY <1>2, <1>3, <1>4, <1>5, NothingLeft, CallMoves DEF TypeInv, Start, Goto, poolVars
  <1> QED
    BY <1>6, PoolSame, RunnerSame, DbSame DEF TypeInv, Start

LEMMA TakeTyped ==
  ASSUME TypeInv, NEW c \in Calls, Take(c)
  PROVE  TypeInv'
  <1>1. RunnerOf[c] \in Runners
    BY RunnerAssumption
  <1>2. busy' \in [Calls -> Holders] /\ idle' \in [Runners -> Seq(Conns)]
    <2>1. CASE idle[RunnerOf[c]] # <<>>
      <3>1. Last(idle[RunnerOf[c]]) \in Conns /\ Front(idle[RunnerOf[c]]) \in Seq(Conns)
        <4>1. idle[RunnerOf[c]] \in Seq(Conns)
          BY <1>1 DEF TypeInv, PoolInv
        <4> QED
          BY <2>1, <4>1, SubSeqProperties DEF Last, Front
      <3> QED
        BY <1>1, <2>1, <3>1 DEF Take, TypeInv, PoolInv, Holders
    <2>2. CASE idle[RunnerOf[c]] = <<>>
      BY <2>2 DEF Take, TypeInv, PoolInv, Holders
    <2> QED
      BY <2>1, <2>2
  <1>3. PoolInv'
    BY <1>2 DEF Take, TypeInv, PoolInv
  <1>4. \A d \in Calls \ {c} : busy'[d] = busy[d]
    BY DEF Take, TypeInv, PoolInv
  <1>5. pc[c] # "commit"
    BY DEF Take, Statements
  <1>6. CallInv'
    BY <1>4, <1>5 DEF Take, TypeInv, CallInv, callVars, WorkOK, HasFile
  <1> QED
    BY <1>3, <1>6, RunnerSame, DbSame DEF TypeInv, Take

LEMMA AcquireLockTyped ==
  ASSUME TypeInv, NEW c \in Calls, AcquireLock(c)
  PROVE  TypeInv'
  <1>1. busy[c] \in Holders /\ depth + 1 \in 0..MaxDepth
    BY BoundAssumption DEF AcquireLock, TypeInv, PoolInv
  <1>2. busy[c] = NoConn <=> depth + 1 = 0
    BY DEF AcquireLock, TypeInv, PoolInv
  <1>3. PoolInv' /\ busy' = [busy EXCEPT ![c] = NoConn]
    <2>1. refused \in Nat
      BY DEF TypeInv, PoolInv
    <2> QED
      BY <1>1, <1>2, <2>1, PutBackPool DEF AcquireLock, TypeInv
  <1>4. CallInv'
    BY <1>3, OthersKeepTheirs, GotoIdle DEF AcquireLock, TypeInv, PCs, AtWork
  <1> QED
    BY <1>3, <1>4, RunnerSame, DbSame DEF TypeInv, AcquireLock

LEMMA EnsureTableTyped ==
  ASSUME TypeInv, NEW c \in Calls, EnsureTable(c)
  PROVE  TypeInv'
  <1>1. PoolInv' /\ busy' = [busy EXCEPT ![c] = NoConn]
    BY PutBackSame DEF EnsureTable, TypeInv
  <1>2. CallInv'
    BY <1>1, OthersKeepTheirs, GotoIdle DEF EnsureTable, TypeInv, PCs, AtWork
  <1> QED
    BY <1>1, <1>2, RunnerSame, DbSame DEF TypeInv, EnsureTable

LEMMA CheckLoadedTyped ==
  ASSUME TypeInv, NEW c \in Calls, CheckLoaded(c)
  PROVE  TypeInv'
  <1>1. CallInv'
    BY GotoIdle DEF CheckLoaded, TypeInv, PCs, AtWork, poolVars
  <1> QED
    BY <1>1, PoolSame, RunnerSame, DbSame DEF TypeInv, CheckLoaded

(* What a pass leaves is a number of copies of versions that have an up file. *)
LEMMA CopiesTyped ==
  ASSUME RunnerInv, NEW r \in Runners, NEW more \in SUBSET {v \in Versions : HasFile(r, v, "up")},
         copies' = [copies EXCEPT ![r] =
           [v \in Versions |-> IF v \in more THEN OneMore(copies[r][v]) ELSE copies[r][v]]],
         loaded' \in [Runners -> BOOLEAN]
  PROVE  RunnerInv'
  <1> DEFINE After == [v \in Versions |-> IF v \in more THEN OneMore(copies[r][v]) ELSE copies[r][v]]
  <1>1. \A n \in 0..MaxCopies : OneMore(n) \in 0..MaxCopies
    BY BoundAssumption DEF OneMore
  <1>2. copies[r] \in Todos
    BY DEF RunnerInv
  <1>3. After \in Todos
    BY <1>1, <1>2 DEF Todos
  <1>4. \A v \in Versions : After[v] > 0 => HasFile(r, v, "up")
    BY DEF RunnerInv
  <1>5. copies' \in [Runners -> Todos] /\ copies'[r] = After
        /\ \A s \in Runners \ {r} : copies'[s] = copies[s]
    BY <1>3 DEF RunnerInv
  <1>6. \A s \in Runners : \A v \in Versions : copies'[s][v] > 0 => HasFile(s, v, "up")
    BY <1>4, <1>5 DEF RunnerInv
  <1> HIDE DEF After
  <1> QED
    BY <1>5, <1>6 DEF RunnerInv, HasFile

LEMMA ReadFilesTyped ==
  ASSUME TypeInv, NEW c \in Calls, ReadFiles(c)
  PROVE  TypeInv'
  <1> DEFINE r == RunnerOf[c]
             Files == {v \in Versions : HasFile(r, v, "up")}
  <1>1. r \in Runners
    BY RunnerAssumption
  <1>2. loaded' \in [Runners -> BOOLEAN]
    BY <1>1 DEF ReadFiles, TypeInv, RunnerInv
  <1>3. PICK more \in SUBSET Files :
          copies' = [copies EXCEPT ![r] =
            [v \in Versions |-> IF v \in more THEN OneMore(copies[r][v]) ELSE copies[r][v]]]
    <2>1. CASE ~loaded[r]
      <3>1. copies' = [copies EXCEPT ![r] =
              [v \in Versions |-> IF v \in Files THEN OneMore(copies[r][v]) ELSE copies[r][v]]]
        BY <2>1 DEF ReadFiles
      <3> QED
        BY <3>1
    <2>2. CASE loaded[r]
      <3>1. PICK again \in SUBSET Versions :
              copies' = [copies EXCEPT ![r] =
                [v \in Versions |->
                  IF v \in again
                    THEN [w \in Versions |-> IF HasFile(r, w, "up") THEN OneMore(copies[r][w])
                                              ELSE copies[r][w]][v]
                    ELSE copies[r][v]]]
        BY <2>2 DEF ReadFiles
      <3>2. again \cap Files \in SUBSET Files
        OBVIOUS
      <3>3. [v \in Versions |->
              IF v \in again
                THEN [w \in Versions |-> IF HasFile(r, w, "up") THEN OneMore(copies[r][w])
                                          ELSE copies[r][w]][v]
                ELSE copies[r][v]]
            = [v \in Versions |->
                IF v \in again \cap Files THEN OneMore(copies[r][v]) ELSE copies[r][v]]
        OBVIOUS
      <3> QED
        BY <3>1, <3>2, <3>3
    <2> QED
      BY <2>1, <2>2
  <1>4. RunnerInv'
    <2> HIDE DEF r
    <2> QED
      BY <1>1, <1>2, <1>3, CopiesTyped DEF TypeInv
  <1>5. CallInv'
    BY GotoIdle DEF ReadFiles, TypeInv, PCs, AtWork, poolVars
  <1> QED
    BY <1>4, <1>5, PoolSame, DbSame DEF TypeInv, ReadFiles

LEMMA ReadFilesFailsTyped ==
  ASSUME TypeInv, NEW c \in Calls, ReadFilesFails(c)
  PROVE  TypeInv'
  <1> DEFINE r == RunnerOf[c]
             Before(stop) == {v \in Versions : \E i \in 1..(stop - 1) :
                                FilesOf[r][i].ver = v /\ FilesOf[r][i].dir = "up"}
  <1>1. r \in Runners
    BY RunnerAssumption
  <1>2. PICK stop \in DOMAIN FilesOf[r] :
          copies' = [copies EXCEPT ![r] =
            [v \in Versions |-> IF v \in Before(stop) THEN OneMore(copies[r][v]) ELSE copies[r][v]]]
    BY DEF ReadFilesFails
  <1>3. Before(stop) \in SUBSET {v \in Versions : HasFile(r, v, "up")}
    <2>1. FilesOf[r] \in Seq(FileRecords)
      BY <1>1, FilesAssumption
    <2>2. 1..(stop - 1) \subseteq DOMAIN FilesOf[r]
      BY <2>1
    <2> QED
      BY <2>2 DEF HasFile
  <1>4. loaded' \in [Runners -> BOOLEAN]
    BY DEF ReadFilesFails, TypeInv, RunnerInv
  <1>5. RunnerInv'
    <2> HIDE DEF r, Before
    <2> QED
      BY <1>1, <1>2, <1>3, <1>4, CopiesTyped DEF TypeInv
  <1>6. CallInv'
    BY LeaveCall DEF ReadFilesFails, TypeInv, poolVars
  <1> QED
    BY <1>5, <1>6, PoolSame, DbSame DEF TypeInv, ReadFilesFails

(* What a call sees of its Runner's migrations are versions that have files. *)
LEMMA SeenTyped ==
  ASSUME RunnerInv, NEW c \in Calls, NEW seen \in Seen(c)
  PROVE  /\ seen \in Todos
         /\ \A v \in Versions : seen[v] > 0 => HasFile(RunnerOf[c], v, "up")
  <1>1. RunnerOf[c] \in Runners /\ copies[RunnerOf[c]] \in Todos
    BY RunnerAssumption DEF RunnerInv
  <1>2. \A v \in Versions :
          copies[RunnerOf[c]][v] > 0 => HasFile(RunnerOf[c], v, "up")
    BY <1>1 DEF RunnerInv
  <1>3. CASE seen = copies[RunnerOf[c]]
    BY <1>1, <1>2, <1>3
  <1>4. CASE seen # copies[RunnerOf[c]]
    <2>1. PICK missed \in SUBSET Versions :
            seen = [v \in Versions |-> IF v \in missed THEN 0 ELSE copies[RunnerOf[c]][v]]
      BY <1>4 DEF Seen
    <2> QED
      BY <1>1, <1>2, <2>1, BoundAssumption DEF Todos
  <1> QED
    BY <1>3, <1>4

LEMMA QueryUpTyped ==
  ASSUME TypeInv, NEW c \in Calls, QueryUp(c)
  PROVE  TypeInv'
  <1>1. PoolInv' /\ busy' = [busy EXCEPT ![c] = NoConn]
    BY PutBackSame DEF QueryUp, TypeInv
  <1>2. PICK seen \in Seen(c) :
          /\ todo' = [todo EXCEPT ![c] =
               [v \in Versions |-> IF v \in Pending(seen) THEN seen[v] ELSE 0]]
          /\ Goto(c, IF Pending(seen) = {} THEN "unlock" ELSE "exec")
    BY DEF QueryUp
  <1> DEFINE work == [v \in Versions |-> IF v \in Pending(seen) THEN seen[v] ELSE 0]
             next == IF Pending(seen) = {} THEN "unlock" ELSE "exec"
  <1>3. work \in Todos /\ (\A v \in Versions : work[v] > 0 => HasFile(RunnerOf[c], v, "up"))
    BY SeenTyped, BoundAssumption DEF TypeInv, Todos
  <1>4. WorkOK(RunnerOf[c], next, "up", work)
    <2>1. CASE Pending(seen) = {}
      BY <1>3, <2>1 DEF WorkOK, AtWork, NoVersions
    <2>2. CASE Pending(seen) # {}
      <3>1. PICK v \in Versions : v \in Pending(seen) /\ seen[v] > 0
        BY <2>2 DEF Pending
      <3>2. work[v] > 0
        BY <3>1
      <3> QED
        BY <1>3, <2>2, <3>1, <3>2 DEF WorkOK, AtWork
    <2> QED
      BY <2>1, <2>2
  <1>5. next \in PCs /\ next # "commit" /\ "up" \in OpNames
    BY DEF PCs, OpNames
  <1>6. op' = [op EXCEPT ![c] = "up"]
    BY DEF QueryUp, TypeInv, CallInv
  <1>7. CallInv'
    <2> HIDE DEF work, next
    <2>1. \A d \in Calls \ {c} : busy'[d] = busy[d]
      BY <1>1, OthersKeepTheirs DEF TypeInv
    <2>2. todo' = [todo EXCEPT ![c] = work] /\ pc' = [pc EXCEPT ![c] = next]
      BY <1>2 DEF work, next, Goto
    <2> QED
      BY <1>3, <1>4, <1>5, <1>6, <2>1, <2>2, CallMoves DEF TypeInv
  <1> QED
    BY <1>1, <1>7, RunnerSame, DbSame DEF TypeInv, QueryUp

(* A statement whose connection goes back, after which the call leaves. *)
LEMMA LeaveTyped ==
  ASSUME TypeInv, NEW c \in Calls, busy[c] # NoConn, PutBack(c), Leave(c) \/ Return(c),
         UNCHANGED runnerVars, DbInv'
  PROVE  TypeInv'
  <1>1. PoolInv' /\ busy' = [busy EXCEPT ![c] = NoConn]
    BY PutBackSame DEF TypeInv
  <1>2. CallInv'
    BY <1>1, OthersKeepTheirs, LeaveCall DEF TypeInv
  <1> QED
    BY <1>1, <1>2, RunnerSame DEF TypeInv

LEMMA QueryPanicsTyped ==
  ASSUME TypeInv, NEW c \in Calls, QueryPanics(c)
  PROVE  TypeInv'
  BY LeaveTyped, DbSame DEF QueryPanics, TypeInv

LEMMA QueryStatusTyped ==
  ASSUME TypeInv, NEW c \in Calls, QueryStatus(c)
  PROVE  TypeInv'
  BY LeaveTyped, DbSame DEF QueryStatus, TypeInv

LEMMA QueryDownTyped ==
  ASSUME TypeInv, NEW c \in Calls, QueryDown(c)
  PROVE  TypeInv'
  <1>1. PoolInv' /\ busy' = [busy EXCEPT ![c] = NoConn]
    BY PutBackSame DEF QueryDown, TypeInv
  <1>2. \A d \in Calls \ {c} : busy'[d] = busy[d]
    BY <1>1, OthersKeepTheirs DEF TypeInv
  <1>3. PICK latest : latest = SelectLastInSeq(table, LAMBDA row : row.ok)
    OBVIOUS
  <1> DEFINE found == latest # 0 /\ HasFile(RunnerOf[c], table[latest].ver, "down")
  <1>4. CallInv'
    <2>1. CASE found
      <3> DEFINE work == [NoVersions EXCEPT ![table[latest].ver] = 1]
      <3>1. table[latest].ver \in Versions
        BY <1>3, <2>1, LatestRow DEF TypeInv
      <3>2. work \in Todos /\ work[table[latest].ver] > 0
        BY <3>1, BoundAssumption DEF NoVersions, Todos
      <3>3. op[c] = "down" /\ Goto(c, "exec") /\ todo' = [todo EXCEPT ![c] = work]
        BY <1>3, <2>1 DEF QueryDown
      <3>4. WorkOK(RunnerOf[c], "exec", "down", work)
        BY <3>1, <3>2 DEF WorkOK, AtWork
      <3>5. op' = [op EXCEPT ![c] = "down"] /\ "exec" \in PCs /\ "down" \in OpNames
        BY <3>3 DEF QueryDown, TypeInv, CallInv, PCs, OpNames
      <3> HIDE DEF work
      <3> QED
        BY <1>2, <3>2, <3>3, <3>4, <3>5, CallMoves DEF TypeInv, Goto
    <2>2. CASE ~found
      <3>1. Goto(c, "unlock") /\ UNCHANGED <<op, todo>>
        BY <1>3, <2>2 DEF QueryDown
      <3> QED
        BY <1>2, <3>1, GotoIdle DEF QueryDown, TypeInv, PCs, AtWork
    <2> QED
      BY <2>1, <2>2
  <1> QED
    BY <1>1, <1>4, RunnerSame, DbSame DEF TypeInv, QueryDown

LEMMA ExecTyped ==
  ASSUME TypeInv, NEW c \in Calls, Exec(c)
  PROVE  TypeInv'
  <1>1. WorkOK(RunnerOf[c], "commit", op[c], todo[c])
    BY DEF Exec, TypeInv, CallInv, WorkOK, AtWork
  <1>2. UNCHANGED busy /\ busy[c] # NoConn /\ "commit" \in PCs
    BY DEF Exec, poolVars, PCs
  <1>3. CallInv'
    BY <1>1, <1>2, GotoCall DEF Exec, TypeInv
  <1> QED
    BY <1>3, PoolSame, RunnerSame, DbSame DEF TypeInv, Exec

LEMMA NothingDeletedTyped ==
  ASSUME TypeInv, NEW c \in Calls, NothingDeleted(c)
  PROVE  TypeInv'
  BY LeaveTyped, DbSame DEF NothingDeleted, TypeInv

LEMMA ApplyTyped ==
  ASSUME DbInv, NEW v \in Versions, ApplyCommits(v)
  PROVE  DbInv'
  BY DEF DbInv, ApplyCommits

LEMMA RevertTyped ==
  ASSUME DbInv, NEW v \in Versions, RevertCommits(v)
  PROVE  DbInv'
  BY WithoutType DEF DbInv, RevertCommits

LEMMA RecordTyped ==
  ASSUME DbInv, NEW v \in Versions, NEW row \in Rows,
         table' = Append(RowsWithout(v), row), UNCHANGED schema
  PROVE  DbInv'
  BY WithoutType DEF DbInv

LEMMA CommitUpTyped ==
  ASSUME TypeInv, NEW c \in Calls, CommitUp(c)
  PROVE  TypeInv'
  <1>1. pc[c] \in AtWork /\ busy[c] # NoConn
    BY DEF CommitUp, AtWork, TypeInv, CallInv
  <1>2. PoolInv' /\ busy' = [busy EXCEPT ![c] = NoConn]
    BY <1>1, PutBackSame DEF CommitUp, TypeInv
  <1>3. WorkOK(RunnerOf[c], "recordOk", op[c], todo[c])
    BY <1>1 DEF CommitUp, TypeInv, CallInv, WorkOK, AtWork
  <1>4. CallInv'
    BY <1>2, <1>3, OthersKeepTheirs, GotoCall DEF CommitUp, TypeInv, PCs
  <1>5. DbInv'
    BY <1>1, TargetLeft, ApplyTyped DEF CommitUp, TypeInv
  <1> QED
    BY <1>2, <1>4, <1>5, RunnerSame DEF TypeInv, CommitUp

LEMMA CommitDownTyped ==
  ASSUME TypeInv, NEW c \in Calls, CommitDown(c)
  PROVE  TypeInv'
  <1>1. pc[c] \in AtWork /\ busy[c] # NoConn
    BY DEF CommitDown, AtWork, TypeInv, CallInv
  <1>2. DbInv'
    BY <1>1, TargetLeft, RevertTyped DEF CommitDown, TypeInv
  <1> QED
    BY <1>1, <1>2, LeaveTyped DEF CommitDown

(* One copy less of the version at work: what remains are still versions that *)
(* have files, and the call goes on exactly when something remains.           *)
LEMMA RecordOkTyped ==
  ASSUME TypeInv, NEW c \in Calls, RecordOk(c)
  PROVE  TypeInv'
  <1> DEFINE v == Target(c)
             left == [todo[c] EXCEPT ![v] = @ - 1]
             next == IF left = NoVersions THEN "unlock" ELSE "exec"
  <1>1. pc[c] \in AtWork /\ op[c] = "up" /\ todo[c] \in Todos
    BY DEF RecordOk, AtWork, TypeInv, CallInv, WorkOK
  <1>2. v \in Versions /\ todo[c][v] > 0
    BY <1>1, TargetLeft DEF TypeInv
  <1>3. PoolInv' /\ busy' = [busy EXCEPT ![c] = NoConn]
    BY PutBackSame DEF RecordOk, TypeInv
  <1>4. todo' = [todo EXCEPT ![c] = left] /\ Goto(c, next)
    BY DEF RecordOk
  <1> HIDE DEF v
  <1>5. left \in Todos
    BY <1>1, <1>2, BoundAssumption DEF Todos
  <1>6. \A w \in Versions : left[w] > 0 => HasFile(RunnerOf[c], w, "up")
    <2>1. \A w \in Versions : left[w] > 0 => todo[c][w] > 0
      BY <1>1, <1>2, BoundAssumption DEF Todos
    <2> QED
      BY <1>1, <2>1 DEF TypeInv, CallInv, WorkOK
  <1>7. WorkOK(RunnerOf[c], next, "up", left)
    <2>1. CASE left = NoVersions
      BY <1>6, <2>1 DEF WorkOK, AtWork
    <2>2. CASE left # NoVersions
      <3>1. \E w \in Versions : left[w] # 0
        BY <1>5, <2>2 DEF NoVersions, Todos
      <3>2. \E w \in Versions : left[w] > 0
        <4> HIDE DEF left
        <4>1. \A w \in Versions : left[w] \in 0..MaxCopies
          BY <1>5 DEF Todos
        <4> QED
          BY <3>1, <4>1, BoundAssumption
      <3> QED
        BY <1>6, <2>2, <3>2 DEF WorkOK, AtWork
    <2> QED
      BY <2>1, <2>2
  <1>8. op' = [op EXCEPT ![c] = "up"] /\ "up" \in OpNames /\ next \in PCs /\ next # "commit"
    BY <1>1 DEF RecordOk, TypeInv, CallInv, OpNames, PCs
  <1>9. CallInv'
    <2> HIDE DEF left, next
    <2>1. \A d \in Calls \ {c} : busy'[d] = busy[d]
      BY <1>3, OthersKeepTheirs DEF TypeInv
    <2> QED
      BY <1>4, <1>5, <1>7, <1>8, <2>1, CallMoves DEF TypeInv, Goto
  <1>10. DbInv'
    <2>1. NewRow(c, TRUE) \in Rows /\ Target(c) \in Versions
      BY <1>1, TargetLeft, NewRowType DEF RecordOk, TypeInv
    <2>2. table' = Append(RowsWithout(Target(c)), NewRow(c, TRUE)) /\ UNCHANGED schema
      BY DEF RecordOk
    <2> QED
      BY <2>1, <2>2, RecordTyped DEF TypeInv
  <1> QED
    BY <1>3, <1>9, <1>10, RunnerSame DEF TypeInv, RecordOk

LEMMA RecordFailTyped ==
  ASSUME TypeInv, NEW c \in Calls, RecordFail(c)
  PROVE  TypeInv'
  <1>1. pc[c] \in AtWork
    BY DEF RecordFail, AtWork
  <1>2. DbInv'
    BY <1>1, TargetLeft, NewRowType, RecordTyped DEF RecordFail, TypeInv
  <1> QED
    BY <1>2, LeaveTyped DEF RecordFail

LEMMA UnlockTyped ==
  ASSUME TypeInv, NEW c \in Calls, Unlock(c)
  PROVE  TypeInv'
  <1> DEFINE mine == holder = busy[c]
             last == mine /\ depth = 1
             h == IF last THEN NoConn ELSE holder
             d == IF mine THEN depth - 1 ELSE depth
             n == IF last THEN 0 ELSE refused
  <1>1. h \in Holders /\ d \in 0..MaxDepth /\ (h = NoConn <=> d = 0) /\ n \in Nat
    BY BoundAssumption DEF Unlock, TypeInv, PoolInv, Holders
  <1>2. PutBackWith(c, h, d, n) /\ busy[c] # NoConn
    BY DEF Unlock
  <1>3. PoolInv' /\ busy' = [busy EXCEPT ![c] = NoConn]
    <2> HIDE DEF h, d, n
    <2> QED
      BY <1>1, <1>2, PutBackPool DEF TypeInv
  <1>4. CallInv'
    BY <1>3, OthersKeepTheirs, LeaveCall DEF Unlock, TypeInv
  <1> QED
    BY <1>3, <1>4, RunnerSame, DbSame DEF TypeInv, Unlock

-----------------------------------------------------------------------------
(* The failures. *)

LEMMA MigrationFailsTyped ==
  ASSUME TypeInv, NEW c \in Calls, MigrationFails(c)
  PROVE  TypeInv'
  <1>1. pc[c] \in AtWork /\ busy[c] # NoConn
    BY DEF MigrationFails, AtWork, TypeInv, CallInv
  <1>2. CASE op[c] = "up" /\ Goto(c, RecordAfterFailure) /\ UNCHANGED <<op, todo>>
    <2>1. PoolInv' /\ busy' = [busy EXCEPT ![c] = NoConn]
      BY <1>1, PutBackSame DEF MigrationFails, TypeInv
    <2>2. WorkOK(RunnerOf[c], "recordFail", op[c], todo[c])
      BY <1>1, <1>2 DEF TypeInv, CallInv, WorkOK, AtWork
    <2>3. CallInv'
      BY <1>2, <2>1, <2>2, OthersKeepTheirs, GotoCall DEF TypeInv, PCs, RecordAfterFailure
    <2> QED
      BY <2>1, <2>3, RunnerSame, DbSame DEF TypeInv, MigrationFails
  <1>3. CASE Leave(c)
    BY <1>1, <1>3, LeaveTyped, DbSame DEF MigrationFails, TypeInv
  <1> QED
    BY <1>2, <1>3 DEF MigrationFails

LEMMA StatementFailsTyped ==
  ASSUME TypeInv, NEW c \in Calls, StatementFails(c)
  PROVE  TypeInv'
  BY LeaveTyped, DbSame DEF StatementFails, TypeInv

LEMMA UnlockFailsTyped ==
  ASSUME TypeInv, NEW c \in Calls, UnlockFails(c)
  PROVE  TypeInv'
  <1> DEFINE n == IF holder = busy[c] THEN refused + 1 ELSE refused
  <1>1. holder \in Holders /\ depth \in 0..MaxDepth /\ (holder = NoConn <=> depth = 0) /\ n \in Nat
    BY DEF TypeInv, PoolInv
  <1>2. PutBackWith(c, holder, depth, n) /\ busy[c] # NoConn
    BY DEF UnlockFails
  <1>3. PoolInv' /\ busy' = [busy EXCEPT ![c] = NoConn]
    <2> HIDE DEF n
    <2> QED
      BY <1>1, <1>2, PutBackPool DEF TypeInv
  <1>4. CallInv'
    BY <1>3, OthersKeepTheirs, LeaveCall DEF UnlockFails, TypeInv
  <1> QED
    BY <1>3, <1>4, RunnerSame, DbSame DEF TypeInv, UnlockFails

LEMMA UnknownEffectTyped ==
  ASSUME TypeInv, NEW c \in Calls, UnknownEffect(c)
  PROVE  DbInv'
  <1>1. CASE UNCHANGED dbVars
    BY <1>1, DbSame DEF TypeInv
  <1>2. CASE pc[c] = "commit" /\ op[c] = "up" /\ ApplyCommits(Target(c))
    BY <1>2, TargetLeft, ApplyTyped DEF TypeInv, AtWork
  <1>3. CASE pc[c] = "commit" /\ op[c] = "down" /\ RevertCommits(Target(c))
    BY <1>3, TargetLeft, RevertTyped DEF TypeInv, AtWork
  <1>4. CASE /\ pc[c] \in {"recordOk", "recordFail"}
             /\ table' = Append(RowsWithout(Target(c)), NewRow(c, pc[c] = "recordOk"))
             /\ UNCHANGED schema
    <2>1. Target(c) \in Versions
      BY <1>4, TargetLeft DEF TypeInv, AtWork
    <2>2. NewRow(c, pc[c] = "recordOk") \in Rows
      <3>1. (pc[c] = "recordOk") \in BOOLEAN
        OBVIOUS
      <3> QED
        BY <1>4, <3>1, NewRowType DEF TypeInv
    <2> QED
      BY <1>4, <2>1, <2>2, RecordTyped DEF TypeInv
  <1> QED
    BY <1>1, <1>2, <1>3, <1>4 DEF UnknownEffect

LEMMA TimeoutTyped ==
  ASSUME TypeInv, NEW c \in Calls, Timeout(c)
  PROVE  TypeInv'
  <1>1. PoolInv' /\ (\A d \in Calls \ {c} : busy'[d] = busy[d]) /\ DbInv'
    <2>1. CASE busy[c] = NoConn
      BY <2>1, PoolSame, DbSame DEF Timeout, TypeInv, poolVars
    <2>2. CASE busy[c] # NoConn
      BY <2>2, DiscardPool, OthersKeepTheirs, UnknownEffectTyped DEF Timeout, TypeInv
    <2> QED
      BY <2>1, <2>2
  <1>2. CallInv'
    BY <1>1, LeaveCall DEF Timeout, TypeInv
  <1> QED
    BY <1>1, <1>2, RunnerSame DEF Timeout, TypeInv

LEMMA BusyDroppedTyped ==
  ASSUME TypeInv, NEW c \in Calls, BusyDropped(c)
  PROVE  TypeInv'
  <1>1. PoolInv' /\ (\A d \in Calls \ {c} : busy'[d] = busy[d]) /\ DbInv'
    BY DiscardPool, OthersKeepTheirs, UnknownEffectTyped DEF BusyDropped, TypeInv
  <1>2. CASE op[c] = "up" /\ pc[c] \in {"exec", "commit"} /\ Goto(c, "recordFail")
             /\ UNCHANGED <<op, todo>>
    <2>1. WorkOK(RunnerOf[c], "recordFail", op[c], todo[c])
      BY <1>2 DEF TypeInv, CallInv, WorkOK, AtWork
    <2> QED
      BY <1>1, <1>2, <2>1, GotoCall, RunnerSame DEF BusyDropped, TypeInv, PCs
  <1>3. CASE Leave(c) \/ Return(c)
    BY <1>1, <1>3, LeaveCall, RunnerSame DEF BusyDropped, TypeInv
  <1> QED
    BY <1>2, <1>3 DEF BusyDropped

LEMMA IdleDroppedTyped ==
  ASSUME TypeInv, NEW r \in Runners, IdleDropped(r)
  PROVE  TypeInv'
  <1>1. PICK i \in DOMAIN idle[r] :
          idle' = [idle EXCEPT ![r] = RemoveAt(@, i)] /\ EndSessions({idle[r][i]})
    BY DEF IdleDropped
  <1>2. RemoveAt(idle[r], i) \in Seq(Conns)
    BY RemoveAtType DEF TypeInv, PoolInv
  <1>3. PoolInv'
    BY <1>1, <1>2, BoundAssumption DEF IdleDropped, TypeInv, PoolInv, EndSessions, Holders
  <1>4. CallInv'
    BY DEF IdleDropped, TypeInv, CallInv, callVars, WorkOK, HasFile
  <1> QED
    BY <1>3, <1>4, RunnerSame, DbSame DEF IdleDropped, TypeInv

LEMMA RestartTyped ==
  ASSUME TypeInv, NEW r \in Runners, Restart(r)
  PROVE  TypeInv'
  <1>1. WorkOK(r, "idle", "none", NoVersions)
    BY NothingLeft DEF WorkOK, AtWork
  <1>2. "idle" \in PCs /\ "none" \in OpNames
    BY DEF PCs, OpNames
  <1>3. CallInv'
    BY <1>1, <1>2, NothingLeft DEF Restart, TypeInv, CallInv, WorkOK, HasFile
  <1>4. PoolInv'
    BY BoundAssumption DEF Restart, TypeInv, PoolInv, EndSessions, Holders
  <1>5. RunnerInv'
    BY NothingLeft DEF Restart, TypeInv, RunnerInv, HasFile
  <1> QED
    BY <1>3, <1>4, <1>5, DbSame DEF Restart, TypeInv

-----------------------------------------------------------------------------
LEMMA AnswerTyped ==
  ASSUME TypeInv, NEW c \in Calls, Answer(c)
  PROVE  TypeInv'
  BY EnsureTableTyped, CheckLoadedTyped, ReadFilesTyped, ReadFilesFailsTyped, QueryUpTyped,
     QueryPanicsTyped, QueryStatusTyped, QueryDownTyped, ExecTyped, NothingDeletedTyped,
     CommitUpTyped, CommitDownTyped, RecordOkTyped, RecordFailTyped, UnlockTyped
  DEF Answer

LEMMA StepTyped == TypeInv /\ [Next]_vars => TypeInv'
  <1> SUFFICES ASSUME TypeInv, [Next]_vars PROVE TypeInv'
    OBVIOUS
  <1>1. ASSUME NEW c \in Calls, CallStep(c) PROVE TypeInv'
    BY <1>1, StartTyped, TakeTyped, AcquireLockTyped, AnswerTyped, MigrationFailsTyped,
       StatementFailsTyped, UnlockFailsTyped, TimeoutTyped, BusyDroppedTyped
    DEF CallStep, Failure
  <1>2. ASSUME NEW r \in Runners, RunnerStep(r) PROVE TypeInv'
    BY <1>2, IdleDroppedTyped, RestartTyped DEF RunnerStep, Crash, Close
  <1>3. CASE UNCHANGED vars
    <2>1. UNCHANGED <<callVars, poolVars, runnerVars, dbVars>>
      BY <1>3 DEF vars
    <2>2. CallInv'
      BY <2>1 DEF TypeInv, CallInv, callVars, poolVars, WorkOK, HasFile
    <2> QED
      BY <2>1, <2>2, PoolSame, RunnerSame, DbSame DEF TypeInv
  <1> QED
    BY <1>1, <1>2, <1>3 DEF Next

(* Every variable of the runners keeps its type, whatever fails and whoever   *)
(* restarts: a row's checksum is that of a file Up has, the version at work   *)
(* exists, and an unlock never takes a depth below zero.                      *)
THEOREM MigratorTyped == Spec => []TypeOK
  <1>1. TypeInv => TypeOK
    BY DEF TypeInv, CallInv, PoolInv, RunnerInv, DbInv, TypeOK, Todos, OpNames, Holders
  <1> QED
    BY <1>1, InitTyped, StepTyped, PTL DEF Spec
-----------------------------------------------------------------------------
(* How the migrator binary uses a Runner: one call at a time per process.  *)
OneCallPerRunner == \A c, d \in Calls : RunnerOf[c] = RunnerOf[d] => c = d

(* A pool replaces an idle connection that broke without telling anyone,   *)
(* and the lock is gone with it.                                           *)
IdleConnectionsLast == "drop" \notin Faults

-----------------------------------------------------------------------------
(* The invariant behind MutualExclusion: with one call per process the     *)
(* pool never opens a second connection, so the session that took the lock *)
(* is the one every later statement of the call uses.                      *)

PoolTypeOK ==
  /\ pc \in [Calls -> PCs]
  /\ op \in [Calls -> {"none", "up", "down", "status"}]
  /\ busy \in [Calls -> Conns \cup {NoConn}]
  /\ idle \in [Runners -> Seq(Conns)]
  /\ holder \in Conns \cup {NoConn}

OneConnection ==
  /\ \A c \in Calls : busy[c] # NoConn =>
       PoolOf[busy[c]] = RunnerOf[c] /\ idle[RunnerOf[c]] = <<>>
  /\ \A r \in Runners :
       idle[r] # <<>> => \E k \in Conns : PoolOf[k] = r /\ idle[r] = <<k>>

LockIsOurs(c) ==
  /\ holder # NoConn
  /\ busy[c] = holder \/ (busy[c] = NoConn /\ idle[RunnerOf[c]] = <<holder>>)

LockInv ==
  /\ PoolTypeOK
  /\ OneConnection
  /\ \A c \in Calls : pc[c] = "commit" => busy[c] # NoConn
  /\ \A c \in Calls : InLockedRegion(c) => LockIsOurs(c)

LEMMA LockInvInit == Init => LockInv
  <1> SUFFICES ASSUME Init PROVE LockInv
    OBVIOUS
  <1>1. PoolTypeOK
    BY EmptySeq DEF Init, PoolTypeOK, PCs
  <1>2. OneConnection
    BY RunnerAssumption DEF Init, OneConnection
  <1>3. \A c \in Calls : ~InLockedRegion(c) /\ pc[c] # "commit"
    BY DEF Init, InLockedRegion
  <1> QED
    BY <1>1, <1>2, <1>3 DEF LockInv

LEMMA HolderInPool ==
  ASSUME LockInv, NEW c \in Calls, InLockedRegion(c)
  PROVE  PoolOf[holder] = RunnerOf[c]
  <1>1. LockIsOurs(c) /\ RunnerOf[c] \in Runners
    BY RunnerAssumption DEF LockInv
  <1>2. CASE busy[c] = holder
    BY <1>1, <1>2 DEF LockInv, OneConnection, LockIsOurs
  <1>3. CASE idle[RunnerOf[c]] = <<holder>>
    <2>1. PICK k \in Conns : PoolOf[k] = RunnerOf[c] /\ idle[RunnerOf[c]] = <<k>>
      BY <1>1, <1>3 DEF LockInv, OneConnection
    <2> QED
      BY <1>3, <2>1
  <1> QED
    BY <1>1, <1>2, <1>3 DEF LockIsOurs

LEMMA LockInvExcludes == LockInv => MutualExclusion
  BY HolderInPool DEF MutualExclusion

(* The three ways a step of a call treats its connection, each with the    *)
(* call staying in the locked region or leaving it.                        *)
Moves(c) ==
  /\ pc' \in [Calls -> PCs]
  /\ op' \in [Calls -> {"none", "up", "down", "status"}]
  /\ \A d \in Calls \ {c} : pc'[d] = pc[d] /\ op'[d] = op[d]

LEMMA PutBackResult ==
  ASSUME LockInv, NEW c \in Calls, busy[c] # NoConn,
         NEW h, NEW d, NEW n, PutBackWith(c, h, d, n)
  PROVE  /\ busy' = [busy EXCEPT ![c] = NoConn]
         /\ idle' = [idle EXCEPT ![RunnerOf[c]] = <<busy[c]>>]
         /\ holder' = h
  <1>1. idle[RunnerOf[c]] = <<>> /\ RunnerOf[c] \in Runners
    BY RunnerAssumption DEF LockInv, OneConnection
  <1>2. Len(idle[RunnerOf[c]]) < MaxIdle /\ Append(idle[RunnerOf[c]], busy[c]) = <<busy[c]>>
    BY <1>1, BoundAssumption
  <1>3. idle \in [Runners -> Seq(Conns)]
    BY DEF LockInv, PoolTypeOK
  <1> QED
    BY <1>1, <1>2, <1>3 DEF PutBackWith

LEMMA PutsBack ==
  ASSUME OneCallPerRunner, LockInv, NEW c \in Calls, busy[c] # NoConn,
         NEW h \in Conns \cup {NoConn}, NEW d, NEW n, PutBackWith(c, h, d, n),
         Moves(c), pc'[c] # "commit",
         \A e \in Calls \ {c} : InLockedRegion(e) => h = holder,
         InLockedRegion(c)' => h = busy[c] \/ (InLockedRegion(c) /\ h = holder)
  PROVE  LockInv'
  <1>1. /\ busy' = [busy EXCEPT ![c] = NoConn]
        /\ idle' = [idle EXCEPT ![RunnerOf[c]] = <<busy[c]>>]
        /\ holder' = h
    BY PutBackResult
  <1>2. /\ RunnerOf \in [Calls -> Runners]
        /\ busy[c] \in Conns
        /\ PoolOf[busy[c]] = RunnerOf[c]
    BY RunnerAssumption DEF LockInv, OneConnection, PoolTypeOK
  <1>3. PoolTypeOK'
    <2>1. <<busy[c]>> \in Seq(Conns)
      BY <1>2
    <2>2. busy' \in [Calls -> Conns \cup {NoConn}] /\ idle' \in [Runners -> Seq(Conns)]
      BY <1>1, <1>2, <2>1 DEF LockInv, PoolTypeOK
    <2> QED
      BY <1>1, <2>2 DEF LockInv, PoolTypeOK, Moves
  <1>4. \A e \in Calls \ {c} :
          busy'[e] = busy[e] /\ idle'[RunnerOf[e]] = idle[RunnerOf[e]]
    BY <1>1, <1>2 DEF OneCallPerRunner, LockInv, PoolTypeOK
  <1>5. busy'[c] = NoConn /\ idle'[RunnerOf[c]] = <<busy[c]>>
    BY <1>1, <1>2 DEF LockInv, PoolTypeOK
  <1>6. OneConnection'
    BY <1>1, <1>2, <1>4, <1>5 DEF LockInv, OneConnection, PoolTypeOK
  <1>7. ASSUME NEW e \in Calls, InLockedRegion(e)'
        PROVE  LockIsOurs(e)'
    <2>1. CASE e = c
      <3>1. h = busy[c]
        <4>1. CASE InLockedRegion(c) /\ h = holder
          <5>1. busy[c] = holder
            BY <4>1 DEF LockInv, LockIsOurs
          <5> QED
            BY <4>1, <5>1
        <4> QED
          BY <1>7, <2>1, <4>1
      <3> QED
        BY <1>1, <1>2, <1>5, <2>1, <3>1, PoolAssumption DEF LockIsOurs
    <2>2. CASE e # c
      <3>1. InLockedRegion(e)
        BY <1>7, <2>2 DEF InLockedRegion, Moves
      <3> QED
        BY <1>1, <1>4, <2>2, <3>1 DEF LockInv, LockIsOurs
    <2> QED
      BY <2>1, <2>2
  <1>8. \A e \in Calls : pc'[e] = "commit" => busy'[e] # NoConn
    BY <1>4 DEF LockInv, Moves
  <1> QED
    BY <1>3, <1>6, <1>7, <1>8 DEF LockInv

LEMMA KeepsConnection ==
  ASSUME LockInv, NEW c \in Calls, UNCHANGED poolVars,
         Moves(c), pc'[c] = "commit" => busy[c] # NoConn,
         InLockedRegion(c)' => InLockedRegion(c)
  PROVE  LockInv'
  <1>1. \A e \in Calls : InLockedRegion(e)' => InLockedRegion(e)
    BY DEF Moves, InLockedRegion
  <1> QED
    BY <1>1 DEF LockInv, PoolTypeOK, OneConnection, LockIsOurs, Moves, poolVars

(* The session of one call's statement is not the one another call locked with. *)
LEMMA OthersLockElsewhere ==
  ASSUME OneCallPerRunner, LockInv, NEW c \in Calls, busy[c] # NoConn,
         NEW e \in Calls \ {c}, InLockedRegion(e)
  PROVE  holder # busy[c]
  <1>1. PoolOf[holder] = RunnerOf[e]
    BY HolderInPool
  <1>2. PoolOf[busy[c]] = RunnerOf[c]
    BY DEF LockInv, OneConnection
  <1> QED
    BY <1>1, <1>2 DEF OneCallPerRunner

LEMMA Discards ==
  ASSUME OneCallPerRunner, LockInv, NEW c \in Calls, busy[c] # NoConn, Discard(c),
         Moves(c), pc'[c] # "commit", ~InLockedRegion(c)'
  PROVE  LockInv'
  <1>1. /\ busy' = [busy EXCEPT ![c] = NoConn]
        /\ idle' = idle
        /\ holder' = IF holder = busy[c] THEN NoConn ELSE holder
    BY DEF Discard, EndSessions
  <1>2. PoolTypeOK' /\ OneConnection'
    BY <1>1 DEF LockInv, PoolTypeOK, OneConnection, Moves
  <1>3. \A e \in Calls \ {c} : busy'[e] = busy[e]
    BY <1>1 DEF LockInv, PoolTypeOK
  <1>4. \A e \in Calls : pc'[e] = "commit" => busy'[e] # NoConn
    BY <1>3 DEF LockInv, Moves
  <1>5. ASSUME NEW e \in Calls, InLockedRegion(e)'
        PROVE  LockIsOurs(e)'
    <2>1. e # c /\ InLockedRegion(e)
      BY <1>5 DEF InLockedRegion, Moves
    <2>2. holder # busy[c]
      BY <2>1, OthersLockElsewhere
    <2> QED
      BY <1>1, <1>3, <2>1, <2>2 DEF LockIsOurs, LockInv
  <1> QED
    BY <1>2, <1>4, <1>5 DEF LockInv

(* Where Leave and Return take a call is outside the locked region. *)
LEMMA LeaveMoves ==
  ASSUME LockInv, NEW c \in Calls, Leave(c) \/ Return(c)
  PROVE  Moves(c) /\ pc'[c] # "commit" /\ ~InLockedRegion(c)'
  BY DEF LockInv, PoolTypeOK, Leave, Return, Goto, Moves, InLockedRegion, PCs

LEMMA GotoMoves ==
  ASSUME LockInv, NEW c \in Calls, NEW l \in PCs, Goto(c, l), UNCHANGED op
  PROVE  Moves(c) /\ pc'[c] = l /\ op'[c] = op[c]
  BY DEF LockInv, PoolTypeOK, Goto, Moves

(* A statement that neither takes nor releases the lock. *)
LEMMA AnswerKeeps ==
  ASSUME OneCallPerRunner, LockInv, NEW c \in Calls, busy[c] # NoConn, PutBack(c),
         Moves(c), pc'[c] # "commit", InLockedRegion(c)' => InLockedRegion(c)
  PROVE  LockInv'
  <1>1. holder \in Conns \cup {NoConn}
    BY DEF LockInv, PoolTypeOK
  <1> QED
    BY <1>1, PutsBack DEF PutBack

LEMMA AnswerStep ==
  ASSUME OneCallPerRunner, LockInv, NEW c \in Calls, Answer(c)
  PROVE  LockInv'
  <1>1. CASE EnsureTable(c)
    BY <1>1, GotoMoves, AnswerKeeps DEF EnsureTable, PCs, InLockedRegion
  <1>2. CASE CheckLoaded(c)
    BY <1>2, GotoMoves, KeepsConnection DEF CheckLoaded, PCs, InLockedRegion
  <1>3. CASE ReadFiles(c)
    BY <1>3, GotoMoves, KeepsConnection DEF ReadFiles, PCs, InLockedRegion
  <1>4. CASE ReadFilesFails(c)
    BY <1>4, LeaveMoves, KeepsConnection DEF ReadFilesFails
  <1>5. CASE QueryUp(c)
    <2>1. PICK l \in {"unlock", "exec"} : Goto(c, l)
      BY <1>5 DEF QueryUp
    <2> QED
      BY <1>5, <2>1, GotoMoves, AnswerKeeps DEF QueryUp, PCs, InLockedRegion
  <1>6. CASE QueryPanics(c)
    BY <1>6, LeaveMoves, AnswerKeeps DEF QueryPanics
  <1>7. CASE QueryStatus(c)
    BY <1>7, LeaveMoves, AnswerKeeps DEF QueryStatus
  <1>8. CASE QueryDown(c)
    <2>1. PICK l \in {"unlock", "exec"} : Goto(c, l)
      BY <1>8 DEF QueryDown
    <2> QED
      BY <1>8, <2>1, GotoMoves, AnswerKeeps DEF QueryDown, PCs, InLockedRegion
  <1>9. CASE Exec(c)
    BY <1>9, GotoMoves, KeepsConnection DEF Exec, PCs, InLockedRegion
  <1>10. CASE NothingDeleted(c)
    BY <1>10, LeaveMoves, AnswerKeeps DEF NothingDeleted
  <1>11. CASE CommitUp(c)
    <2>1. busy[c] # NoConn
      BY <1>11 DEF CommitUp, LockInv
    <2> QED
      BY <1>11, <2>1, GotoMoves, AnswerKeeps DEF CommitUp, PCs, InLockedRegion
  <1>12. CASE CommitDown(c)
    <2>1. busy[c] # NoConn
      BY <1>12 DEF CommitDown, LockInv
    <2> QED
      BY <1>12, <2>1, LeaveMoves, AnswerKeeps DEF CommitDown
  <1>13. CASE RecordOk(c)
    <2>1. PICK l \in {"unlock", "exec"} : Goto(c, l)
      BY <1>13 DEF RecordOk
    <2> QED
      BY <1>13, <2>1, GotoMoves, AnswerKeeps DEF RecordOk, PCs, InLockedRegion
  <1>14. CASE RecordFail(c)
    BY <1>14, LeaveMoves, AnswerKeeps DEF RecordFail
  <1>15. CASE Unlock(c)
    <2>1. Moves(c) /\ pc'[c] # "commit" /\ ~InLockedRegion(c)'
      BY <1>15, LeaveMoves DEF Unlock
    <2> DEFINE last == holder = busy[c] /\ depth = 1
               h == IF last THEN NoConn ELSE holder
               d == IF holder = busy[c] THEN depth - 1 ELSE depth
               n == IF last THEN 0 ELSE refused
    <2>2. PutBackWith(c, h, d, n) /\ busy[c] # NoConn
      BY <1>15 DEF Unlock
    <2>3. h \in Conns \cup {NoConn}
      BY DEF LockInv, PoolTypeOK
    <2>4. ASSUME NEW e \in Calls \ {c}, InLockedRegion(e) PROVE h = holder
      BY <2>2, <2>4, OthersLockElsewhere
    <2> HIDE DEF h, d, n
    <2> QED
      BY <2>1, <2>2, <2>3, <2>4, PutsBack
  <1> QED
    BY <1>1, <1>2, <1>3, <1>4, <1>5, <1>6, <1>7, <1>8, <1>9, <1>10, <1>11, <1>12,
       <1>13, <1>14, <1>15 DEF Answer

LEMMA StartStep ==
  ASSUME LockInv, NEW c \in Calls, NEW o \in Ops, Start(c, o)
  PROVE  LockInv'
  <1>1. pc' = [pc EXCEPT ![c] = FirstStatement(o)] /\ op' = [op EXCEPT ![c] = o]
    BY DEF Start, Goto
  <1>2. FirstStatement(o) \in {"ensure", "lock"} /\ (o = "status" \/ FirstStatement(o) = "lock")
    BY DEF FirstStatement
  <1>3. o \in {"up", "down", "status"}
    BY ChoiceAssumption
  <1>4. Moves(c) /\ pc'[c] # "commit" /\ ~InLockedRegion(c)'
    BY <1>1, <1>2, <1>3 DEF LockInv, PoolTypeOK, Moves, PCs, InLockedRegion
  <1> QED
    BY <1>4, KeepsConnection DEF Start

LEMMA TakeStep ==
  ASSUME OneCallPerRunner, LockInv, NEW c \in Calls, Take(c)
  PROVE  LockInv'
  <1> DEFINE r == RunnerOf[c]
  <1>1. /\ r \in Runners
        /\ busy[c] = NoConn
        /\ UNCHANGED <<pc, op, holder>>
    BY RunnerAssumption DEF Take, callVars
  <1>2. PICK k \in Conns :
          /\ PoolOf[k] = r
          /\ busy' = [busy EXCEPT ![c] = k]
          /\ idle' = [idle EXCEPT ![r] = <<>>]
          /\ idle[r] = <<>> \/ idle[r] = <<k>>
    <2>1. CASE idle[r] # <<>>
      <3>1. PICK k \in Conns : PoolOf[k] = r /\ idle[r] = <<k>>
        BY <1>1, <2>1 DEF LockInv, OneConnection
      <3>2. Last(idle[r]) = k /\ Front(idle[r]) = <<>>
        BY <3>1 DEF Last, Front
      <3> QED
        BY <2>1, <3>1, <3>2 DEF Take
    <2>2. CASE idle[r] = <<>>
      <3>1. PICK k \in Conns : PoolOf[k] = r /\ busy' = [busy EXCEPT ![c] = k]
        BY <2>2 DEF Take
      <3>2. idle' = [idle EXCEPT ![r] = <<>>]
        BY <1>1, <2>2 DEF Take, LockInv, PoolTypeOK
      <3> QED
        BY <2>2, <3>1, <3>2
    <2> QED
      BY <2>1, <2>2
  <1>3. PoolTypeOK'
    <2>1. <<>> \in Seq(Conns)
      OBVIOUS
    <2> QED
      BY <1>1, <1>2, <2>1 DEF LockInv, PoolTypeOK
  <1>4. \A e \in Calls \ {c} :
          busy'[e] = busy[e] /\ idle'[RunnerOf[e]] = idle[RunnerOf[e]]
    BY <1>1, <1>2 DEF OneCallPerRunner, LockInv, PoolTypeOK
  <1>5. busy'[c] = k /\ idle'[r] = <<>>
    BY <1>1, <1>2 DEF LockInv, PoolTypeOK
  <1>6. OneConnection'
    BY <1>1, <1>2, <1>4, <1>5 DEF LockInv, OneConnection, PoolTypeOK
  <1>7. ASSUME NEW e \in Calls, InLockedRegion(e)'
        PROVE  LockIsOurs(e)'
    <2>1. InLockedRegion(e) /\ LockIsOurs(e)
      BY <1>1, <1>7 DEF InLockedRegion, LockInv
    <2>2. CASE e = c
      <3>1. idle[r] = <<holder>> /\ holder # NoConn
        BY <1>1, <2>1, <2>2 DEF LockIsOurs
      <3>2. holder = k
        <4>1. <<holder>> = <<k>> /\ Len(<<holder>>) = 1 /\ Len(<<>>) = 0
          BY <1>2, <3>1
        <4> QED
          BY <4>1
      <3> QED
        BY <1>1, <1>5, <2>2, <3>1, <3>2 DEF LockIsOurs
    <2>3. CASE e # c
      BY <1>1, <1>4, <2>1, <2>3 DEF LockIsOurs
    <2> QED
      BY <2>2, <2>3
  <1>8. \A e \in Calls : pc'[e] = "commit" => busy'[e] # NoConn
    BY <1>1, <1>4 DEF LockInv, Take, Statements
  <1> QED
    BY <1>3, <1>6, <1>7, <1>8 DEF LockInv

LEMMA AcquireStep ==
  ASSUME OneCallPerRunner, LockInv, NEW c \in Calls, AcquireLock(c)
  PROVE  LockInv'
  <1>1. /\ busy[c] \in Conns
        /\ busy[c] # NoConn
        /\ PutBackWith(c, busy[c], depth + 1, refused)
        /\ holder \in {NoConn, busy[c]}
    BY DEF AcquireLock, LockInv, PoolTypeOK
  <1>2. Moves(c) /\ pc'[c] # "commit"
    BY GotoMoves DEF AcquireLock, PCs
  <1>3. \A e \in Calls \ {c} : InLockedRegion(e) => busy[c] = holder
    BY <1>1 DEF LockInv, LockIsOurs
  <1> QED
    BY <1>1, <1>2, <1>3, PutsBack

LEMMA FailureStep ==
  ASSUME OneCallPerRunner, IdleConnectionsLast, LockInv, NEW c \in Calls, Failure(c)
  PROVE  LockInv'
  <1>1. CASE MigrationFails(c)
    <2>1. busy[c] # NoConn /\ PutBack(c)
      BY <1>1 DEF MigrationFails, LockInv
    <2>2. CASE op[c] = "up" /\ Goto(c, RecordAfterFailure) /\ UNCHANGED op
      BY <1>1, <2>1, <2>2, GotoMoves, AnswerKeeps
         DEF MigrationFails, RecordAfterFailure, PCs, InLockedRegion
    <2>3. CASE Leave(c)
      BY <2>1, <2>3, LeaveMoves, AnswerKeeps
    <2> QED
      BY <1>1, <2>2, <2>3 DEF MigrationFails
  <1>2. CASE StatementFails(c)
    BY <1>2, LeaveMoves, AnswerKeeps DEF StatementFails
  <1>5. CASE UnlockFails(c)
    <2>1. Moves(c) /\ pc'[c] # "commit" /\ ~InLockedRegion(c)'
      BY <1>5, LeaveMoves DEF UnlockFails
    <2>2. /\ busy[c] # NoConn
          /\ PutBackWith(c, holder, depth, IF holder = busy[c] THEN refused + 1 ELSE refused)
      BY <1>5 DEF UnlockFails
    <2>3. holder \in Conns \cup {NoConn}
      BY DEF LockInv, PoolTypeOK
    <2> QED
      BY <2>1, <2>2, <2>3, PutsBack
  <1>3. CASE Timeout(c)
    <2>1. Leave(c) \/ Return(c)
      BY <1>3 DEF Timeout
    <2>2. CASE busy[c] = NoConn
      BY <1>3, <2>1, <2>2, LeaveMoves, KeepsConnection DEF Timeout
    <2>3. CASE busy[c] # NoConn
      BY <1>3, <2>1, <2>3, LeaveMoves, Discards DEF Timeout
    <2> QED
      BY <2>2, <2>3
  <1>4. ~BusyDropped(c)
    BY DEF BusyDropped, IdleConnectionsLast
  <1> QED
    BY <1>1, <1>2, <1>3, <1>4, <1>5 DEF Failure

LEMMA RestartStep ==
  ASSUME LockInv, NEW r \in Runners, Restart(r)
  PROVE  LockInv'
  <1>1. /\ \A c \in Calls : RunnerOf[c] = r =>
               pc'[c] = "idle" /\ busy'[c] = NoConn
        /\ \A c \in Calls : RunnerOf[c] # r =>
               pc'[c] = pc[c] /\ op'[c] = op[c] /\ busy'[c] = busy[c]
        /\ idle' = [idle EXCEPT ![r] = <<>>]
        /\ holder' = IF holder \in {k \in Conns : PoolOf[k] = r} THEN NoConn ELSE holder
    BY DEF Restart, EndSessions
  <1>2. PoolTypeOK'
    <2>1. <<>> \in Seq(Conns)
      OBVIOUS
    <2> QED
      BY <2>1 DEF Restart, EndSessions, LockInv, PoolTypeOK, PCs
  <1>3. OneConnection'
    BY <1>1, RunnerAssumption DEF LockInv, OneConnection, PoolTypeOK
  <1>4. ASSUME NEW c \in Calls, InLockedRegion(c)'
        PROVE  LockIsOurs(c)'
    <2>1. RunnerOf[c] # r /\ InLockedRegion(c)
      BY <1>1, <1>4 DEF InLockedRegion
    <2>2. PoolOf[holder] # r
      BY <2>1, HolderInPool
    <2> QED
      BY <1>1, <2>1, <2>2, RunnerAssumption DEF LockInv, LockIsOurs, PoolTypeOK
  <1>5. \A c \in Calls : pc'[c] = "commit" => busy'[c] # NoConn
    BY <1>1 DEF LockInv
  <1> QED
    BY <1>2, <1>3, <1>4, <1>5 DEF LockInv

LEMMA LockInvStep == OneCallPerRunner /\ IdleConnectionsLast /\ LockInv /\ [Next]_vars => LockInv'
  <1> SUFFICES ASSUME OneCallPerRunner, IdleConnectionsLast, LockInv, [Next]_vars
               PROVE  LockInv'
    OBVIOUS
  <1>1. ASSUME NEW c \in Calls, CallStep(c) PROVE LockInv'
    BY <1>1, StartStep, TakeStep, AcquireStep, AnswerStep, FailureStep DEF CallStep
  <1>2. ASSUME NEW r \in Runners, RunnerStep(r) PROVE LockInv'
    <2>1. ~IdleDropped(r)
      BY DEF IdleDropped, IdleConnectionsLast
    <2> QED
      BY <1>2, <2>1, RestartStep DEF RunnerStep, Crash, Close
  <1>3. CASE UNCHANGED vars
    BY <1>3 DEF vars, callVars, poolVars, LockInv, PoolTypeOK, OneConnection, LockIsOurs,
                InLockedRegion
  <1> QED
    BY <1>1, <1>2, <1>3 DEF Next

(* Mutual exclusion of the locked regions of all processes, for any number *)
(* of them and any mix of failed statements, timeouts, panics and crashes, *)
(* when a process has one call at a time and its idle connections last.    *)
THEOREM Excludes ==
  ASSUME OneCallPerRunner, IdleConnectionsLast
  PROVE  Spec => []MutualExclusion
  <1>1. Init => LockInv
    BY LockInvInit
  <1>2. LockInv /\ [Next]_vars => LockInv'
    BY LockInvStep
  <1>3. LockInv => MutualExclusion
    BY LockInvExcludes
  <1> QED
    BY <1>1, <1>2, <1>3, PTL DEF Spec

-----------------------------------------------------------------------------
(* The other half: whoever fails or closes what, a session keeps the lock   *)
(* only as often as the server refused to unlock it.  One call per process *)
(* is enough here: an idle connection that breaks takes the lock with it.  *)

AfterLock(c) == op[c] \in {"up", "down"} /\ pc[c] \notin {"idle", "lock"}

(* A call of the process has the lock and has not asked for its release. *)
Owes(r) == \E c \in Calls : RunnerOf[c] = r /\ AfterLock(c)

HolderLives ==
  holder # NoConn => \/ \E c \in Calls : busy[c] = holder
                     \/ \E r \in Runners : idle[r] = <<holder>>

Counted ==
  IF holder = NoConn THEN refused = 0
  ELSE depth = refused + (IF Owes(PoolOf[holder]) THEN 1 ELSE 0)

Named(c) ==
  /\ pc[c] # "idle" => op[c] # "none"
  /\ pc[c] \in {"lock", "unlock"} => op[c] # "status"

HeldInv == TypeInv /\ OneConnection /\ HolderLives /\ Counted /\ \A c \in Calls : Named(c)

LEMMA HeldInvInit == Init => HeldInv
  <1> SUFFICES ASSUME Init PROVE HeldInv
    OBVIOUS
  <1>1. OneConnection /\ HolderLives /\ Counted /\ \A c \in Calls : Named(c)
    BY RunnerAssumption DEF Init, OneConnection, HolderLives, Counted, Named
  <1> QED
    BY <1>1, InitTyped DEF HeldInv

LEMMA HeldInvFrees == HeldInv => RefusalOnlyLeaks
  <1> SUFFICES ASSUME HeldInv, NEW r \in Runners,
                      \A c \in Calls : RunnerOf[c] = r => pc[c] = "idle",
                      holder \in Conns, PoolOf[holder] = r
               PROVE  depth = refused
    BY DEF RefusalOnlyLeaks
  <1>1. ~Owes(r)
    BY DEF Owes, AfterLock
  <1>2. holder # NoConn /\ refused \in Nat
    BY PoolAssumption DEF HeldInv, TypeInv, PoolInv
  <1> QED
    BY <1>1, <1>2 DEF HeldInv, Counted

(* The session that has the lock is the one its process's call uses. *)
LEMMA HolderHere ==
  ASSUME OneCallPerRunner, HeldInv, NEW c \in Calls, busy[c] # NoConn,
         holder # NoConn, PoolOf[holder] = RunnerOf[c]
  PROVE  holder = busy[c]
  <1>1. CASE \E e \in Calls : busy[e] = holder
    BY <1>1 DEF HeldInv, OneConnection, OneCallPerRunner
  <1>2. ASSUME NEW r \in Runners, idle[r] = <<holder>> PROVE FALSE
    <2>1. PICK k \in Conns : PoolOf[k] = r /\ idle[r] = <<k>>
      BY <1>2 DEF HeldInv, OneConnection
    <2>2. k = holder
      BY <1>2, <2>1
    <2>3. idle[RunnerOf[c]] = <<>> /\ RunnerOf[c] = r
      BY <2>1, <2>2 DEF HeldInv, OneConnection
    <2>4. <<>> = <<holder>> /\ Len(<<>>) = 0 /\ Len(<<holder>>) = 1
      BY <1>2, <2>3
    <2> QED
      BY <2>4
  <1> QED
    BY <1>1, <1>2 DEF HeldInv, HolderLives

(* What a step does to the calls: it moves one of them, which has asked for *)
(* the release, or not, as before.                                          *)
MovesOne(c) == \A d \in Calls \ {c} : pc'[d] = pc[d] /\ op'[d] = op[d]

SameDebt(c) == MovesOne(c) /\ (AfterLock(c)' <=> AfterLock(c)) /\ Named(c)'

LEMMA GotoSame ==
  ASSUME HeldInv, NEW c \in Calls, NEW l \in PCs \ {"idle", "lock"}, Goto(c, l), UNCHANGED op,
         pc[c] \notin {"idle", "lock"}, l = "unlock" => op[c] # "status"
  PROVE  SameDebt(c)
  BY DEF HeldInv, TypeInv, CallInv, Goto, SameDebt, MovesOne, AfterLock, Named

LEMMA LeaveSame ==
  ASSUME HeldInv, NEW c \in Calls,
         (pc[c] = "lock" /\ Return(c)) \/ (pc[c] \notin {"idle", "lock"} /\ Leave(c))
  PROVE  SameDebt(c)
  BY DEF HeldInv, TypeInv, CallInv, Goto, Leave, Return, SameDebt, MovesOne, AfterLock, Named

(* The call gives up: it may leave its debt with a session that has ended. *)
LEMMA LeaveMovesOne ==
  ASSUME HeldInv, NEW c \in Calls, Return(c) \/ (pc[c] # "idle" /\ Leave(c))
  PROVE  MovesOne(c) /\ Named(c)'
  BY DEF HeldInv, TypeInv, CallInv, Goto, Leave, Return, MovesOne, Named

LEMMA NamedStays ==
  ASSUME HeldInv, NEW c \in Calls, MovesOne(c), Named(c)'
  PROVE  \A e \in Calls : Named(e)'
  BY DEF HeldInv, MovesOne, Named

LEMMA CountStays ==
  ASSUME HeldInv, NEW c \in Calls, SameDebt(c), UNCHANGED <<holder, depth, refused>>
  PROVE  Counted'
  <1>1. Owes(PoolOf[holder])' <=> Owes(PoolOf[holder])
    <2>1. \A e \in Calls : AfterLock(e)' <=> AfterLock(e)
      BY DEF SameDebt, MovesOne, AfterLock
    <2> QED
      BY <2>1 DEF Owes
  <1> QED
    BY <1>1 DEF HeldInv, Counted

(* The effects of a step on the pool. *)
LEMMA PutBackOne ==
  ASSUME OneCallPerRunner, HeldInv, NEW c \in Calls, busy[c] # NoConn,
         NEW h, NEW d, NEW n, PutBackWith(c, h, d, n), h \in {NoConn, holder, busy[c]}
  PROVE  /\ holder' = h /\ depth' = d /\ refused' = n
         /\ OneConnection' /\ HolderLives'
  <1>1. idle[RunnerOf[c]] = <<>> /\ RunnerOf[c] \in Runners /\ busy[c] \in Conns
        /\ PoolOf[busy[c]] = RunnerOf[c]
    BY RunnerAssumption DEF HeldInv, OneConnection, TypeInv, PoolInv, Holders
  <1>2. Len(idle[RunnerOf[c]]) < MaxIdle /\ Append(idle[RunnerOf[c]], busy[c]) = <<busy[c]>>
    BY <1>1, BoundAssumption
  <1>3. idle \in [Runners -> Seq(Conns)] /\ busy \in [Calls -> Holders]
    BY DEF HeldInv, TypeInv, PoolInv
  <1>4. /\ busy' = [busy EXCEPT ![c] = NoConn]
        /\ idle' = [idle EXCEPT ![RunnerOf[c]] = <<busy[c]>>]
        /\ holder' = h /\ depth' = d /\ refused' = n
    BY <1>1, <1>2, <1>3 DEF PutBackWith
  <1>5. \A e \in Calls \ {c} : busy'[e] = busy[e] /\ idle'[RunnerOf[e]] = idle[RunnerOf[e]]
    BY <1>1, <1>3, <1>4 DEF OneCallPerRunner
  <1>6. busy'[c] = NoConn /\ idle'[RunnerOf[c]] = <<busy[c]>>
    BY <1>1, <1>3, <1>4
  <1>7. OneConnection'
    BY <1>1, <1>3, <1>4, <1>5, <1>6 DEF HeldInv, OneConnection
  <1>8. ASSUME h # NoConn
        PROVE  (\E e \in Calls : busy'[e] = h) \/ (\E r \in Runners : idle'[r] = <<h>>)
    <2>1. CASE h = busy[c]
      BY <1>1, <1>6, <2>1
    <2>2. CASE h = holder /\ h # busy[c]
      <3>1. ASSUME NEW e \in Calls, busy[e] = h PROVE busy'[e] = h
        BY <1>5, <2>2, <3>1
      <3>2. ASSUME NEW r \in Runners, idle[r] = <<h>> PROVE idle'[r] = <<h>>
        <4>1. r # RunnerOf[c]
          BY <1>1, <3>2
        <4> QED
          BY <1>3, <1>4, <3>2, <4>1
      <3> QED
        BY <1>8, <2>2, <3>1, <3>2 DEF HeldInv, HolderLives
    <2> QED
      BY <1>8, <2>1, <2>2
  <1> QED
    BY <1>4, <1>7, <1>8 DEF HolderLives

Held == OneConnection /\ HolderLives /\ Counted /\ \A c \in Calls : Named(c)

LEMMA HeldPutBack ==
  ASSUME OneCallPerRunner, HeldInv, NEW c \in Calls, busy[c] # NoConn, PutBack(c), SameDebt(c)
  PROVE  Held'
  <1>1. UNCHANGED <<holder, depth, refused>> /\ OneConnection' /\ HolderLives'
    BY PutBackOne DEF PutBack
  <1> QED
    BY <1>1, CountStays, NamedStays DEF Held, SameDebt

LEMMA HeldSame ==
  ASSUME HeldInv, NEW c \in Calls, UNCHANGED poolVars, SameDebt(c)
  PROVE  Held'
  <1>1. UNCHANGED <<busy, idle, holder, depth, refused>>
    BY DEF poolVars
  <1>2. OneConnection' /\ HolderLives'
    BY <1>1 DEF HeldInv, OneConnection, HolderLives
  <1> QED
    BY <1>1, <1>2, CountStays, NamedStays DEF Held, SameDebt

LEMMA HeldDiscard ==
  ASSUME OneCallPerRunner, HeldInv, NEW c \in Calls, busy[c] # NoConn, Discard(c),
         MovesOne(c), Named(c)'
  PROVE  Held'
  <1>1. /\ busy' = [busy EXCEPT ![c] = NoConn] /\ idle' = idle
        /\ holder' = (IF holder = busy[c] THEN NoConn ELSE holder)
        /\ depth' = (IF holder = busy[c] THEN 0 ELSE depth)
        /\ refused' = (IF holder = busy[c] THEN 0 ELSE refused)
    BY DEF Discard, EndSessions
  <1>2. busy \in [Calls -> Holders]
    BY DEF HeldInv, TypeInv, PoolInv
  <1>3. OneConnection'
    BY <1>1, <1>2 DEF HeldInv, OneConnection
  <1>4. HolderLives'
    BY <1>1, <1>2 DEF HeldInv, HolderLives
  <1>5. Counted'
    <2>1. CASE holder \in {busy[c], NoConn}
      BY <1>1, <2>1 DEF HeldInv, Counted
    <2>2. CASE holder \notin {busy[c], NoConn}
      <3>1. UNCHANGED <<holder, depth, refused>>
        BY <1>1, <2>2
      <3>2. PoolOf[holder] # RunnerOf[c]
        BY <2>2, HolderHere
      <3>3. Owes(PoolOf[holder])' <=> Owes(PoolOf[holder])
        <4>1. \A e \in Calls : RunnerOf[e] = PoolOf[holder] => (AfterLock(e)' <=> AfterLock(e))
          BY <3>2 DEF MovesOne, AfterLock
        <4> QED
          BY <3>1, <4>1 DEF Owes
      <3> QED
        BY <3>1, <3>3 DEF HeldInv, Counted
    <2> QED
      BY <2>1, <2>2
  <1> QED
    BY <1>3, <1>4, <1>5, NamedStays DEF Held

LEMMA HeldTake ==
  ASSUME OneCallPerRunner, HeldInv, NEW c \in Calls, Take(c)
  PROVE  Held'
  <1> DEFINE r == RunnerOf[c]
  <1>1. /\ r \in Runners /\ busy[c] = NoConn
        /\ UNCHANGED <<pc, op, holder, depth, refused>>
        /\ busy \in [Calls -> Holders] /\ idle \in [Runners -> Seq(Conns)]
    BY RunnerAssumption DEF Take, callVars, HeldInv, TypeInv, PoolInv
  <1>2. PICK k \in Conns :
          /\ PoolOf[k] = r
          /\ busy' = [busy EXCEPT ![c] = k]
          /\ idle' = [idle EXCEPT ![r] = <<>>]
          /\ idle[r] = <<>> \/ idle[r] = <<k>>
    <2>1. CASE idle[r] # <<>>
      <3>1. PICK k \in Conns : PoolOf[k] = r /\ idle[r] = <<k>>
        BY <1>1, <2>1 DEF HeldInv, OneConnection
      <3>2. Last(idle[r]) = k /\ Front(idle[r]) = <<>>
        BY <3>1 DEF Last, Front
      <3> QED
        BY <2>1, <3>1, <3>2 DEF Take
    <2>2. CASE idle[r] = <<>>
      <3>1. PICK k \in Conns : PoolOf[k] = r /\ busy' = [busy EXCEPT ![c] = k]
        BY <2>2 DEF Take
      <3>2. idle' = [idle EXCEPT ![r] = <<>>]
        BY <1>1, <2>2 DEF Take
      <3> QED
        BY <2>2, <3>1, <3>2
    <2> QED
      BY <2>1, <2>2
  <1>3. \A e \in Calls \ {c} : busy'[e] = busy[e] /\ idle'[RunnerOf[e]] = idle[RunnerOf[e]]
    BY <1>1, <1>2 DEF OneCallPerRunner
  <1>4. busy'[c] = k /\ idle'[r] = <<>>
    BY <1>1, <1>2
  <1>5. OneConnection'
    BY <1>1, <1>2, <1>3, <1>4 DEF HeldInv, OneConnection
  <1>6. HolderLives'
    <2> SUFFICES ASSUME holder # NoConn
                 PROVE  (\E e \in Calls : busy'[e] = holder) \/ (\E q \in Runners : idle'[q] = <<holder>>)
      BY <1>1 DEF HolderLives
    <2>1. ASSUME NEW e \in Calls, busy[e] = holder PROVE busy'[e] = holder
      BY <1>1, <1>3, <2>1
    <2>2. ASSUME NEW q \in Runners, q # r, idle[q] = <<holder>> PROVE idle'[q] = <<holder>>
      BY <1>1, <1>2, <2>2
    <2>3. ASSUME idle[r] = <<holder>> PROVE busy'[c] = holder
      <3>1. <<holder>> = <<k>>
        BY <1>2, <2>3
      <3> QED
        BY <1>4, <3>1
    <2> QED
      BY <1>1, <2>1, <2>2, <2>3 DEF HeldInv, HolderLives
  <1>7. Counted' /\ \A e \in Calls : Named(e)'
    BY <1>1 DEF HeldInv, Counted, Owes, AfterLock, Named
  <1> QED
    BY <1>5, <1>6, <1>7 DEF Held

(* Whoever gets the lock finds in it only the levels an unlock was refused. *)
LEMMA HeldAcquire ==
  ASSUME OneCallPerRunner, HeldInv, NEW c \in Calls, AcquireLock(c)
  PROVE  Held'
  <1>1. /\ pc[c] = "lock" /\ busy[c] # NoConn /\ holder \in {NoConn, busy[c]}
        /\ PutBackWith(c, busy[c], depth + 1, refused)
        /\ pc' = [pc EXCEPT ![c] = "ensure"] /\ op' = op
    BY DEF AcquireLock, Goto
  <1>2. /\ holder' = busy[c] /\ depth' = depth + 1 /\ refused' = refused
        /\ OneConnection' /\ HolderLives'
    BY <1>1, PutBackOne
  <1>3. PoolOf[busy[c]] = RunnerOf[c] /\ refused \in Nat /\ depth \in Nat
    BY <1>1, BoundAssumption DEF HeldInv, OneConnection, TypeInv, PoolInv
  <1>4. depth = refused
    <2>1. CASE holder = NoConn
      BY <2>1 DEF HeldInv, TypeInv, PoolInv, Counted
    <2>2. CASE holder = busy[c]
      <3>1. ~Owes(RunnerOf[c])
        BY <1>1 DEF Owes, AfterLock, OneCallPerRunner
      <3> QED
        BY <1>1, <1>3, <2>2, <3>1 DEF HeldInv, Counted
    <2> QED
      BY <1>1, <2>1, <2>2
  <1>5. MovesOne(c) /\ Named(c)' /\ AfterLock(c)'
    BY <1>1 DEF HeldInv, TypeInv, CallInv, OpNames, MovesOne, Named, AfterLock
  <1>6. Owes(RunnerOf[c])'
    BY <1>5 DEF Owes
  <1>7. Counted'
    <2>1. Owes(PoolOf[holder])'
      BY <1>2, <1>3, <1>6 DEF Owes, AfterLock
    <2> QED
      BY <1>1, <1>2, <1>3, <1>4, <2>1 DEF Counted
  <1> QED
    BY <1>2, <1>5, <1>7, NamedStays DEF Held

(* The unlock runs on the session that has the lock, if that session lives, *)
(* and the server releases one level of it or refuses to.                   *)
LEMMA HeldUnlock ==
  ASSUME OneCallPerRunner, HeldInv, NEW c \in Calls, Unlock(c) \/ UnlockFails(c)
  PROVE  Held'
  <1>1. pc[c] = "unlock" /\ busy[c] # NoConn /\ Return(c)
    BY DEF Unlock, UnlockFails
  <1>2. MovesOne(c) /\ Named(c)' /\ ~AfterLock(c)'
    BY <1>1 DEF HeldInv, TypeInv, CallInv, Return, Goto, MovesOne, Named, AfterLock
  <1>3. Owes(RunnerOf[c]) /\ ~Owes(RunnerOf[c])'
    <2>1. AfterLock(c)
      BY <1>1 DEF HeldInv, TypeInv, CallInv, OpNames, Named, AfterLock
    <2> QED
      BY <1>2, <2>1 DEF Owes, OneCallPerRunner
  <1>4. PoolOf[busy[c]] = RunnerOf[c] /\ refused \in Nat /\ depth \in Nat
    BY <1>1, BoundAssumption DEF HeldInv, OneConnection, TypeInv, PoolInv
  <1> DEFINE last == holder = busy[c] /\ depth = 1
  <1>5. PICK h, d, n :
          /\ PutBackWith(c, h, d, n) /\ h \in {NoConn, holder, busy[c]}
          /\ holder # busy[c] => h = holder /\ d = depth /\ n = refused
          /\ holder = busy[c] => \/ h = NoConn /\ n = 0
                                 \/ h = holder /\ d = depth - 1 /\ n = refused
                                 \/ h = holder /\ d = depth /\ n = refused + 1
    <2>1. CASE Unlock(c)
      <3>1. PutBackWith(c, IF last THEN NoConn ELSE holder,
                           IF holder = busy[c] THEN depth - 1 ELSE depth,
                           IF last THEN 0 ELSE refused)
        BY <2>1 DEF Unlock
      <3> QED
        BY <3>1
    <2>2. CASE UnlockFails(c)
      <3>1. PutBackWith(c, holder, depth, IF holder = busy[c] THEN refused + 1 ELSE refused)
        BY <2>2 DEF UnlockFails
      <3> QED
        BY <3>1
    <2> QED
      BY <2>1, <2>2
  <1>6. holder' = h /\ depth' = d /\ refused' = n /\ OneConnection' /\ HolderLives'
    BY <1>1, <1>5, PutBackOne
  <1>7. Counted'
    <2>1. CASE h = NoConn
      BY <1>1, <1>5, <1>6, <2>1 DEF HeldInv, Counted
    <2>2. CASE holder = busy[c] /\ h = holder
      <3>1. depth = refused + 1
        BY <1>1, <1>3, <1>4, <2>2 DEF HeldInv, Counted
      <3>2. d = n
        BY <1>1, <1>4, <1>5, <2>2, <3>1
      <3>3. ~Owes(PoolOf[holder])'
        BY <1>3, <1>4, <1>6, <2>2 DEF Owes, AfterLock
      <3>4. n \in Nat
        BY <1>1, <1>4, <1>5, <2>2
      <3> QED
        BY <1>6, <3>2, <3>3, <3>4, <2>2, <1>1 DEF Counted
    <2>3. CASE holder # busy[c] /\ holder # NoConn
      <3>1. UNCHANGED <<holder, depth, refused>>
        BY <1>5, <1>6, <2>3
      <3>2. PoolOf[holder] # RunnerOf[c]
        BY <1>1, <2>3, HolderHere
      <3>3. Owes(PoolOf[holder])' <=> Owes(PoolOf[holder])
        <4>1. \A e \in Calls : RunnerOf[e] = PoolOf[holder] => (AfterLock(e)' <=> AfterLock(e))
          BY <1>2, <3>2 DEF MovesOne, AfterLock
        <4> QED
          BY <3>1, <4>1 DEF Owes
      <3> QED
        BY <3>1, <3>3 DEF HeldInv, Counted
    <2> QED
      BY <1>5, <2>1, <2>2, <2>3
  <1> QED
    BY <1>2, <1>6, <1>7, NamedStays DEF Held

LEMMA AnswerHeld ==
  ASSUME OneCallPerRunner, HeldInv, NEW c \in Calls, Answer(c)
  PROVE  Held'
  <1> USE DEF PCs
  <1>1. CASE EnsureTable(c)
    BY <1>1, GotoSame, HeldPutBack DEF EnsureTable
  <1>2. CASE CheckLoaded(c)
    <2>1. PICK l \in {"query", "read"} : Goto(c, l)
      BY <1>2 DEF CheckLoaded
    <2> QED
      BY <1>2, <2>1, GotoSame, HeldSame DEF CheckLoaded
  <1>3. CASE ReadFiles(c)
    BY <1>3, GotoSame, HeldSame DEF ReadFiles
  <1>4. CASE ReadFilesFails(c)
    BY <1>4, LeaveSame, HeldSame DEF ReadFilesFails
  <1>5. CASE QueryUp(c)
    <2>1. PICK l \in {"unlock", "exec"} : Goto(c, l)
      BY <1>5 DEF QueryUp
    <2> QED
      BY <1>5, <2>1, GotoSame, HeldPutBack DEF QueryUp
  <1>6. CASE QueryPanics(c)
    BY <1>6, LeaveSame, HeldPutBack DEF QueryPanics
  <1>7. CASE QueryStatus(c)
    BY <1>7, LeaveSame, HeldPutBack DEF QueryStatus
  <1>8. CASE QueryDown(c)
    <2>1. PICK l \in {"unlock", "exec"} : Goto(c, l)
      BY <1>8 DEF QueryDown
    <2> QED
      BY <1>8, <2>1, GotoSame, HeldPutBack DEF QueryDown
  <1>9. CASE Exec(c)
    BY <1>9, GotoSame, HeldSame DEF Exec
  <1>10. CASE NothingDeleted(c)
    BY <1>10, LeaveSame, HeldPutBack DEF NothingDeleted
  <1>11. CASE CommitUp(c)
    <2>1. busy[c] # NoConn
      BY <1>11 DEF CommitUp, HeldInv, TypeInv, CallInv
    <2> QED
      BY <1>11, <2>1, GotoSame, HeldPutBack DEF CommitUp
  <1>12. CASE CommitDown(c)
    <2>1. busy[c] # NoConn
      BY <1>12 DEF CommitDown, HeldInv, TypeInv, CallInv
    <2> QED
      BY <1>12, <2>1, LeaveSame, HeldPutBack DEF CommitDown
  <1>13. CASE RecordOk(c)
    <2>1. PICK l \in {"unlock", "exec"} : Goto(c, l)
      BY <1>13 DEF RecordOk
    <2>2. op[c] = "up" /\ pc[c] = "recordOk" /\ UNCHANGED op
      BY <1>13 DEF RecordOk, HeldInv, TypeInv, CallInv, WorkOK
    <2> QED
      BY <1>13, <2>1, <2>2, GotoSame, HeldPutBack DEF RecordOk
  <1>14. CASE RecordFail(c)
    BY <1>14, LeaveSame, HeldPutBack DEF RecordFail
  <1>15. CASE Unlock(c)
    BY <1>15, HeldUnlock
  <1> QED
    BY <1>1, <1>2, <1>3, <1>4, <1>5, <1>6, <1>7, <1>8, <1>9, <1>10, <1>11, <1>12,
       <1>13, <1>14, <1>15 DEF Answer

LEMMA FailureHeld ==
  ASSUME OneCallPerRunner, HeldInv, NEW c \in Calls, Failure(c)
  PROVE  Held'
  <1>1. CASE MigrationFails(c)
    <2>1. busy[c] # NoConn /\ PutBack(c) /\ pc[c] \in {"exec", "commit"}
      BY <1>1 DEF MigrationFails, HeldInv, TypeInv, CallInv
    <2>2. CASE Goto(c, RecordAfterFailure) /\ UNCHANGED op
      BY <2>1, <2>2, GotoSame, HeldPutBack DEF RecordAfterFailure, PCs
    <2>3. CASE Leave(c)
      BY <2>1, <2>3, LeaveSame, HeldPutBack
    <2> QED
      BY <1>1, <2>2, <2>3 DEF MigrationFails
  <1>2. CASE StatementFails(c)
    BY <1>2, LeaveSame, HeldPutBack DEF StatementFails, Statements
  <1>3. CASE UnlockFails(c)
    BY <1>3, HeldUnlock
  <1>4. CASE Timeout(c)
    <2>1. SameDebt(c)
      BY <1>4, LeaveSame DEF Timeout
    <2>2. CASE busy[c] = NoConn
      BY <1>4, <2>1, <2>2, HeldSame DEF Timeout
    <2>3. CASE busy[c] # NoConn
      BY <1>4, <2>1, <2>3, HeldDiscard DEF Timeout, SameDebt
    <2> QED
      BY <2>2, <2>3
  <1>5. CASE BusyDropped(c)
    <2>1. MovesOne(c) /\ Named(c)'
      <3>1. CASE pc[c] \in {"exec", "commit"} /\ Goto(c, "recordFail") /\ UNCHANGED op
        BY <3>1, GotoSame DEF PCs, SameDebt
      <3>2. CASE Leave(c) \/ Return(c)
        BY <1>5, <3>2, LeaveMovesOne DEF BusyDropped, Statements
      <3> QED
        BY <1>5, <3>1, <3>2 DEF BusyDropped
    <2> QED
      BY <1>5, <2>1, HeldDiscard DEF BusyDropped
  <1> QED
    BY <1>1, <1>2, <1>3, <1>4, <1>5 DEF Failure

LEMMA CallHeld ==
  ASSUME OneCallPerRunner, HeldInv, NEW c \in Calls, CallStep(c)
  PROVE  Held'
  <1>1. ASSUME NEW o \in Ops, Start(c, o) PROVE Held'
    <2>1. /\ pc[c] = "idle" /\ pc' = [pc EXCEPT ![c] = FirstStatement(o)]
          /\ op' = [op EXCEPT ![c] = o] /\ UNCHANGED poolVars
      BY <1>1 DEF Start, Goto
    <2>2. o \in {"up", "down", "status"}
      BY ChoiceAssumption
    <2>3. MovesOne(c) /\ pc'[c] = FirstStatement(o) /\ op'[c] = o
      BY <2>1 DEF MovesOne, HeldInv, TypeInv, CallInv
    <2>4. SameDebt(c)
      BY <2>1, <2>2, <2>3 DEF SameDebt, AfterLock, Named, FirstStatement
    <2> QED
      BY <2>1, <2>4, HeldSame
  <1> QED
    BY <1>1, HeldTake, HeldAcquire, AnswerHeld, FailureHeld DEF CallStep

LEMMA RunnerHeld ==
  ASSUME HeldInv, NEW r \in Runners, RunnerStep(r)
  PROVE  Held'
  <1>1. busy \in [Calls -> Holders] /\ idle \in [Runners -> Seq(Conns)]
        /\ RunnerOf \in [Calls -> Runners]
    BY RunnerAssumption DEF HeldInv, TypeInv, PoolInv
  <1>2. CASE IdleDropped(r)
    <2>1. PICK i \in DOMAIN idle[r] :
            /\ idle' = [idle EXCEPT ![r] = RemoveAt(@, i)]
            /\ EndSessions({idle[r][i]})
      BY <1>2 DEF IdleDropped
    <2>2. UNCHANGED <<pc, op, busy>>
      BY <1>2 DEF IdleDropped, callVars
    <2>3. PICK k \in Conns : PoolOf[k] = r /\ idle[r] = <<k>>
      BY <1>1, <2>1 DEF HeldInv, OneConnection
    <2>4. i = 1 /\ idle[r][i] = k
      BY <2>1, <2>3
    <2>5. RemoveAt(idle[r], i) = <<>>
      BY <2>3, <2>4 DEF RemoveAt
    <2>6. idle' = [idle EXCEPT ![r] = <<>>]
      BY <2>1, <2>5
    <2>7. OneConnection'
      BY <1>1, <2>2, <2>6 DEF HeldInv, OneConnection
    <2>8. CASE holder = k
      BY <2>1, <2>2, <2>4, <2>7, <2>8 DEF Held, HeldInv, HolderLives, Counted, EndSessions, Named
    <2>9. CASE holder # k
      <3>1. UNCHANGED <<holder, depth, refused>>
        BY <2>1, <2>4, <2>9 DEF EndSessions
      <3>2. ASSUME NEW q \in Runners, idle[q] = <<holder>> PROVE idle'[q] = <<holder>>
        <4>1. q # r
          BY <2>3, <2>9, <3>2
        <4> QED
          BY <1>1, <2>6, <3>2, <4>1
      <3>3. HolderLives'
        BY <2>2, <3>1, <3>2 DEF HeldInv, HolderLives
      <3> QED
        BY <2>2, <2>7, <3>1, <3>3 DEF Held, HeldInv, Counted, Owes, AfterLock, Named
    <2> QED
      BY <2>8, <2>9
  <1>3. CASE Restart(r)
    <2> DEFINE ours == holder \in {k \in Conns : PoolOf[k] = r}
    <2>1. /\ \A c \in Calls : RunnerOf[c] = r => pc'[c] = "idle" /\ busy'[c] = NoConn
          /\ \A c \in Calls : RunnerOf[c] # r =>
               pc'[c] = pc[c] /\ op'[c] = op[c] /\ busy'[c] = busy[c]
          /\ idle' = [idle EXCEPT ![r] = <<>>]
          /\ ours => holder' = NoConn /\ refused' = 0
          /\ ~ours => UNCHANGED <<holder, depth, refused>>
      BY <1>3 DEF Restart, EndSessions
    <2>2. OneConnection'
      BY <1>1, <2>1 DEF HeldInv, OneConnection
    <2>3. \A c \in Calls : Named(c)'
      BY <2>1 DEF HeldInv, Named
    <2>4. CASE ours \/ holder = NoConn
      <3>1. holder' = NoConn /\ refused' = 0
        BY <2>1, <2>4, PoolAssumption DEF HeldInv, Counted
      <3> QED
        BY <2>2, <2>3, <3>1 DEF Held, HolderLives, Counted
    <2>5. CASE ~ours /\ holder # NoConn
      <3>1. holder \in Conns /\ PoolOf[holder] # r /\ UNCHANGED <<holder, depth, refused>>
        BY <2>1, <2>5 DEF HeldInv, TypeInv, PoolInv, Holders
      <3>2. ASSUME NEW e \in Calls, busy[e] = holder PROVE busy'[e] = holder
        BY <2>1, <2>5, <3>1, <3>2 DEF HeldInv, OneConnection
      <3>3. ASSUME NEW q \in Runners, idle[q] = <<holder>> PROVE idle'[q] = <<holder>>
        <4>1. PICK k \in Conns : PoolOf[k] = q /\ idle[q] = <<k>>
          BY <3>3 DEF HeldInv, OneConnection
        <4>2. k = holder
          BY <3>3, <4>1
        <4> QED
          BY <1>1, <2>1, <3>1, <3>3, <4>1, <4>2
      <3>4. HolderLives'
        BY <2>5, <3>1, <3>2, <3>3 DEF HeldInv, HolderLives
      <3>5. Owes(PoolOf[holder])' <=> Owes(PoolOf[holder])
        <4>1. \A e \in Calls : RunnerOf[e] = PoolOf[holder] => (AfterLock(e)' <=> AfterLock(e))
          BY <2>1, <3>1 DEF AfterLock
        <4> QED
          BY <3>1, <4>1 DEF Owes
      <3> QED
        BY <2>2, <2>3, <3>1, <3>4, <3>5 DEF Held, HeldInv, Counted
    <2> QED
      BY <2>4, <2>5
  <1> QED
    BY <1>2, <1>3 DEF RunnerStep, Crash, Close

LEMMA HeldInvStep == OneCallPerRunner /\ HeldInv /\ [Next]_vars => HeldInv'
  <1> SUFFICES ASSUME OneCallPerRunner, HeldInv, [Next]_vars PROVE HeldInv'
    OBVIOUS
  <1>1. TypeInv'
    BY StepTyped DEF HeldInv
  <1>2. CASE UNCHANGED vars
    BY <1>1, <1>2
       DEF vars, callVars, poolVars, HeldInv, OneConnection, HolderLives, Counted, Owes, Named, AfterLock
  <1> QED
    BY <1>1, <1>2, CallHeld, RunnerHeld DEF Next, HeldInv, Held

(* Every error path, panic and timeout of withLock releases the advisory     *)
(* lock on the session that has it, unless the server refuses the unlock,    *)
(* whose error the code drops: a process none of whose calls is running      *)
(* holds the lock exactly as often as that happened, not at all when it      *)
(* never did, and no lost connection, crash or Close adds to it.             *)
THEOREM LockReleased ==
  ASSUME OneCallPerRunner
  PROVE  Spec => []RefusalOnlyLeaks
  <1>1. Init => HeldInv
    BY HeldInvInit
  <1>2. HeldInv /\ [Next]_vars => HeldInv'
    BY HeldInvStep
  <1>3. HeldInv => RefusalOnlyLeaks
    BY HeldInvFrees
  <1> QED
    BY <1>1, <1>2, <1>3, PTL DEF Spec

-----------------------------------------------------------------------------
(* A Runner that goroutines share.  A session may take the lock again, and   *)
(* an unlock may come from another session, so what excludes the other       *)
(* processes is a count: the lock is held at least once for each call that   *)
(* took it and has not tried to unlock it yet.                               *)

PoolConns(r) == {k \in Conns : PoolOf[k] = r}

(* No pool opens more connections than it keeps idle: it never closes one    *)
(* that is put back.                                                         *)
PoolsKeepAll == \A r \in Runners : IsFiniteSet(PoolConns(r)) /\ Cardinality(PoolConns(r)) <= MaxIdle

(* No connection is lost, and none closed by pgx because a context ended.    *)
ConnectionsLast == Faults \cap {"timeout", "drop"} = {}

(* A connection is with one call, or idle once in its pool. *)
HeldOnce(c) ==
  busy[c] # NoConn => /\ PoolOf[busy[c]] = RunnerOf[c]
                      /\ \A d \in Calls : busy[d] = busy[c] => d = c

IdleOnce(r) ==
  \A i \in DOMAIN idle[r] :
    /\ PoolOf[idle[r][i]] = r
    /\ \A c \in Calls : busy[c] # idle[r][i]
    /\ \A j \in DOMAIN idle[r] : idle[r][i] = idle[r][j] => i = j

ConnectionsOnce == (\A c \in Calls : HeldOnce(c)) /\ (\A r \in Runners : IdleOnce(r))

Owing(r) == {c \in Calls : RunnerOf[c] = r /\ AfterLock(c)}

Debts ==
  \A r \in Runners :
    /\ IsFiniteSet(Owing(r)) /\ Cardinality(Owing(r)) <= depth
    /\ Owing(r) # {} => holder \in Conns /\ PoolOf[holder] = r

SharedInv == TypeInv /\ ConnectionsOnce /\ Debts /\ \A c \in Calls : Named(c)

LEMMA SharedInit == Init => SharedInv
  <1> SUFFICES ASSUME Init PROVE SharedInv
    OBVIOUS
  <1>1. \A c \in Calls : pc[c] = "idle" /\ busy[c] = NoConn
    BY DEF Init
  <1>2. \A r \in Runners : idle[r] = <<>>
    BY DEF Init
  <1>3. \A r \in Runners : Owing(r) = {}
    BY <1>1 DEF Owing, AfterLock
  <1>4. Debts
    <2>1. depth = 0 /\ IsFiniteSet({}) /\ Cardinality({}) = 0
      BY FS_EmptySet DEF Init
    <2> QED
      BY <1>3, <2>1 DEF Debts
  <1> QED
    BY <1>1, <1>2, <1>4, InitTyped DEF SharedInv, ConnectionsOnce, HeldOnce, IdleOnce, Named

LEMMA SharedExcludes == SharedInv => MutualExclusion
  <1> SUFFICES ASSUME SharedInv, NEW c \in Calls, NEW d \in Calls,
                      InLockedRegion(c), InLockedRegion(d)
               PROVE  RunnerOf[c] = RunnerOf[d]
    BY DEF MutualExclusion
  <1>1. c \in Owing(RunnerOf[c]) /\ d \in Owing(RunnerOf[d])
    BY DEF Owing, AfterLock, InLockedRegion
  <1>2. RunnerOf[c] \in Runners /\ RunnerOf[d] \in Runners
    BY RunnerAssumption
  <1> QED
    BY <1>1, <1>2 DEF SharedInv, Debts

(* What a call does that does not get the lock. *)
Settles(c) ==
  /\ MovesOne(c)
  /\ AfterLock(c)' => AfterLock(c)
  /\ Named(c)'

LEMMA GotoSettles ==
  ASSUME SharedInv, NEW c \in Calls, NEW l \in PCs, Goto(c, l), UNCHANGED op,
         pc[c] \notin {"idle", "lock"}, l \in {"lock", "unlock"} => op[c] # "status"
  PROVE  Settles(c)
  BY DEF SharedInv, TypeInv, CallInv, Goto, Settles, MovesOne, AfterLock, Named

LEMMA LeaveSettles ==
  ASSUME SharedInv, NEW c \in Calls, Return(c) \/ (Leave(c) /\ pc[c] \notin {"idle", "lock"})
  PROVE  Settles(c)
  BY DEF SharedInv, TypeInv, CallInv, Goto, Leave, Return, Settles, MovesOne, AfterLock, Named

(* The pool takes the connection back and keeps it. *)
LEMMA PutBackShared ==
  ASSUME PoolsKeepAll, SharedInv, NEW c \in Calls, busy[c] # NoConn,
         NEW h, NEW d, NEW n, PutBackWith(c, h, d, n)
  PROVE  ConnectionsOnce' /\ holder' = h /\ depth' = d
  <1> DEFINE r == RunnerOf[c]
             others == PoolConns(r) \ {busy[c]}
  <1>1. /\ r \in Runners /\ busy[c] \in Conns /\ PoolOf[busy[c]] = r
        /\ busy \in [Calls -> Holders] /\ idle \in [Runners -> Seq(Conns)]
        /\ idle[r] \in Seq(Conns) /\ Len(idle[r]) \in Nat
    BY RunnerAssumption
       DEF SharedInv, ConnectionsOnce, HeldOnce, TypeInv, PoolInv, Holders
  <1>2. idle[r] \in Injection(1..Len(idle[r]), others)
    <2>1. DOMAIN idle[r] = 1..Len(idle[r])
      BY <1>1
    <2>2. \A i \in 1..Len(idle[r]) : idle[r][i] \in others
      BY <1>1, <2>1 DEF SharedInv, ConnectionsOnce, IdleOnce, PoolConns
    <2>3. \A i, j \in 1..Len(idle[r]) : idle[r][i] = idle[r][j] => i = j
      BY <1>1, <2>1 DEF SharedInv, ConnectionsOnce, IdleOnce
    <2>4. idle[r] \in [1..Len(idle[r]) -> others]
      BY <1>1, <2>1, <2>2
    <2> QED
      BY <2>3, <2>4 DEF Injection, IsInjective
  <1>3. Len(idle[r]) < MaxIdle
    <2>1. /\ IsFiniteSet(PoolConns(r)) /\ Cardinality(PoolConns(r)) <= MaxIdle
          /\ busy[c] \in PoolConns(r)
      BY <1>1 DEF PoolsKeepAll, PoolConns
    <2>2. Cardinality(PoolConns(r)) \in Nat
      BY <2>1, FS_CardinalityType
    <2>3. IsFiniteSet(others) /\ Cardinality(others) = Cardinality(PoolConns(r)) - 1
      BY <2>1, FS_RemoveElement
    <2>4. Cardinality(1..Len(idle[r])) = Len(idle[r])
      BY <1>1, FS_Interval
    <2> HIDE DEF others
    <2>5. Cardinality(1..Len(idle[r])) <= Cardinality(others)
      BY <1>2, <2>3, FS_Injection
    <2> QED
      BY <1>1, <2>1, <2>2, <2>3, <2>4, <2>5, BoundAssumption
  <1>4. /\ busy' = [busy EXCEPT ![c] = NoConn]
        /\ idle' = [idle EXCEPT ![r] = Append(idle[r], busy[c])]
        /\ holder' = h /\ depth' = d
    BY <1>3 DEF PutBackWith
  <1>5. /\ busy'[c] = NoConn /\ \A e \in Calls \ {c} : busy'[e] = busy[e]
        /\ idle'[r] = Append(idle[r], busy[c])
        /\ \A q \in Runners \ {r} : idle'[q] = idle[q]
    BY <1>1, <1>4
  <1>6. \A e \in Calls : HeldOnce(e)'
    BY <1>5 DEF SharedInv, ConnectionsOnce, HeldOnce
  <1>7. IdleOnce(r)'
    <2>1. DOMAIN idle[r] = 1..Len(idle[r]) /\ DOMAIN idle'[r] = 1..(Len(idle[r]) + 1)
      BY <1>1, <1>5
    <2>2. \A i \in DOMAIN idle[r] : idle'[r][i] = idle[r][i]
      BY <1>1, <1>5
    <2>3. idle'[r][Len(idle[r]) + 1] = busy[c]
      BY <1>1, <1>5
    <2>4. \A i \in DOMAIN idle'[r] : i \in DOMAIN idle[r] \/ i = Len(idle[r]) + 1
      BY <1>1, <2>1
    <2>5. ASSUME NEW i \in DOMAIN idle'[r]
          PROVE  PoolOf[idle'[r][i]] = r /\ \A e \in Calls : busy'[e] # idle'[r][i]
      <3>1. CASE i \in DOMAIN idle[r]
        <4>1. PoolOf[idle[r][i]] = r /\ \A e \in Calls : busy[e] # idle[r][i]
          BY <1>1, <3>1 DEF SharedInv, ConnectionsOnce, IdleOnce
        <4>2. idle[r][i] # NoConn
          BY <1>1, <3>1, PoolAssumption
        <4> QED
          BY <1>5, <2>2, <3>1, <4>1, <4>2
      <3>2. CASE i = Len(idle[r]) + 1
        BY <1>1, <1>5, <2>3, <3>2 DEF SharedInv, ConnectionsOnce, HeldOnce
      <3> QED
        BY <2>4, <3>1, <3>2
    <2>6. \A i \in DOMAIN idle[r] : idle[r][i] # busy[c]
      BY <1>1 DEF SharedInv, ConnectionsOnce, IdleOnce
    <2>7. \A i, j \in DOMAIN idle[r] : idle[r][i] = idle[r][j] => i = j
      BY <1>1 DEF SharedInv, ConnectionsOnce, IdleOnce
    <2>8. \A i, j \in DOMAIN idle'[r] : idle'[r][i] = idle'[r][j] => i = j
      BY <2>2, <2>3, <2>4, <2>6, <2>7
    <2> QED
      BY <2>5, <2>8 DEF IdleOnce
  <1>8. ASSUME NEW q \in Runners, q # r PROVE IdleOnce(q)'
    <2>1. idle'[q] = idle[q]
      BY <1>5, <1>8
    <2>2. \A i \in DOMAIN idle[q] : idle[q][i] # NoConn
      BY <1>1, PoolAssumption
    <2> QED
      BY <1>5, <2>1, <2>2 DEF SharedInv, ConnectionsOnce, IdleOnce
  <1> QED
    BY <1>4, <1>6, <1>7, <1>8 DEF ConnectionsOnce

LEMMA DebtsSettled ==
  ASSUME SharedInv, NEW c \in Calls, Settles(c), holder' = holder, depth' = depth
  PROVE  Debts' /\ \A e \in Calls : Named(e)'
  <1>1. \A e \in Calls : AfterLock(e)' => AfterLock(e)
    BY DEF Settles, MovesOne, AfterLock
  <1>2. ASSUME NEW r \in Runners
        PROVE  /\ IsFiniteSet(Owing(r)') /\ Cardinality(Owing(r)') <= depth
               /\ Owing(r)' # {} => holder \in Conns /\ PoolOf[holder] = r
    <2>1. Owing(r)' \in SUBSET Owing(r)
      BY <1>1 DEF Owing
    <2>2. IsFiniteSet(Owing(r)) /\ Cardinality(Owing(r)) <= depth /\ depth \in Nat
      BY BoundAssumption DEF SharedInv, Debts, TypeInv, PoolInv
    <2> DEFINE before == Owing(r)
               after == Owing(r)'
    <2> HIDE DEF before, after
    <2>3. IsFiniteSet(after) /\ Cardinality(after) <= Cardinality(before)
      BY <2>1, <2>2, FS_Subset DEF before, after
    <2>4. Cardinality(after) \in Nat /\ Cardinality(before) \in Nat
      BY <2>2, <2>3, FS_CardinalityType DEF before
    <2>5. Cardinality(after) <= depth
      BY <2>2, <2>3, <2>4 DEF before
    <2> QED
      BY <2>1, <2>3, <2>5 DEF after, SharedInv, Debts
  <1>3. \A e \in Calls : Named(e)'
    BY DEF Settles, MovesOne, Named, SharedInv
  <1> QED
    BY <1>2, <1>3 DEF Debts

(* A statement that neither takes nor releases the lock, and one without. *)
LEMMA PutBackSettles ==
  ASSUME PoolsKeepAll, SharedInv, NEW c \in Calls, busy[c] # NoConn, PutBack(c), Settles(c)
  PROVE  ConnectionsOnce' /\ Debts' /\ \A e \in Calls : Named(e)'
  BY PutBackShared, DebtsSettled DEF PutBack

LEMMA PoolSettles ==
  ASSUME SharedInv, NEW c \in Calls, UNCHANGED poolVars, Settles(c)
  PROVE  ConnectionsOnce' /\ Debts' /\ \A e \in Calls : Named(e)'
  BY DebtsSettled DEF poolVars, SharedInv, ConnectionsOnce, HeldOnce, IdleOnce

(* A connection taken from the pool, or opened, is nobody else's. *)
LEMMA TakeShared ==
  ASSUME SharedInv, NEW c \in Calls, Take(c)
  PROVE  ConnectionsOnce'
  <1> DEFINE r == RunnerOf[c]
  <1>1. /\ r \in Runners /\ busy[c] = NoConn /\ NoConn \notin Conns
        /\ busy \in [Calls -> Holders] /\ idle \in [Runners -> Seq(Conns)]
        /\ idle[r] \in Seq(Conns)
    BY RunnerAssumption, PoolAssumption DEF Take, SharedInv, TypeInv, PoolInv
  <1>2. CASE idle[r] # <<>>
    <2> DEFINE n == Len(idle[r])
    <2>1. n \in Nat /\ n > 0 /\ DOMAIN idle[r] = 1..n
      BY <1>1, <1>2
    <2>2. busy' = [busy EXCEPT ![c] = idle[r][n]] /\ idle' = [idle EXCEPT ![r] = Front(idle[r])]
      BY <1>2 DEF Take, Last
    <2>3. DOMAIN Front(idle[r]) = 1..(n - 1) /\ \A i \in 1..(n - 1) : Front(idle[r])[i] = idle[r][i]
      BY <1>1, <2>1 DEF Front
    <2> HIDE DEF n
    <2>4. /\ n \in DOMAIN idle[r] /\ idle[r][n] \in Conns
          /\ DOMAIN Front(idle[r]) \subseteq DOMAIN idle[r] /\ n \notin DOMAIN Front(idle[r])
      BY <1>1, <2>1, <2>3
    <2>5. /\ busy'[c] = idle[r][n] /\ \A e \in Calls \ {c} : busy'[e] = busy[e]
          /\ idle'[r] = Front(idle[r]) /\ \A q \in Runners \ {r} : idle'[q] = idle[q]
      BY <1>1, <2>2
    <2>6. IdleOnce(r) /\ \A e \in Calls : HeldOnce(e)
      BY <1>1 DEF SharedInv, ConnectionsOnce
    <2>7. PoolOf[idle[r][n]] = r /\ \A e \in Calls : busy[e] # idle[r][n]
      BY <2>4, <2>6 DEF IdleOnce
    <2>8. ASSUME NEW e \in Calls PROVE HeldOnce(e)'
      BY <1>1, <2>4, <2>5, <2>6, <2>7 DEF HeldOnce
    <2>9. IdleOnce(r)'
      <3>1. \A i \in DOMAIN idle'[r] : i \in DOMAIN idle[r] /\ i # n /\ idle'[r][i] = idle[r][i]
        BY <2>3, <2>4, <2>5
      <3> QED
        BY <2>4, <2>5, <2>6, <3>1 DEF IdleOnce
    <2>10. ASSUME NEW q \in Runners, q # r PROVE IdleOnce(q)'
      <3>1. IdleOnce(q) /\ idle'[q] = idle[q]
        BY <2>5, <2>10 DEF SharedInv, ConnectionsOnce
      <3>2. \A i \in DOMAIN idle[q] : idle[q][i] # idle[r][n]
        BY <2>7, <2>10, <3>1 DEF IdleOnce
      <3> QED
        BY <2>5, <3>1, <3>2 DEF IdleOnce
    <2> QED
      BY <2>8, <2>9, <2>10 DEF ConnectionsOnce
  <1>3. CASE idle[r] = <<>>
    <2>1. idle' = idle
      BY <1>3 DEF Take
    <2>2. PICK k \in Conns : PoolOf[k] = r /\ (\A e \in Calls : busy[e] # k) /\ busy' = [busy EXCEPT ![c] = k]
      BY <1>3 DEF Take
    <2>3. busy'[c] = k /\ \A e \in Calls \ {c} : busy'[e] = busy[e]
      BY <1>1, <2>2
    <2>4. ASSUME NEW e \in Calls PROVE HeldOnce(e)'
      BY <1>1, <2>2, <2>3 DEF SharedInv, ConnectionsOnce, HeldOnce
    <2>5. ASSUME NEW q \in Runners PROVE IdleOnce(q)'
      <3>1. IdleOnce(q)
        BY DEF SharedInv, ConnectionsOnce
      <3>2. \A i \in DOMAIN idle[q] : idle[q][i] # k
        <4>1. CASE q = r
          BY <1>3, <4>1
        <4>2. CASE q # r
          BY <2>2, <3>1, <4>2 DEF IdleOnce
        <4> QED
          BY <4>1, <4>2
      <3> QED
        BY <2>1, <2>3, <3>1, <3>2 DEF IdleOnce
    <2> QED
      BY <2>4, <2>5 DEF ConnectionsOnce
  <1> QED
    BY <1>2, <1>3

(* Who gets the lock, for the first time or again, owes one unlock more. *)
LEMMA AcquireShared ==
  ASSUME PoolsKeepAll, SharedInv, NEW c \in Calls, AcquireLock(c)
  PROVE  ConnectionsOnce' /\ Debts' /\ \A e \in Calls : Named(e)'
  <1>1. /\ pc[c] = "lock" /\ busy[c] # NoConn /\ holder \in {NoConn, busy[c]}
        /\ PutBackWith(c, busy[c], depth + 1, refused)
        /\ pc' = [pc EXCEPT ![c] = "ensure"] /\ op' = op
    BY DEF AcquireLock, Goto
  <1>2. ConnectionsOnce' /\ holder' = busy[c] /\ depth' = depth + 1
    BY <1>1, PutBackShared
  <1>3. /\ busy[c] \in Conns /\ PoolOf[busy[c]] = RunnerOf[c] /\ depth \in Nat
        /\ holder = NoConn => depth = 0
    BY <1>1, BoundAssumption DEF SharedInv, ConnectionsOnce, HeldOnce, TypeInv, PoolInv, Holders
  <1>4. MovesOne(c) /\ Named(c)'
    BY <1>1 DEF SharedInv, TypeInv, CallInv, MovesOne, Named
  <1>5. \A e \in Calls : Named(e)'
    BY <1>4 DEF SharedInv, MovesOne, Named
  <1>6. ASSUME NEW r \in Runners
        PROVE  /\ IsFiniteSet(Owing(r)') /\ Cardinality(Owing(r)') <= depth + 1
               /\ Owing(r)' # {} => r = RunnerOf[c]
    <2> DEFINE before == Owing(r)
               after == Owing(r)'
    <2>1. IsFiniteSet(before) /\ Cardinality(before) <= depth /\ Cardinality(before) \in Nat
      BY FS_CardinalityType DEF SharedInv, Debts
    <2>2. after \in SUBSET (before \cup {c})
      BY <1>4 DEF Owing, MovesOne, AfterLock
    <2>3. r # RunnerOf[c] => after = {}
      <3> SUFFICES ASSUME r # RunnerOf[c], after # {} PROVE FALSE
        OBVIOUS
      <3>1. before # {}
        BY <1>4 DEF Owing, MovesOne, AfterLock
      <3>2. holder \in Conns /\ PoolOf[holder] = r
        BY <3>1 DEF SharedInv, Debts
      <3> QED
        BY <1>1, <1>3, <3>2, PoolAssumption
    <2> HIDE DEF before, after
    <2>4. /\ IsFiniteSet(before \cup {c})
          /\ Cardinality(before \cup {c}) <= Cardinality(before) + 1
          /\ Cardinality(before \cup {c}) \in Nat
      <3>1. /\ IsFiniteSet(before \cup {c})
            /\ Cardinality(before \cup {c}) =
                 IF c \in before THEN Cardinality(before) ELSE Cardinality(before) + 1
        BY <2>1, FS_AddElement, Zenon
      <3> QED
        BY <2>1, <3>1
    <2>5. IsFiniteSet(after) /\ Cardinality(after) <= Cardinality(before \cup {c})
      BY <2>2, <2>4, FS_Subset
    <2>6. Cardinality(after) <= depth + 1
      BY <1>3, <2>1, <2>4, <2>5, FS_CardinalityType
    <2> QED
      BY <2>3, <2>5, <2>6 DEF after
  <1> QED
    BY <1>2, <1>3, <1>5, <1>6 DEF Debts

(* An unlock settles one debt and lowers the count by one at most. *)
LEMMA UnlockShared ==
  ASSUME PoolsKeepAll, SharedInv, NEW c \in Calls, Unlock(c)
  PROVE  ConnectionsOnce' /\ Debts' /\ \A e \in Calls : Named(e)'
  <1> DEFINE last == holder = busy[c] /\ depth = 1
             h == IF last THEN NoConn ELSE holder
             n == IF holder = busy[c] THEN depth - 1 ELSE depth
             kept == IF last THEN 0 ELSE refused
  <1>1. pc[c] = "unlock" /\ busy[c] # NoConn /\ PutBackWith(c, h, n, kept) /\ Return(c)
    BY DEF Unlock
  <1>2. ConnectionsOnce' /\ holder' = h /\ depth' = n
    <2> HIDE DEF h, n, kept
    <2> QED
      BY <1>1, PutBackShared
  <1>3. Settles(c) /\ pc'[c] = "idle"
    BY <1>1, LeaveSettles DEF Return, Goto, SharedInv, TypeInv, CallInv
  <1>4. c \in Owing(RunnerOf[c]) /\ RunnerOf[c] \in Runners
    BY <1>1, RunnerAssumption DEF Owing, AfterLock, SharedInv, Named, TypeInv, CallInv, OpNames
  <1>5. \A e \in Calls : Named(e)'
    BY <1>3 DEF Settles, MovesOne, Named, SharedInv
  <1>6. depth \in Nat /\ (holder = NoConn <=> depth = 0)
    BY BoundAssumption DEF SharedInv, TypeInv, PoolInv
  <1>7. holder \in Conns /\ PoolOf[holder] = RunnerOf[c]
    BY <1>4 DEF SharedInv, Debts
  <1>8. ASSUME NEW r \in Runners, r # RunnerOf[c] PROVE Owing(r)' = {}
    <2>1. Owing(r) = {}
      BY <1>7, <1>8 DEF SharedInv, Debts
    <2> QED
      BY <1>3, <2>1 DEF Owing, Settles, MovesOne, AfterLock
  <1> DEFINE before == Owing(RunnerOf[c])
             after == Owing(RunnerOf[c])'
  <1>9. after = before \ {c}
    BY <1>3, <1>4 DEF Owing, Settles, MovesOne, AfterLock
  <1>10. IsFiniteSet(before) /\ Cardinality(before) <= depth /\ Cardinality(before) \in Nat
    BY <1>4, FS_CardinalityType DEF SharedInv, Debts
  <1> HIDE DEF before, after
  <1>11. IsFiniteSet(after) /\ Cardinality(after) = Cardinality(before) - 1
    BY <1>4, <1>9, <1>10, FS_RemoveElement DEF before
  <1>12. Cardinality(after) <= n /\ n \in Nat
    BY <1>6, <1>7, <1>10, <1>11, PoolAssumption
  <1>13. after # {} => h = holder
    <2> SUFFICES ASSUME h # holder PROVE after = {}
      OBVIOUS
    <2>1. Cardinality(after) <= 0
      BY <1>6, <1>10, <1>11
    <2> QED
      BY <1>11, <2>1, FS_CardinalityType, FS_EmptySet
  <1> HIDE DEF h, n
  <1>14. ASSUME NEW r \in Runners
         PROVE  /\ IsFiniteSet(Owing(r)') /\ Cardinality(Owing(r)') <= n
                /\ Owing(r)' # {} => h \in Conns /\ PoolOf[h] = r
    <2>1. CASE r = RunnerOf[c]
      BY <1>7, <1>11, <1>12, <1>13, <2>1 DEF after
    <2>2. CASE r # RunnerOf[c]
      <3>1. Owing(r)' = {}
        BY <1>8, <2>2
      <3>2. IsFiniteSet(Owing(r)') /\ Cardinality(Owing(r)') = 0
        BY <3>1, FS_EmptySet
      <3> QED
        BY <1>12, <3>1, <3>2
    <2> QED
      BY <2>1, <2>2
  <1> QED
    BY <1>2, <1>5, <1>14 DEF Debts

LEMMA AnswerShared ==
  ASSUME PoolsKeepAll, SharedInv, NEW c \in Calls, Answer(c)
  PROVE  ConnectionsOnce' /\ Debts' /\ \A e \in Calls : Named(e)'
  <1> USE DEF PCs
  <1>1. CASE EnsureTable(c)
    BY <1>1, GotoSettles, PutBackSettles DEF EnsureTable
  <1>2. CASE CheckLoaded(c)
    <2>1. PICK l \in {"query", "read"} : Goto(c, l)
      BY <1>2 DEF CheckLoaded
    <2> QED
      BY <1>2, <2>1, GotoSettles, PoolSettles DEF CheckLoaded
  <1>3. CASE ReadFiles(c)
    BY <1>3, GotoSettles, PoolSettles DEF ReadFiles
  <1>4. CASE ReadFilesFails(c)
    BY <1>4, LeaveSettles, PoolSettles DEF ReadFilesFails
  <1>5. CASE QueryUp(c)
    <2>1. PICK l \in {"unlock", "exec"} : Goto(c, l)
      BY <1>5 DEF QueryUp
    <2> QED
      BY <1>5, <2>1, GotoSettles, PutBackSettles DEF QueryUp
  <1>6. CASE QueryPanics(c)
    BY <1>6, LeaveSettles, PutBackSettles DEF QueryPanics
  <1>7. CASE QueryStatus(c)
    BY <1>7, LeaveSettles, PutBackSettles DEF QueryStatus
  <1>8. CASE QueryDown(c)
    <2>1. PICK l \in {"unlock", "exec"} : Goto(c, l)
      BY <1>8 DEF QueryDown
    <2> QED
      BY <1>8, <2>1, GotoSettles, PutBackSettles DEF QueryDown
  <1>9. CASE Exec(c)
    BY <1>9, GotoSettles, PoolSettles DEF Exec
  <1>10. CASE NothingDeleted(c)
    BY <1>10, LeaveSettles, PutBackSettles DEF NothingDeleted
  <1>11. CASE CommitUp(c)
    <2>1. busy[c] # NoConn
      BY <1>11 DEF CommitUp, SharedInv, TypeInv, CallInv
    <2> QED
      BY <1>11, <2>1, GotoSettles, PutBackSettles DEF CommitUp
  <1>12. CASE CommitDown(c)
    <2>1. busy[c] # NoConn
      BY <1>12 DEF CommitDown, SharedInv, TypeInv, CallInv
    <2> QED
      BY <1>12, <2>1, LeaveSettles, PutBackSettles DEF CommitDown
  <1>13. CASE RecordOk(c)
    <2>1. PICK l \in {"unlock", "exec"} : Goto(c, l)
      BY <1>13 DEF RecordOk
    <2>2. op[c] = "up" /\ pc[c] = "recordOk" /\ UNCHANGED op
      BY <1>13 DEF RecordOk, SharedInv, TypeInv, CallInv, WorkOK
    <2> QED
      BY <1>13, <2>1, <2>2, GotoSettles, PutBackSettles DEF RecordOk
  <1>14. CASE RecordFail(c)
    BY <1>14, LeaveSettles, PutBackSettles DEF RecordFail
  <1>15. CASE Unlock(c)
    BY <1>15, UnlockShared
  <1> QED
    BY <1>1, <1>2, <1>3, <1>4, <1>5, <1>6, <1>7, <1>8, <1>9, <1>10, <1>11, <1>12,
       <1>13, <1>14, <1>15 DEF Answer

LEMMA CallShared ==
  ASSUME PoolsKeepAll, ConnectionsLast, SharedInv, NEW c \in Calls, CallStep(c)
  PROVE  ConnectionsOnce' /\ Debts' /\ \A e \in Calls : Named(e)'
  <1>1. ASSUME NEW o \in Ops, Start(c, o)
        PROVE  ConnectionsOnce' /\ Debts' /\ \A e \in Calls : Named(e)'
    <2>1. /\ pc[c] = "idle" /\ pc' = [pc EXCEPT ![c] = FirstStatement(o)]
          /\ op' = [op EXCEPT ![c] = o] /\ UNCHANGED poolVars
      BY <1>1 DEF Start, Goto
    <2>2. o \in {"up", "down", "status"}
      BY ChoiceAssumption
    <2>3. MovesOne(c) /\ pc'[c] = FirstStatement(o) /\ op'[c] = o
      BY <2>1 DEF MovesOne, SharedInv, TypeInv, CallInv
    <2>4. Settles(c)
      BY <2>2, <2>3 DEF Settles, AfterLock, Named, FirstStatement
    <2> QED
      BY <2>1, <2>4, PoolSettles
  <1>2. CASE Take(c)
    <2>1. UNCHANGED <<pc, op, holder, depth>>
      BY <1>2 DEF Take, callVars
    <2>2. Debts' /\ \A e \in Calls : Named(e)'
      BY <2>1 DEF SharedInv, Debts, Owing, AfterLock, Named
    <2> QED
      BY <1>2, <2>2, TakeShared
  <1>3. CASE AcquireLock(c)
    BY <1>3, AcquireShared
  <1>4. CASE Answer(c)
    BY <1>4, AnswerShared
  <1>5. CASE MigrationFails(c)
    <2>1. busy[c] # NoConn /\ PutBack(c) /\ pc[c] \in {"exec", "commit"}
      BY <1>5 DEF MigrationFails, SharedInv, TypeInv, CallInv
    <2>2. CASE Goto(c, RecordAfterFailure) /\ UNCHANGED op
      BY <2>1, <2>2, GotoSettles, PutBackSettles DEF RecordAfterFailure, PCs
    <2>3. CASE Leave(c)
      BY <2>1, <2>3, LeaveSettles, PutBackSettles
    <2> QED
      BY <1>5, <2>2, <2>3 DEF MigrationFails
  <1>6. CASE StatementFails(c)
    BY <1>6, LeaveSettles, PutBackSettles DEF StatementFails, Statements
  <1>8. CASE UnlockFails(c)
    BY <1>8, LeaveSettles, PutBackShared, DebtsSettled DEF UnlockFails
  <1>7. ~Timeout(c) /\ ~BusyDropped(c)
    BY DEF ConnectionsLast, Timeout, BusyDropped
  <1> QED
    BY <1>1, <1>2, <1>3, <1>4, <1>5, <1>6, <1>7, <1>8 DEF CallStep, Failure

(* A process that ends settles what its calls owed. *)
LEMMA RestartShared ==
  ASSUME SharedInv, NEW r \in Runners, Restart(r)
  PROVE  ConnectionsOnce' /\ Debts' /\ \A e \in Calls : Named(e)'
  <1>1. /\ \A c \in Calls : RunnerOf[c] = r => pc'[c] = "idle" /\ busy'[c] = NoConn
        /\ \A c \in Calls : RunnerOf[c] # r =>
             pc'[c] = pc[c] /\ op'[c] = op[c] /\ busy'[c] = busy[c]
        /\ idle' = [idle EXCEPT ![r] = <<>>]
        /\ holder' = (IF holder \in PoolConns(r) THEN NoConn ELSE holder)
        /\ depth' = (IF holder \in PoolConns(r) THEN 0 ELSE depth)
    BY DEF Restart, EndSessions, PoolConns
  <1>2. idle'[r] = <<>> /\ \A q \in Runners \ {r} : idle'[q] = idle[q]
    BY <1>1 DEF SharedInv, TypeInv, PoolInv
  <1>3. \A c \in Calls : HeldOnce(c)'
    BY <1>1 DEF SharedInv, ConnectionsOnce, HeldOnce
  <1>4. ASSUME NEW q \in Runners PROVE IdleOnce(q)'
    <2>1. CASE q = r
      BY <1>2, <2>1 DEF IdleOnce
    <2>2. CASE q # r
      <3>1. IdleOnce(q) /\ idle'[q] = idle[q]
        BY <1>2, <2>2 DEF SharedInv, ConnectionsOnce
      <3>2. \A i \in DOMAIN idle[q] : idle[q][i] # NoConn
        BY PoolAssumption DEF SharedInv, TypeInv, PoolInv
      <3>3. \A c \in Calls : busy'[c] = busy[c] \/ busy'[c] = NoConn
        BY <1>1
      <3> QED
        BY <3>1, <3>2, <3>3 DEF IdleOnce
    <2> QED
      BY <2>1, <2>2
  <1>5. \A c \in Calls : Named(c)'
    BY <1>1 DEF SharedInv, Named
  <1>6. Owing(r)' = {}
    BY <1>1 DEF Owing, AfterLock
  <1>7. ASSUME NEW q \in Runners, q # r PROVE Owing(q)' = Owing(q)
    BY <1>1, <1>7 DEF Owing, AfterLock
  <1>8. Debts'
    <2>1. IsFiniteSet({}) /\ Cardinality({}) = 0 /\ depth' \in Nat
      BY <1>1, FS_EmptySet, BoundAssumption DEF SharedInv, TypeInv, PoolInv
    <2>2. ASSUME NEW q \in Runners
          PROVE  /\ IsFiniteSet(Owing(q)') /\ Cardinality(Owing(q)') <= depth'
                 /\ Owing(q)' # {} => holder' \in Conns /\ PoolOf[holder'] = q
      <3>1. CASE Owing(q)' = {}
        BY <2>1, <3>1
      <3>2. CASE Owing(q)' # {}
        <4>1. q # r /\ Owing(q)' = Owing(q) /\ Owing(q) # {}
          BY <1>6, <1>7, <3>2
        <4>2. holder \in Conns /\ PoolOf[holder] = q /\ IsFiniteSet(Owing(q))
              /\ Cardinality(Owing(q)) <= depth
          BY <4>1 DEF SharedInv, Debts
        <4>3. holder' = holder /\ depth' = depth
          BY <1>1, <4>1, <4>2 DEF PoolConns
        <4> QED
          BY <4>1, <4>2, <4>3
      <3> QED
        BY <3>1, <3>2
    <2> QED
      BY <2>2 DEF Debts
  <1> QED
    BY <1>3, <1>4, <1>5, <1>8 DEF ConnectionsOnce

LEMMA SharedStep == PoolsKeepAll /\ ConnectionsLast /\ SharedInv /\ [Next]_vars => SharedInv'
  <1> SUFFICES ASSUME PoolsKeepAll, ConnectionsLast, SharedInv, [Next]_vars PROVE SharedInv'
    OBVIOUS
  <1>1. TypeInv'
    BY StepTyped DEF SharedInv
  <1>2. CASE UNCHANGED vars
    BY <1>1, <1>2
       DEF vars, callVars, poolVars, SharedInv, ConnectionsOnce, HeldOnce, IdleOnce, Debts, Owing,
           AfterLock, Named
  <1>3. ASSUME NEW r \in Runners, RunnerStep(r)
        PROVE  ConnectionsOnce' /\ Debts' /\ \A e \in Calls : Named(e)'
    <2>1. Restart(r)
      BY <1>3 DEF RunnerStep, Crash, Close, IdleDropped, ConnectionsLast
    <2> QED
      BY <2>1, RestartShared
  <1> QED
    BY <1>1, <1>2, <1>3, CallShared DEF Next, SharedInv

(* Goroutines that share a Runner do not break the exclusion between the     *)
(* processes, however their statements get at the sessions of the pool and   *)
(* whatever the server refuses or whichever process dies, as long as the     *)
(* pool keeps the connections it opens and none is lost.                     *)
THEOREM SharedRunnersExclude ==
  ASSUME PoolsKeepAll, ConnectionsLast
  PROVE  Spec => []MutualExclusion
  <1>1. Init => SharedInv
    BY SharedInit
  <1>2. SharedInv /\ [Next]_vars => SharedInv'
    BY SharedStep
  <1>3. SharedInv => MutualExclusion
    BY SharedExcludes
  <1> QED
    BY <1>1, <1>2, <1>3, PTL DEF Spec
=============================================================================
