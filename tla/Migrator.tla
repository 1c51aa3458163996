------------------------------- MODULE Migrator -------------------------------
(***************************************************************************)
(* migrator.Runner against PostgreSQL: calls of Up, Down and Status by the *)
(* goroutines of several processes, each process with one Runner and one   *)
(* database/sql pool, all pools on one database and one LockKey.           *)
(*                                                                         *)
(* Runner.DB is a pool: every statement takes a connection, runs and puts  *)
(* it back, so pg_advisory_lock is held by a SESSION, not by the call that *)
(* asked for it.  The model keeps the pool, the session lock, the state    *)
(* table, the schema and the unsynchronised fields of the Runner.          *)
(*                                                                         *)
(* A call is at the statement named by pc; taking a connection (Take) and  *)
(* the statement's effect with its answer are separate steps.              *)
(***************************************************************************)
EXTENDS Naturals, Sequences, FiniteSets, SequencesExt

CONSTANTS
  Runners,   \* processes, each with its Runner and its *sql.DB
  Calls,     \* goroutines that call the Runner
  RunnerOf,  \* the Runner each call uses
  Conns,     \* connections a pool may open
  PoolOf,    \* the process whose pool a connection belongs to
  MaxIdle,   \* idle connections database/sql keeps (2 unless configured)
  Versions,  \* migration versions
  Sums,      \* file checksums
  FilesOf,   \* the migration files of each Runner's sources, in load order
  AllowDown, \* runners built with AllowDangerousDown
  Ops,       \* operations the calls make
  Faults,    \* kinds of failure the environment produces
  NoConn,    \* "no connection"
  MaxCopies, \* bound: how many copies of a migration the model tells apart
  MaxDepth   \* bound: how often one session takes the re-entrant lock

FileRecords == [ver : Versions, dir : {"up", "down"}, sum : Sums]

AllFaults == {"sql", "commit", "statement", "read", "timeout", "drop", "crash"}

ASSUME RunnerAssumption == RunnerOf \in [Calls -> Runners]
ASSUME PoolAssumption == PoolOf \in [Conns -> Runners] /\ NoConn \notin Conns
ASSUME VersionAssumption == Versions \subseteq Nat
ASSUME FilesAssumption == FilesOf \in [Runners -> Seq(FileRecords)]
ASSUME BoundAssumption ==
  MaxIdle \in Nat \ {0} /\ MaxCopies \in Nat \ {0} /\ MaxDepth \in Nat \ {0}
ASSUME ChoiceAssumption ==
  AllowDown \subseteq Runners /\ Ops \subseteq {"up", "down", "status"}
    /\ Faults \subseteq AllFaults

VARIABLES
  pc,      \* the statement each call is at
  op,      \* the operation it performs
  todo,    \* copies of each version it still has to apply or revert
  busy,    \* the connection its current statement or transaction uses
  idle,    \* each pool's idle connections, most recently used last
  holder,  \* the session that holds the advisory lock
  depth,   \* how many times it holds it
  refused, \* history: how many unlocks of that session the server refused
  copies,  \* Runner.migrations: copies held of each version's up file
  loaded,  \* Runner.loaded
  table,   \* the state table, its rows ordered by applied_at
  schema   \* versions in effect, in the order their SQL committed

poolVars == <<busy, idle, holder, depth, refused>>
callVars == <<pc, op, todo>>
runnerVars == <<copies, loaded>>
dbVars == <<table, schema>>
vars == <<callVars, poolVars, runnerVars, dbVars>>

Rows == [ver : Versions, sum : Sums, ok : BOOLEAN]
PCs == {"idle", "lock", "ensure", "load", "read", "query", "exec", "commit",
        "recordOk", "recordFail", "unlock"}

TypeOK ==
  /\ pc \in [Calls -> PCs]
  /\ op \in [Calls -> {"none", "up", "down", "status"}]
  /\ todo \in [Calls -> [Versions -> 0..MaxCopies]]
  /\ busy \in [Calls -> Conns \cup {NoConn}]
  /\ idle \in [Runners -> Seq(Conns)]
  /\ holder \in Conns \cup {NoConn}
  /\ depth \in 0..MaxDepth
  /\ refused \in Nat
  /\ copies \in [Runners -> [Versions -> 0..MaxCopies]]
  /\ loaded \in [Runners -> BOOLEAN]
  /\ table \in Seq(Rows)
  /\ schema \in Seq(Versions)

NoVersions == [v \in Versions |-> 0]

Init ==
  /\ pc = [c \in Calls |-> "idle"]
  /\ op = [c \in Calls |-> "none"]
  /\ todo = [c \in Calls |-> NoVersions]
  /\ busy = [c \in Calls |-> NoConn]
  /\ idle = [r \in Runners |-> <<>>]
  /\ holder = NoConn
  /\ depth = 0
  /\ refused = 0
  /\ copies = [r \in Runners |-> NoVersions]
  /\ loaded = [r \in Runners |-> FALSE]
  /\ table = <<>>
  /\ schema = <<>>

-----------------------------------------------------------------------------
(* The Runner's files and the state table. *)

(* The files of r's sources are FilesOf[r]; a pass that meets a second file *)
(* of one (version, dir) stops with an error (MigrationFiles).              *)
HasFile(r, v, d) ==
  \E i \in DOMAIN FilesOf[r] : FilesOf[r][i].ver = v /\ FilesOf[r][i].dir = d

UpSum(r, v) ==
  (CHOOSE f \in ToSet(FilesOf[r]) : f.ver = v /\ f.dir = "up").sum

Ambiguous(r) ==
  \E i, j \in DOMAIN FilesOf[r] :
    i # j /\ FilesOf[r][i].ver = FilesOf[r][j].ver /\ FilesOf[r][i].dir = FilesOf[r][j].dir

OneMore(n) == IF n < MaxCopies THEN n + 1 ELSE n

HasRow(v) == \E i \in DOMAIN table : table[i].ver = v
Succeeded(v) == \E i \in DOMAIN table : table[i].ver = v /\ table[i].ok
RowIndex(v) == CHOOSE i \in DOMAIN table : table[i].ver = v
RowsWithout(v) == IF HasRow(v) THEN RemoveAt(table, RowIndex(v)) ELSE table
InSchema(v) == \E i \in DOMAIN schema : schema[i] = v
SchemaWithout(v) ==
  IF InSchema(v) THEN RemoveAt(schema, CHOOSE i \in DOMAIN schema : schema[i] = v)
  ELSE schema

(* Mutant: every migration held is pending, recorded or not. *)
EverythingPending(seen) == {v \in Versions : seen[v] > 0}

(* Pending and mismatching versions, given the migrations a call sees:     *)
(* pendingUp panics at the first successful row with another checksum.     *)
Pending(seen) == {v \in Versions : seen[v] > 0 /\ ~Succeeded(v)}

Mismatch(r, seen) ==
  \E i \in DOMAIN table :
    /\ table[i].ok
    /\ seen[table[i].ver] > 0
    /\ table[i].sum # UpSum(r, table[i].ver)

(* A call reads r.migrations unsynchronised: while another call of the     *)
(* Runner is still loading and sorting it, entries may be missed.          *)
Seen(c) ==
  LET r == RunnerOf[c] IN
  IF \E d \in Calls \ {c} : RunnerOf[d] = r /\ pc[d] = "read"
    THEN {[v \in Versions |-> IF v \in missed THEN 0 ELSE copies[r][v]] :
            missed \in SUBSET Versions}
    ELSE {copies[r]}

Left(c) == {v \in Versions : todo[c][v] > 0}
(* Mutant: pending sorted the other way round. *)
HighestTarget(c) == CHOOSE v \in Left(c) : \A w \in Left(c) : v >= w

Target(c) == CHOOSE v \in Left(c) : \A w \in Left(c) : v <= w

-----------------------------------------------------------------------------
(* database/sql. *)

Statements == {"lock", "ensure", "query", "exec", "recordOk", "recordFail", "unlock"}

(* A statement uses the idle connection put back last, or a new one. *)
Take(c) ==
  LET r == RunnerOf[c] IN
  /\ pc[c] \in Statements
  /\ busy[c] = NoConn
  /\ \/ /\ idle[r] # <<>>
        /\ busy' = [busy EXCEPT ![c] = Last(idle[r])]
        /\ idle' = [idle EXCEPT ![r] = Front(idle[r])]
     \/ /\ idle[r] = <<>>
        /\ \E k \in Conns :
             /\ PoolOf[k] = r
             /\ \A d \in Calls : busy[d] # k
             /\ busy' = [busy EXCEPT ![c] = k]
        /\ UNCHANGED idle
  /\ UNCHANGED <<callVars, runnerVars, dbVars, holder, depth, refused>>

(* The end of a session releases its advisory locks. *)
EndSessions(conns) ==
  /\ holder' = IF holder \in conns THEN NoConn ELSE holder
  /\ depth' = IF holder \in conns THEN 0 ELSE depth
  /\ refused' = IF holder \in conns THEN 0 ELSE refused

(* A statement has left the lock at (h, d, n).  putConn makes the           *)
(* connection idle, or closes it when the pool already keeps enough of     *)
(* them.                                                                   *)
PutBackWith(c, h, d, n) ==
  LET r == RunnerOf[c]
      keep == Len(idle[r]) < MaxIdle
      ends == ~keep /\ h = busy[c]
  IN
  /\ busy' = [busy EXCEPT ![c] = NoConn]
  /\ idle' = IF keep THEN [idle EXCEPT ![r] = Append(@, busy[c])] ELSE idle
  /\ holder' = IF ends THEN NoConn ELSE h
  /\ depth' = IF ends THEN 0 ELSE d
  /\ refused' = IF ends THEN 0 ELSE n

PutBack(c) == PutBackWith(c, holder, depth, refused)

(* The connection is closed: it broke, or pgx closed it on a cancellation. *)
Discard(c) ==
  /\ busy' = [busy EXCEPT ![c] = NoConn]
  /\ UNCHANGED idle
  /\ EndSessions({busy[c]})

Goto(c, where) == pc' = [pc EXCEPT ![c] = where]

Return(c) ==
  /\ Goto(c, "idle")
  /\ op' = [op EXCEPT ![c] = "none"]
  /\ todo' = [todo EXCEPT ![c] = NoVersions]

(* Mutant: the unlock is not deferred. *)
LeaveLocked(c) == Return(c)

(* fn returns (or panics): Up and Down run the deferred unlock, Status is  *)
(* not locked.                                                             *)
Leave(c) ==
  \/ op[c] = "status" /\ Return(c)
  \/ /\ op[c] # "status"
     /\ Goto(c, "unlock")
     /\ todo' = [todo EXCEPT ![c] = NoVersions]
     /\ UNCHANGED op

-----------------------------------------------------------------------------
(* The operations, one action per statement. *)

(* Mutant: Down forgets withLock. *)
LockUpOnly(o) == IF o = "up" THEN "lock" ELSE "ensure"

FirstStatement(o) == IF o = "status" THEN "ensure" ELSE "lock"

(* Up and Down enter withLock; Status has no lock; Down may be refused.    *)
Start(c, o) ==
  /\ pc[c] = "idle"
  /\ o = "down" => RunnerOf[c] \in AllowDown
  /\ op' = [op EXCEPT ![c] = o]
  /\ Goto(c, FirstStatement(o))
  /\ UNCHANGED <<todo, poolVars, runnerVars, dbVars>>

(* pg_advisory_lock blocks until the session gets the lock; a session that *)
(* already holds it gets it again.                                         *)
AcquireLock(c) ==
  /\ pc[c] = "lock"
  /\ busy[c] # NoConn
  /\ holder \in {NoConn, busy[c]}
  /\ depth < MaxDepth
  /\ Goto(c, "ensure")
  /\ PutBackWith(c, busy[c], depth + 1, refused)
  /\ UNCHANGED <<op, todo, runnerVars, dbVars>>

EnsureTable(c) ==
  /\ pc[c] = "ensure"
  /\ busy[c] # NoConn
  /\ PutBack(c)
  /\ Goto(c, "load")
  /\ UNCHANGED <<op, todo, runnerVars, dbVars>>

(* loadMigrations up to its test of r.loaded. *)
CheckLoaded(c) ==
  /\ pc[c] = "load"
  /\ Goto(c, IF loaded[RunnerOf[c]] THEN "query" ELSE "read")
  /\ UNCHANGED <<op, todo, poolVars, runnerVars, dbVars>>

(* A pass over the files that succeeds appends them all.  Two calls that    *)
(* load one Runner at the same time race on r.migrations: an append of one  *)
(* may overwrite an append of the other, file by file.                      *)
ReadFiles(c) ==
  LET r == RunnerOf[c]
      once == [v \in Versions |->
                IF HasFile(r, v, "up") THEN OneMore(copies[r][v]) ELSE copies[r][v]]
  IN
  /\ pc[c] = "read"
  /\ ~Ambiguous(r)
  /\ \/ ~loaded[r] /\ copies' = [copies EXCEPT ![r] = once]
     \/ /\ loaded[r]
        /\ \E again \in SUBSET Versions :
             copies' = [copies EXCEPT ![r] =
               [v \in Versions |-> IF v \in again THEN once[v] ELSE copies[r][v]]]
  /\ loaded' = [loaded EXCEPT ![r] = TRUE]
  /\ Goto(c, "query")
  /\ UNCHANGED <<op, todo, poolVars, dbVars>>

(* A pass that fails (a file cannot be read, or a duplicate) has appended  *)
(* the files before the one it stopped at.                                 *)
ReadFilesFails(c) ==
  LET r == RunnerOf[c]
      upTo(stop) == {v \in Versions : \E i \in 1..(stop - 1) :
                       FilesOf[r][i].ver = v /\ FilesOf[r][i].dir = "up"}
      dup(i) == \E j \in 1..(i - 1) :
                  FilesOf[r][i].ver = FilesOf[r][j].ver /\ FilesOf[r][i].dir = FilesOf[r][j].dir
  IN
  /\ pc[c] = "read"
  /\ \E stop \in DOMAIN FilesOf[r] :
       /\ dup(stop) \/ "read" \in Faults
       /\ \A i \in 1..(stop - 1) : ~dup(i)
       /\ copies' = [copies EXCEPT ![r] =
            [v \in Versions |->
              IF v \in upTo(stop) THEN OneMore(copies[r][v]) ELSE copies[r][v]]]
  /\ Leave(c)
  /\ UNCHANGED <<loaded, poolVars, dbVars>>

(* Up: loadApplied and pendingUp.  Nothing pending: done. *)
QueryUp(c) ==
  /\ pc[c] = "query" /\ op[c] = "up"
  /\ busy[c] # NoConn
  /\ PutBack(c)
  /\ \E seen \in Seen(c) :
       /\ ~Mismatch(RunnerOf[c], seen)
       /\ todo' = [todo EXCEPT ![c] =
            [v \in Versions |-> IF v \in Pending(seen) THEN seen[v] ELSE 0]]
       /\ Goto(c, IF Pending(seen) = {} THEN "unlock" ELSE "exec")
  /\ UNCHANGED <<op, runnerVars, dbVars>>

(* pendingUp panics in Up and in Status; the deferred unlock still runs. *)
QueryPanics(c) ==
  /\ pc[c] = "query" /\ op[c] \in {"up", "status"}
  /\ busy[c] # NoConn
  /\ \E seen \in Seen(c) : Mismatch(RunnerOf[c], seen)
  /\ PutBack(c)
  /\ Leave(c)
  /\ UNCHANGED <<runnerVars, dbVars>>

QueryStatus(c) ==
  /\ pc[c] = "query" /\ op[c] = "status"
  /\ busy[c] # NoConn
  /\ \E seen \in Seen(c) : ~Mismatch(RunnerOf[c], seen)
  /\ PutBack(c)
  /\ Leave(c)
  /\ UNCHANGED <<runnerVars, dbVars>>

(* Down: the successful row with the latest applied_at, if its down file   *)
(* is there.                                                               *)
QueryDown(c) ==
  LET latest == SelectLastInSeq(table, LAMBDA row : row.ok) IN
  /\ pc[c] = "query" /\ op[c] = "down"
  /\ busy[c] # NoConn
  /\ PutBack(c)
  /\ IF latest # 0 /\ HasFile(RunnerOf[c], table[latest].ver, "down")
       THEN /\ Goto(c, "exec")
            /\ todo' = [todo EXCEPT ![c] = [NoVersions EXCEPT ![table[latest].ver] = 1]]
       ELSE /\ Goto(c, "unlock")
            /\ UNCHANGED todo
  /\ UNCHANGED <<op, runnerVars, dbVars>>

(* A transaction that deleted the row keeps it locked until it ends. *)
RowLocked(c, v) ==
  \E d \in Calls \ {c} : pc[d] = "commit" /\ op[d] = "down" /\ Target(d) = v

(* BEGIN and the file's SQL; for Down also the DELETE of the row. *)
Exec(c) ==
  /\ pc[c] = "exec"
  /\ busy[c] # NoConn
  /\ op[c] = "down" => HasRow(Target(c)) /\ ~RowLocked(c, Target(c))
  /\ Goto(c, "commit")
  /\ UNCHANGED <<op, todo, poolVars, runnerVars, dbVars>>

(* Down finds no row to delete and rolls back. *)
NothingDeleted(c) ==
  /\ pc[c] = "exec" /\ op[c] = "down"
  /\ busy[c] # NoConn
  /\ ~HasRow(Target(c))
  /\ PutBack(c)
  /\ Leave(c)
  /\ UNCHANGED <<runnerVars, dbVars>>

ApplyCommits(v) ==
  /\ schema' = IF InSchema(v) THEN schema ELSE Append(schema, v)
  /\ UNCHANGED table

(* Mutant: the DELETE is not part of the transaction. *)
RevertKeepsRow(v) ==
  /\ schema' = SchemaWithout(v)
  /\ UNCHANGED table

RevertCommits(v) ==
  /\ schema' = SchemaWithout(v)
  /\ table' = RowsWithout(v)

CommitUp(c) ==
  /\ pc[c] = "commit" /\ op[c] = "up"
  /\ ApplyCommits(Target(c))
  /\ PutBack(c)
  /\ Goto(c, "recordOk")
  /\ UNCHANGED <<op, todo, runnerVars>>

CommitDown(c) ==
  /\ pc[c] = "commit" /\ op[c] = "down"
  /\ RevertCommits(Target(c))
  /\ PutBack(c)
  /\ Leave(c)
  /\ UNCHANGED runnerVars

NewRow(c, ok) ==
  [ver |-> Target(c), sum |-> UpSum(RunnerOf[c], Target(c)), ok |-> ok]

(* The upsert gives the row a new applied_at: it becomes the last row. *)
RecordOk(c) ==
  LET left == [todo[c] EXCEPT ![Target(c)] = @ - 1] IN
  /\ pc[c] = "recordOk"
  /\ busy[c] # NoConn
  /\ ~RowLocked(c, Target(c))
  /\ PutBack(c)
  /\ table' = Append(RowsWithout(Target(c)), NewRow(c, TRUE))
  /\ todo' = [todo EXCEPT ![c] = left]
  /\ Goto(c, IF left = NoVersions THEN "unlock" ELSE "exec")
  /\ UNCHANGED <<op, runnerVars, schema>>

(* applyOne reports the failure after recording it, and Up stops. *)
RecordFail(c) ==
  /\ pc[c] = "recordFail"
  /\ busy[c] # NoConn
  /\ ~RowLocked(c, Target(c))
  /\ PutBack(c)
  /\ table' = Append(RowsWithout(Target(c)), NewRow(c, FALSE))
  /\ Leave(c)
  /\ UNCHANGED <<runnerVars, schema>>

(* Mutant: the unlock does not care which session runs it. *)
UnlockAnySession(c) ==
  /\ pc[c] = "unlock"
  /\ busy[c] # NoConn
  /\ PutBackWith(c, NoConn, depth - 1, 0)
  /\ Return(c)
  /\ UNCHANGED <<runnerVars, dbVars>>

(* pg_advisory_unlock releases one level of the lock of ITS session; from  *)
(* another session it only warns.                                          *)
Unlock(c) ==
  LET mine == holder = busy[c]
      last == mine /\ depth = 1
  IN
  /\ pc[c] = "unlock"
  /\ busy[c] # NoConn
  /\ PutBackWith(c, IF last THEN NoConn ELSE holder,
                    IF mine THEN depth - 1 ELSE depth,
                    IF last THEN 0 ELSE refused)
  /\ Return(c)
  /\ UNCHANGED <<runnerVars, dbVars>>

-----------------------------------------------------------------------------
(* Failures. *)

(* Mutant: applyOne records a success whatever happened. *)
RecordSuccess == "recordOk"

RecordAfterFailure == "recordFail"

(* The migration's SQL fails, or the server refuses its COMMIT (a deferred *)
(* constraint): rolled back; Up records the failure.                       *)
MigrationFails(c) ==
  /\ \/ pc[c] = "exec" /\ busy[c] # NoConn /\ "sql" \in Faults
     \/ pc[c] = "commit" /\ "commit" \in Faults
  /\ PutBack(c)
  /\ \/ op[c] = "up" /\ Goto(c, RecordAfterFailure) /\ UNCHANGED <<op, todo>>
     \/ op[c] = "down" /\ Leave(c)
  /\ UNCHANGED <<runnerVars, dbVars>>

(* The server refuses another statement: fn returns its error.  withLock   *)
(* has not yet deferred the unlock when the lock statement itself fails.   *)
StatementFails(c) ==
  /\ "statement" \in Faults
  /\ pc[c] \in Statements \ {"unlock"}
  /\ busy[c] # NoConn
  /\ PutBack(c)
  /\ IF pc[c] = "lock" THEN Return(c) ELSE Leave(c)
  /\ UNCHANGED <<runnerVars, dbVars>>

(* The server refuses the unlock.  withLock drops the error and returns,   *)
(* and the connection is idle again with the lock, if it had it.           *)
UnlockFails(c) ==
  /\ "statement" \in Faults
  /\ pc[c] = "unlock"
  /\ busy[c] # NoConn
  /\ PutBackWith(c, holder, depth, IF holder = busy[c] THEN refused + 1 ELSE refused)
  /\ Return(c)
  /\ UNCHANGED <<runnerVars, dbVars>>

(* What a COMMIT or an upsert whose answer never arrives may have done. *)
UnknownEffect(c) ==
  \/ UNCHANGED dbVars
  \/ pc[c] = "commit" /\ op[c] = "up" /\ ApplyCommits(Target(c))
  \/ pc[c] = "commit" /\ op[c] = "down" /\ RevertCommits(Target(c))
  \/ /\ pc[c] \in {"recordOk", "recordFail"}
     /\ ~RowLocked(c, Target(c))
     /\ table' = Append(RowsWithout(Target(c)), NewRow(c, pc[c] = "recordOk"))
     /\ UNCHANGED schema

(* The ten minutes of withLock, or the caller's context, run out: pgx      *)
(* closes a connection in use, later statements fail before they take one. *)
(* The unlock has a context of its own and is not affected.                *)
Timeout(c) ==
  /\ "timeout" \in Faults
  /\ pc[c] \notin {"idle", "load", "read", "unlock"}
  /\ IF busy[c] = NoConn
       THEN UNCHANGED <<poolVars, dbVars>>
       ELSE Discard(c) /\ UnknownEffect(c)
  /\ IF pc[c] = "lock" THEN Return(c) ELSE Leave(c)
  /\ UNCHANGED runnerVars

(* An idle connection is lost; the pool will quietly open another. *)
IdleDropped(r) ==
  /\ "drop" \in Faults
  /\ \E i \in DOMAIN idle[r] :
       /\ idle' = [idle EXCEPT ![r] = RemoveAt(@, i)]
       /\ EndSessions({idle[r][i]})
  /\ UNCHANGED <<callVars, busy, runnerVars, dbVars>>

(* A connection is lost under a statement and the call gets an error.  A   *)
(* lost BEGIN is not recorded, lost SQL or a lost COMMIT is.               *)
BusyDropped(c) ==
  /\ "drop" \in Faults
  /\ pc[c] \in Statements \cup {"commit"}
  /\ busy[c] # NoConn
  /\ Discard(c)
  /\ UnknownEffect(c)
  /\ \/ pc[c] \in {"lock", "unlock"} /\ Return(c)
     \/ /\ op[c] = "up" /\ pc[c] \in {"exec", "commit"}
        /\ Goto(c, "recordFail")
        /\ UNCHANGED <<op, todo>>
     \/ /\ pc[c] \notin {"lock", "unlock"}
        /\ ~(op[c] = "up" /\ pc[c] = "commit")
        /\ Leave(c)
  /\ UNCHANGED runnerVars

(* The process of r ends, in the middle of anything, and starts again. *)
Restart(r) ==
  /\ pc' = [c \in Calls |-> IF RunnerOf[c] = r THEN "idle" ELSE pc[c]]
  /\ op' = [c \in Calls |-> IF RunnerOf[c] = r THEN "none" ELSE op[c]]
  /\ todo' = [c \in Calls |-> IF RunnerOf[c] = r THEN NoVersions ELSE todo[c]]
  /\ busy' = [c \in Calls |-> IF RunnerOf[c] = r THEN NoConn ELSE busy[c]]
  /\ idle' = [idle EXCEPT ![r] = <<>>]
  /\ EndSessions({k \in Conns : PoolOf[k] = r})
  /\ copies' = [copies EXCEPT ![r] = NoVersions]
  /\ loaded' = [loaded EXCEPT ![r] = FALSE]
  /\ UNCHANGED dbVars

Crash(r) == "crash" \in Faults /\ Restart(r)

(* Adapter.Close between calls, and a new Adapter later. *)
Close(r) == (\A c \in Calls : RunnerOf[c] = r => pc[c] = "idle") /\ Restart(r)

-----------------------------------------------------------------------------
Answer(c) ==
  \/ EnsureTable(c) \/ CheckLoaded(c)
  \/ ReadFiles(c) \/ ReadFilesFails(c)
  \/ QueryUp(c) \/ QueryPanics(c) \/ QueryStatus(c) \/ QueryDown(c)
  \/ Exec(c) \/ NothingDeleted(c) \/ CommitUp(c) \/ CommitDown(c)
  \/ RecordOk(c) \/ RecordFail(c) \/ Unlock(c)

Failure(c) ==
  \/ MigrationFails(c) \/ StatementFails(c) \/ UnlockFails(c)
  \/ Timeout(c) \/ BusyDropped(c)

CallStep(c) ==
  \/ \E o \in Ops : Start(c, o)
  \/ Take(c) \/ AcquireLock(c) \/ Answer(c) \/ Failure(c)

RunnerStep(r) == IdleDropped(r) \/ Crash(r) \/ Close(r)

Next == (\E c \in Calls : CallStep(c)) \/ (\E r \in Runners : RunnerStep(r))

(* Started calls keep running (the Go scheduler and the server answer);    *)
(* PostgreSQL queues the waiters of an advisory lock, so a waiter gets it  *)
(* if it keeps becoming free.  Nothing obliges anyone to call, to fail or  *)
(* to close.                                                               *)
Fairness ==
  \A c \in Calls :
    /\ WF_vars(Take(c))
    /\ WF_vars(Answer(c))
    /\ SF_vars(AcquireLock(c))

Spec == Init /\ [][Next]_vars
FairSpec == Spec /\ Fairness

-----------------------------------------------------------------------------
(* Properties. *)

(* Between getting the lock and starting to release it. *)
InLockedRegion(c) ==
  op[c] \in {"up", "down"} /\ pc[c] \notin {"idle", "lock", "unlock"}

(* Two processes are never inside withLock's function at once, although    *)
(* the lock belongs to a session and every statement of the function goes  *)
(* through a pool that may use another one.                                *)
MutualExclusion ==
  \A c, d \in Calls :
    InLockedRegion(c) /\ InLockedRegion(d) => RunnerOf[c] = RunnerOf[d]

(* A process none of whose calls is running holds the lock exactly as often *)
(* as the server refused an unlock of the session: every error path, panic  *)
(* and timeout of withLock has asked for the release, on the session that   *)
(* has the lock, so that nothing but such a refusal, whose error the code   *)
(* drops (migrator.go:365), shuts the next deployment out.                  *)
RefusalOnlyLeaks ==
  \A r \in Runners :
    (\A c \in Calls : RunnerOf[c] = r => pc[c] = "idle")
      => (holder \in {k \in Conns : PoolOf[k] = r} => depth = refused)

(* The state table marks a version successful exactly when its SQL is in   *)
(* effect, except between applyOne's Commit and its record.                *)
TableTellsSchema ==
  \A v \in Versions :
    InSchema(v) <=> Succeeded(v) \/ \E c \in Calls : pc[c] = "recordOk" /\ Target(c) = v

(* Whatever fails, a version marked successful is in effect: record(true)  *)
(* follows the commit, and revertOne deletes the row in the transaction    *)
(* that undoes the schema.                                                 *)
RecordSound == \A v \in Versions : Succeeded(v) => InSchema(v)

(* When every build ships the same files, the successful versions are an   *)
(* initial segment of them, whatever fails: an Up stops at the first       *)
(* failure and a Down takes the version applied last.                      *)
NoGaps ==
  \A v, w \in Versions :
    (Succeeded(w) /\ v < w /\ \A r \in Runners : HasFile(r, v, "up")) => Succeeded(v)

(* A successful row changes only by the deletion of a Down that commits:   *)
(* no later record, of success or of failure, overwrites it, so the        *)
(* checksum it was applied with is kept for the comparison in pendingUp.   *)
SuccessIsKept ==
  [][\A i \in DOMAIN table :
       table[i].ok =>
         \/ \E j \in DOMAIN table' : table'[j] = table[i]
         \/ \E c \in Calls :
              pc[c] = "commit" /\ op[c] = "down" /\ Target(c) = table[i].ver /\ pc'[c] # "commit"]_vars

(* Up never commits the SQL of a version that is already in effect. *)
AppliedOnce ==
  [][\A c \in Calls :
       (pc[c] = "commit" /\ op[c] = "up" /\ pc'[c] = "recordOk") => ~InSchema(Target(c))]_vars

(* What all of it implements: apply the smallest missing version of the    *)
(* build, revert the last one applied.                                     *)
Ledger == INSTANCE SchemaLedger WITH
  stack <- schema,
  Catalogs <- {{v \in Versions : HasFile(r, v, "up")} : r \in Runners}

ImplementsLedger == Ledger!Spec

(* Every call returns: nobody waits for the lock for ever. *)
CallsReturn == \A c \in Calls : (pc[c] # "idle") ~> (pc[c] = "idle")

(* Comment at migrator.go:21: the Runner executes migrations               *)
(* transactionally and records state.  When no call is at work, what is in *)
(* effect is recorded as successful.                                       *)
AppliedIsRecorded ==
  (\A c \in Calls : pc[c] = "idle") => \A v \in Versions : InSchema(v) => Succeeded(v)
=============================================================================
