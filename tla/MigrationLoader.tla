--------------------------- MODULE MigrationLoader ---------------------------
(***************************************************************************)
(* One Runner's loadMigrations as a component: the Runner keeps the        *)
(* migrations it has collected and a flag saying the load completed.  Up,  *)
(* Down and Status call it each time; it returns at once when loaded.      *)
(***************************************************************************)
EXTENDS MigrationFiles

CONSTANTS
  AllOptions,  \* the Options values a Runner may be built with
  AllListings, \* contents the sources may have: functions from sources to files
  Unreadable,  \* sources whose directory cannot be read
  ReadsFail,   \* TRUE when reading a single file may fail
  MaxHeld      \* bound: no load is retried on a Runner holding this many files

(* Each source of a Runner lists files, whose versions are numbers. *)
AnyFile == [name : STRING, digits : Nat, ver : Nat, dir : STRING, sum : STRING]
ConstantsOK ==
  \A o \in AllOptions :
    /\ o.dir \in STRING /\ o.dirs \in Seq(STRING) /\ o.embedded \in Seq(STRING)
    /\ \A x \in AllListings, s \in ToSet(Roots(o)) : x[s] \in Seq(AnyFile)

VARIABLES
  opts,     \* Runner.Opts, fixed by New
  listing,  \* the files in the sources, fixed
  held,     \* Runner.migrations
  loaded,   \* Runner.loaded
  result    \* what the last call returned: "none", "ok" or "error"

vars == <<opts, listing, held, loaded, result>>

Files == Candidates(opts, listing)

TypeOK ==
  /\ opts \in AllOptions
  /\ listing \in AllListings
  /\ \A i \in DOMAIN held : \E j \in DOMAIN Files : held[i] = Files[j]
  /\ loaded \in BOOLEAN
  /\ result \in {"none", "ok", "error"}
  /\ result = "ok" <=> loaded

(* New: nothing is read before the first operation. *)
Init ==
  /\ opts \in AllOptions
  /\ listing \in AllListings
  /\ held = <<>>
  /\ loaded = FALSE
  /\ result = "none"

AlreadyLoaded ==
  /\ loaded
  /\ result' = "ok"
  /\ UNCHANGED <<opts, listing, held, loaded>>

NoSource ==
  /\ ~loaded
  /\ Roots(opts) = <<>>
  /\ result' = "error"
  /\ UNCHANGED <<opts, listing, held, loaded>>

(* Every directory is listed before any file is read. *)
ReadDirFails ==
  /\ ~loaded
  /\ \E i \in DOMAIN Roots(opts) : Roots(opts)[i] \in Unreadable
  /\ result' = "error"
  /\ UNCHANGED <<opts, listing, held, loaded>>

(* Mutant: r.loaded is set before the pass. *)
AlwaysLoaded(pass) == TRUE

Completed(pass) == pass.ok

ReadFiles ==
  /\ ~loaded
  /\ Roots(opts) # <<>>
  /\ \A i \in DOMAIN Roots(opts) : Roots(opts)[i] \notin Unreadable
  /\ Len(held) < MaxHeld
  /\ \E bad \in {0} \cup (IF ReadsFail THEN DOMAIN Files ELSE {}) :
       LET pass == Collect(held, Files, bad)
       IN /\ held' = pass.held
          /\ loaded' = Completed(pass)
          /\ result' = IF pass.ok THEN "ok" ELSE "error"
  /\ UNCHANGED <<opts, listing>>

Next == AlreadyLoaded \/ NoSource \/ ReadDirFails \/ ReadFiles

Spec == Init /\ [][Next]_vars

-----------------------------------------------------------------------------
(* The first load of a Runner, when it succeeds, leaves it with every       *)
(* migration file of its sources exactly once, in version order with each   *)
(* down before its up: what pendingUp and find walk over.                   *)
LoadIsExact ==
  [][(held = <<>> /\ ~loaded /\ loaded') =>
       /\ Len(held') = Len(Files)
       /\ ToSet(held') = ToSet(Files)
       /\ \A i, j \in DOMAIN held' : i < j => FileBefore(held'[i], held'[j])]_vars

(* Two files that claim the same version and direction, in one source or   *)
(* in two, must never yield a usable set of migrations: which of them runs *)
(* would depend on the order of the sources.  This is what loadMigrations  *)
(* does (446); the comment on Options.MigrationsDirs (35-36) has the later *)
(* of two files with one name override the earlier, which no code does.    *)
AmbiguityIsRefused ==
  (\E i, j \in DOMAIN Files : i # j /\ SameKey(Files[i], Files[j])) => ~loaded

(* A directory named twice, in MigrationsDir and in MigrationsDirs or twice *)
(* in the latter, is read once: naming it again never makes a load fail     *)
(* with a duplicate that the files themselves do not have.                  *)
RepetitionIsHarmless ==
  LET sources == ToSet(UniqDirs(opts))
      clash(s, i, t, j) ==
        /\ <<s, i>> # <<t, j>>
        /\ ParsesAsMigration(listing[s][i]) /\ ParsesAsMigration(listing[t][j])
        /\ SameKey(listing[s][i], listing[t][j])
      clashes == \E s, t \in sources :
                   \E i \in DOMAIN listing[s], j \in DOMAIN listing[t] : clash(s, i, t, j)
  IN (opts.embedded = <<>> /\ ~clashes) => Duplicates(Files) = {}

(* Comment at migrator.go:437: duplicate (version, dir) pairs are detected *)
(* (so a loaded Runner holds each pair once).                              *)
DuplicatesDetected ==
  loaded => \A i, j \in DOMAIN held : i # j => ~SameKey(held[i], held[j])
=============================================================================
