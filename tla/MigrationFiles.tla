--------------------------- MODULE MigrationFiles ---------------------------
(***************************************************************************)
(* The pure part of Runner.loadMigrations (migrator.go): which sources are *)
(* read and in which order, which file names are migrations, and what one  *)
(* pass over them leaves in r.migrations.                                  *)
(*                                                                         *)
(* A file is a record [name, digits, ver, dir, sum]: digits is the length  *)
(* of the numeric prefix of its name, ver the number it spells, dir the    *)
(* word before ".sql", sum the checksum of its content.  A source is a     *)
(* directory or an embedded file system; a listing maps each source to the *)
(* sequence of its plain files, as fs.ReadDir returns them.                *)
(***************************************************************************)
EXTENDS Selection

NoDir == "" \* the empty string that Options.MigrationsDir defaults to

(* Mutant: repetitions are not removed. *)
NonBlankDirs(opts) ==
  SelectSeq(<<opts.dir>> \o opts.dirs, LAMBDA d : d # NoDir)

(* Explicit directories first, without blanks and repetitions. *)
UniqDirs(opts) ==
  LET dirs == <<opts.dir>> \o opts.dirs
  IN Kept(dirs, {i \in DOMAIN dirs : dirs[i] # NoDir /\ \A j \in 1..(i - 1) : dirs[j] # dirs[i]})

(* Embedded file systems come after every explicit directory. *)
Roots(opts) == UniqDirs(opts) \o opts.embedded

AllFiles(opts, listing) ==
  FlattenSeq([i \in DOMAIN Roots(opts) |-> listing[Roots(opts)[i]]])

(* fileRe: 8 to 14 digits, then the direction. *)
ParsesAsMigration(f) == f.digits \in 8..14 /\ f.dir \in {"up", "down"}

SameKey(f, g) == f.ver = g.ver /\ f.dir = g.dir

Candidates(opts, listing) ==
  LET all == AllFiles(opts, listing)
  IN Kept(all, {i \in DOMAIN all : ParsesAsMigration(all[i])})

(* Mutant: duplicates are not looked for. *)
NoDuplicates(files) == {}

(* The positions of the files whose (version, dir) was already seen in the *)
(* pass.                                                                   *)
Duplicates(files) ==
  {i \in DOMAIN files : \E j \in 1..(i - 1) : SameKey(files[i], files[j])}

(* The order of r.migrations after a complete pass. *)
FileBefore(f, g) ==
  \/ f.ver < g.ver
  \/ f.ver = g.ver /\ f.dir = "down" /\ g.dir = "up"

(* Mutant: nothing is sorted. *)
Unsorted(files) == files

(* What comes before the file at i.  Files with the same key keep their    *)
(* order, which sort.Slice does not promise: they are the same file.       *)
Earlier(files, i) ==
  {j \in DOMAIN files : \/ FileBefore(files[j], files[i])
                        \/ ~FileBefore(files[i], files[j]) /\ j < i}

Sorted(files) ==
  [k \in DOMAIN files |->
     files[CHOOSE i \in DOMAIN files : Cardinality(Earlier(files, i)) = k - 1]]

(* One pass of the collecting loop over the candidate files, starting from *)
(* the migrations already held, when reading the file at position bad      *)
(* fails (0: every read succeeds).  The loop appends as it goes and only a *)
(* pass that reaches its end sorts and reports success.                    *)
Collect(held, files, bad) ==
  LET stops == Duplicates(files) \cup ({bad} \ {0})
  IN IF stops = {}
       THEN [ok |-> TRUE, held |-> Sorted(held \o files)]
       ELSE [ok |-> FALSE, held |-> held \o SubSeq(files, 1, Min(stops) - 1)]
=============================================================================
