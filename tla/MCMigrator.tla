----------------------------- MODULE MCMigrator -----------------------------
(* Instances of Migrator. *)
EXTENDS Migrator

CONSTANTS r1, r2, c1, c2, c3, k1, k2, k3, s, t

File(ver, dir, sum) == [ver |-> ver, dir |-> dir, sum |-> sum]

(* Two builds: both ship 1, only one of them with its down file; 2 is new    *)
(* and older than 3, which was edited in between.                            *)
OldBuild == <<File(1, "down", s), File(1, "up", s), File(3, "down", s), File(3, "up", s)>>
NewBuild == <<File(1, "up", s), File(2, "down", s), File(2, "up", s), File(3, "up", t)>>
McBuilds == (r1 :> OldBuild) @@ (r2 :> NewBuild)

(* One build everywhere. *)
Build == <<File(1, "down", s), File(1, "up", s), File(2, "down", s), File(2, "up", s)>>
McSameBuild == [r \in Runners |-> Build]
McTinyBuild == [r \in Runners |-> <<File(1, "down", s), File(1, "up", s)>>]

(* These are what MigrationFiles selects from directories that also hold     *)
(* files which are not migrations.                                           *)
Sources == INSTANCE MigrationFiles
Plain(files) == [i \in DOMAIN files |-> File(files[i].ver, files[i].dir, files[i].sum)]
OnDisk(files) ==
  <<[digits |-> 3, ver |-> 7, dir |-> "up", sum |-> s]>> \o
    [i \in DOMAIN files |-> files[i] @@ ("digits" :> 8)]
Selected(files) ==
  Plain(Sources!Candidates([dir |-> "d", dirs |-> <<"d">>, embedded |-> <<>>], "d" :> OnDisk(files)))
ASSUME \A b \in {OldBuild, NewBuild, Build} : Selected(b) = b

(* One call and one connection per process. *)
McPrivateCalls == (c1 :> r1) @@ (c2 :> r2)
McPrivatePools == (k1 :> r1) @@ (k2 :> r2)

(* Two calls share the Runner and the pool of r1. *)
McSharedCalls == (c1 :> r1) @@ (c2 :> r1) @@ (c3 :> r2)
McSharedPools == (k1 :> r1) @@ (k2 :> r1) @@ (k3 :> r2)

(* A process alone. *)
McOneCall == c1 :> r1
McOnePool == k1 :> r1
=============================================================================
