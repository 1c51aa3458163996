--------------------------- MODULE MCMigrationLoader ---------------------------
(* Instances of MigrationLoader. *)
EXTENDS MigrationLoader, MigrationSamples
=============================================================================
