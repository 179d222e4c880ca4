------------------------------ MODULE MCMigration ------------------------------
(***************************************************************************)
(* Instance of Migration: two workflows, of which one may start or end     *)
(* while the other migrates, and one deployment that may be gone.          *)
(***************************************************************************)
EXTENDS Migration

Both == {"migration", "cleanup"}
=============================================================================
