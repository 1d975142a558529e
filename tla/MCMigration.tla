---------------------------- MODULE MCMigration ----------------------------
(* The instances of Migration that TLC checks. *)
EXTENDS Migration

=============================================================================
