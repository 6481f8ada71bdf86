----------------------------- MODULE MCMigration -----------------------------
(* Model values for Migration.                                              *)
EXTENDS Migration
CONSTANTS a1, a2, a3
=============================================================================
