---------------------------- MODULE MCMigration ----------------------------
(* Settings for model checking Migration.                                  *)
EXTENDS Migration

\* Both types of plan, and an operator with everything against it.
BothTypes == {"cold", "warm"}
Everything == AllDisturbances

OnlyDelete == {"Delete"}
Cold == {"cold"}
=============================================================================
