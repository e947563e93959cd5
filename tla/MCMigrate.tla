----------------------------- MODULE MCMigrate ------------------------------
(***************************************************************************)
(* Values of the constants of Migrate for the model checker.               *)
(***************************************************************************)
EXTENDS Migrate

CONSTANTS m1, m2, m3
=============================================================================
