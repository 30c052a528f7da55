---------------------------- MODULE MCMigrator ----------------------------
(***************************************************************************)
(* Two deployments, three files: the second is written late, the third     *)
(* creates a table and has two statements.                                 *)
(***************************************************************************)
EXTENDS Migrator

CONSTANTS d1, d2

StatementsOf == <<<<"up">>, <<"up">>, <<"up", "up">>>>

=============================================================================
