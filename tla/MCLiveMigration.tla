-------------------------- MODULE MCLiveMigration ---------------------------
(***************************************************************************)
(* Small instances of LiveMigration; pages are interchangeable.            *)
(***************************************************************************)
EXTENDS LiveMigration

=============================================================================
