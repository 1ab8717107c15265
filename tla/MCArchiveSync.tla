---------------------------- MODULE MCArchiveSync ----------------------------
(***************************************************************************)
(* TLC instance of ArchiveSync: one row of each kind, two to a batch.      *)
(***************************************************************************)
EXTENDS ArchiveSync
=============================================================================
