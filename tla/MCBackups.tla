------------------------------ MODULE MCBackups ------------------------------
(* Apps and workers for TLC. *)
EXTENDS Backups

CONSTANT a1
=============================================================================
