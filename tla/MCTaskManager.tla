--------------------------- MODULE MCTaskManager ----------------------------
(* TaskManager for TLC.  No symmetry: its run checks a liveness property. *)
EXTENDS TaskManager
=============================================================================
