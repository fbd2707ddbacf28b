-------------------------- MODULE MCTaskAccounting --------------------------
(* Small instances of TaskAccounting for TLC. *)
EXTENDS TaskAccounting

CONSTANTS t1, t2

AllActive == Worker
=============================================================================
