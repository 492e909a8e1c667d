--------------------------- MODULE MCTaskExecution ---------------------------
(* Instance of TaskExecution for TLC; its configurations set the faults.   *)
EXTENDS TaskExecution
=============================================================================
