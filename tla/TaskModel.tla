------------------------------ MODULE TaskModel ------------------------------
(***************************************************************************)
(* The row of table "tasks" and the operations on it that every component  *)
(* shares: src/src/models/task.py, the stage mapping of the public API and *)
(* the column-wise UPDATE that crud/tasks.py::update_task issues.          *)
(*                                                                         *)
(* Four columns are kept: status, stage, whether error is set, and         *)
(* iterations_used.  The request columns never change after the INSERT;    *)
(* the other progress counters and the timestamps are written together     *)
(* with iterations_used and are read by nobody but the status endpoint.    *)
(***************************************************************************)
EXTENDS Naturals

Statuses == {"pending", "running", "completed", "failed"}

Stages == {"planning", "search", "analysis", "report", "done", "error"}

Rows == [status : Statuses, stage : Stages, error : BOOLEAN, iterations : Nat]

(* What the column defaults of ResearchTask and ResearchTaskCreate give.   *)
NewRow ==
  [status |-> "pending", stage |-> "planning", error |-> FALSE, iterations |-> 0]

(* Stage names of the public API, docs/api.md section 3.2.                 *)
ApiStages ==
  {"queued", "planner", "search", "analysis", "report", "completed", "failed"}

(* _stage_for_api: the status decides for every task that is not running.  *)
RunningStage ==
  [planning |-> "planner", search |-> "search",
   analysis |-> "analysis", report |-> "report"]

StageForApi(row) ==
  CASE row.status = "pending"   -> "queued"
    [] row.status = "failed"    -> "failed"
    [] row.status = "completed" -> "completed"
    [] row.status = "running"   -> IF row.stage \in DOMAIN RunningStage
                                   THEN RunningStage[row.stage]
                                   ELSE "queued"

(***************************************************************************)
(* The UPDATE of update_task.  The session compares the object it loaded   *)
(* with the values set on it and sends only the columns that differ, so a  *)
(* column another session has changed meanwhile keeps that session's value *)
(* when this one sees no net change.                                       *)
(***************************************************************************)
Changed(stored, loaded, wanted) == IF wanted = loaded THEN stored ELSE wanted

Flush(stored, loaded, wanted) ==
  [status     |-> Changed(stored.status, loaded.status, wanted.status),
   stage      |-> Changed(stored.stage, loaded.stage, wanted.stage),
   error      |-> Changed(stored.error, loaded.error, wanted.error),
   iterations |-> Changed(stored.iterations, loaded.iterations,
                          wanted.iterations)]

Terminal(row) == row.status \in {"completed", "failed"}
=============================================================================
