------------------------------- MODULE Queries -------------------------------
(***************************************************************************)
(* GET /api/v1/research/{task_id}, its /status and its /report: the        *)
(* queries of src/src/api/routers/research.py.  The last one reads the     *)
(* task row and then, in a second statement, the report row; executions go *)
(* on between the two.  One client polls each task for its status and its  *)
(* report, in any order, and asks for the report again when answered.      *)
(***************************************************************************)
EXTENDS TaskModel

CONSTANTS
  TaskIds,
  Watchers  \* bound: the tasks whose client asks for the status as well

VARIABLES
  tasks,    \* table "tasks"
  created,  \* the tasks whose row is committed
  reports,  \* table "reports": the tasks that have a report row
  reading,  \* the tasks whose handler is about to read the report row
  answer,   \* the last answer to the client of each task
  shown     \* the status the client of each task was last shown

(* 404t and 404r are the answers "Task not found" and "Report not found".  *)
Answers == {"none", "404t", "425", "409", "404r", "200"}

QueriesTypeOK ==
  /\ reading \in SUBSET TaskIds
  /\ answer \in [TaskIds -> Answers]
  /\ shown \in [TaskIds -> {"none", "404t"} \union Statuses]

QueriesInit ==
  /\ reading = {}
  /\ answer = [t \in TaskIds |-> "none"]
  /\ shown = [t \in TaskIds |-> "none"]

(* get_research_status and get_research_task: one read of the row.  Of     *)
(* what it shows the status is kept.  A client that waits for the answer   *)
(* about the report asks nothing else.                                     *)
ReadStatus(t) ==
  /\ t \in Watchers \ reading
  /\ shown' = [shown EXCEPT ![t] = IF t \in created THEN tasks[t].status ELSE "404t"]
  /\ UNCHANGED <<reading, answer>>

Answer(t, code) == answer' = [answer EXCEPT ![t] = code]

(* get_task, and the answers that do not need the report.                  *)
AnswerForTask(t) ==
  /\ t \notin reading
  /\ \/ t \notin created /\ Answer(t, "404t")
     \/ t \in created /\ tasks[t].status = "failed" /\ Answer(t, "409")
     \/ t \in created /\ ~Terminal(tasks[t]) /\ Answer(t, "425")
  /\ UNCHANGED <<reading, shown>>

(* get_task: the task is completed.                                        *)
FindCompleted(t) ==
  /\ t \notin reading
  /\ t \in created /\ tasks[t].status = "completed"
  /\ reading' = reading \union {t}
  /\ UNCHANGED <<answer, shown>>

(* Mutant of ReadReport: a report that is not stored yet is too early.     *)
ReadReportTooEarly(t) ==
  /\ t \in reading
  /\ Answer(t, IF t \in reports THEN "200" ELSE "425")
  /\ reading' = reading \ {t}
  /\ UNCHANGED shown

(* get_report.                                                             *)
ReadReport(t) ==
  /\ t \in reading
  /\ Answer(t, IF t \in reports THEN "200" ELSE "404r")
  /\ reading' = reading \ {t}
  /\ UNCHANGED shown

QueriesNext ==
  /\ \E t \in TaskIds :
       ReadStatus(t) \/ AnswerForTask(t) \/ FindCompleted(t) \/ ReadReport(t)
  /\ UNCHANGED <<tasks, created, reports>>
=============================================================================
