---------------------------- MODULE TaskExecution ----------------------------
(***************************************************************************)
(* The Celery workers that execute research tasks:                         *)
(* src/src/tasks/research_task.py with the functions of src/src/crud it    *)
(* calls, over table "tasks", table "reports" and the broker's queue.      *)
(*                                                                         *)
(* One execution is one call of _execute_research_task: it has one         *)
(* database session, whose copy of the task row is "cached".  A step of    *)
(* the model is the code between two awaits that reach the database, the   *)
(* broker or an agent, so executions interleave there.  update_task takes  *)
(* two of them, its commit and its refresh.                                *)
(*                                                                         *)
(* The workflow is followed node by node along the edges of Routing; what  *)
(* search and analysis find is chosen when the route is taken, as no pass  *)
(* keeps the data of the one before (see ResearchGraph).                   *)
(***************************************************************************)
EXTENDS TaskModel, Routing, FiniteSets

CONSTANTS
  TaskIds,         \* ids of the task rows
  Workers,         \* worker processes
  NoTask,          \* the task of an idle worker
  Faults,          \* the kinds of fault that may happen, see FaultKinds
  MaxRedeliveries  \* bound on the copies of messages the broker redelivers

(* crash: a worker process dies.  db: a database call raises.  refresh: no *)
(* connection can be had for a refresh inside the try statement, whose     *)
(* commit has given the last one back.  build: build_graph raises.  node:  *)
(* the workflow raises.  redis: update_state raises.                       *)
FaultKinds == {"crash", "db", "refresh", "build", "node", "redis"}

ASSUME NoTaskAssumption == NoTask \notin TaskIds
ASSUME FaultsAssumption == Faults \subseteq FaultKinds
ASSUME MaxRedeliveriesAssumption == MaxRedeliveries \in Nat

VARIABLES
  tasks,        \* table "tasks": the committed row of each task
  reports,      \* table "reports": the tasks that have a report row
  queue,        \* copies of each task's message that no worker has started
  redelivered,  \* copies the broker has made so far
  ex            \* the execution each worker is busy with

vars == <<tasks, reports, queue, redelivered, ex>>

(* Where an execution stands: the call it makes next.                      *)
Points ==
  {"idle", "load", "mark", "marked", "node", "persist", "persisted",
   "final", "finalized", "save", "saved", "reload", "except"}

Executions ==
  [pc        : Points,
   task      : TaskIds \union {NoTask},
   cached    : Rows,       \* the session's copy of the task row
   node      : Nodes,      \* the node of the workflow being run
   iteration : Nat,        \* state["search_iteration"]
   seen      : BOOLEAN,    \* upsert_report has found a report row
   poisoned  : BOOLEAN]    \* the session needs a rollback nobody issues

Idle ==
  [pc |-> "idle", task |-> NoTask, cached |-> NewRow, node |-> "planner",
   iteration |-> 0, seen |-> FALSE, poisoned |-> FALSE]

TypeOK ==
  /\ tasks \in [TaskIds -> Rows]
  /\ reports \in SUBSET TaskIds
  /\ queue \in [TaskIds -> Nat]
  /\ redelivered \in 0..MaxRedeliveries
  /\ ex \in [Workers -> Executions]
  /\ \A w \in Workers : ex[w].pc # "idle" => ex[w].task \in TaskIds

(* Every request has been accepted: its row is committed, its message sent.*)
Init ==
  /\ tasks = [t \in TaskIds |-> NewRow]
  /\ reports = {}
  /\ queue = [t \in TaskIds |-> 1]
  /\ redelivered = 0
  /\ ex = [w \in Workers |-> Idle]

At(w, point) == ex[w].pc = point

GoTo(w, point) == ex' = [ex EXCEPT ![w].pc = point]

(* The session is closed and the worker takes its next message.            *)
Finish(w) == ex' = [ex EXCEPT ![w] = Idle]

(* Mutant of StageOfNode: the node's name is stored as the stage.          *)
StageIsNode ==
  [planner |-> "planner", search |-> "search",
   analysis |-> "analysis", report |-> "report"]

(* The stage that persist_progress stores for each node.                   *)
StageOfNode ==
  [planner |-> "planning", search |-> "search",
   analysis |-> "analysis", report |-> "report"]

(* The row as each of the four functions wants it: the attributes that     *)
(* update_task sets on the session's object.  First, mark_task_running.    *)
WantedRunning(e) ==
  [e.cached EXCEPT !.status = "running", !.stage = "planning", !.error = FALSE]

(* Mutant of WantedProgress: the iterations are only written at the end.   *)
WantedStageOnly(e) == [e.cached EXCEPT !.stage = StageOfNode[e.node]]

(* persist_progress                                                        *)
WantedProgress(e) ==
  [e.cached EXCEPT !.stage = StageOfNode[e.node], !.iterations = e.iteration]

(* Mutant of WantedFinal: a row that is already failed is left alone.      *)
WantedFinalUnlessFailed(e) ==
  IF e.cached.status = "failed" THEN e.cached
  ELSE [e.cached EXCEPT !.status = "completed", !.stage = "done",
                        !.error = FALSE, !.iterations = e.iteration]

(* persist_final_state                                                     *)
WantedFinal(e) ==
  [e.cached EXCEPT !.status = "completed", !.stage = "done",
                   !.error = FALSE, !.iterations = e.iteration]

(* Mutant of WantedFailed: the stage is left where the failure struck.     *)
WantedFailedInStage(e) == [e.cached EXCEPT !.status = "failed", !.error = TRUE]

(* mark_task_failed                                                        *)
WantedFailed(e) ==
  [e.cached EXCEPT !.status = "failed", !.stage = "error", !.error = TRUE]

Wanted(e) ==
  CASE e.pc = "mark"    -> WantedRunning(e)
    [] e.pc = "persist" -> WantedProgress(e)
    [] e.pc = "final"   -> WantedFinal(e)
    [] e.pc = "except"  -> WantedFailed(e)

(* What the commit of update_task does to the table.                       *)
Write(w) ==
  tasks' = [tasks EXCEPT ![ex[w].task] =
              Flush(@, ex[w].cached, Wanted(ex[w]))]

(* The commit, and the session's object as the commit leaves it.           *)
Commit(w, point) ==
  /\ Write(w)
  /\ ex' = [ex EXCEPT ![w].cached = Wanted(ex[w]), ![w].pc = point]

(* The refresh of update_task: the row as committed by anyone.             *)
Refresh(w) == tasks[ex[w].task]
-----------------------------------------------------------------------------
(* The broker restores a message that has been prefetched but not started  *)
(* within the visibility timeout; the worker that holds it starts it too.  *)
Redeliver(t) ==
  /\ queue[t] > 0
  /\ redelivered < MaxRedeliveries
  /\ queue' = [queue EXCEPT ![t] = @ + 1]
  /\ redelivered' = redelivered + 1
  /\ UNCHANGED <<tasks, reports, ex>>

(* A message is acknowledged before its execution starts (Celery's default *)
(* acks_late=False).                                                       *)
Receive(w, t) ==
  /\ At(w, "idle")
  /\ queue[t] > 0
  /\ queue' = [queue EXCEPT ![t] = @ - 1]
  /\ ex' = [ex EXCEPT ![w] = [Idle EXCEPT !.pc = "load", !.task = t]]
  /\ UNCHANGED <<tasks, reports, redelivered>>

(* Mutant of Load: mark_task_running is not called.                        *)
LoadUnmarked(w) ==
  /\ At(w, "load")
  /\ ex' = [ex EXCEPT ![w].cached = tasks[ex[w].task], ![w].pc = "marked"]
  /\ UNCHANGED <<tasks, reports, queue, redelivered>>

(* get_task; rows are committed before their message is sent and no caller *)
(* deletes them, so the row is there.                                      *)
Load(w) ==
  /\ At(w, "load")
  /\ ex' = [ex EXCEPT ![w].cached = tasks[ex[w].task], ![w].pc = "mark"]
  /\ UNCHANGED <<tasks, reports, queue, redelivered>>

(* mark_task_running, whatever the status of the row is.                   *)
MarkRunning(w) ==
  /\ At(w, "mark")
  /\ Commit(w, "marked")
  /\ UNCHANGED <<reports, queue, redelivered>>

(* Refresh of mark_task_running, initial state, build_graph.               *)
BuildGraph(w) ==
  /\ At(w, "marked")
  /\ ex' = [ex EXCEPT ![w].cached = Refresh(w), ![w].pc = "node"]
  /\ UNCHANGED <<tasks, reports, queue, redelivered>>

(* build_graph is called before the try statement: nobody marks the task.  *)
BuildRaises(w) ==
  /\ "build" \in Faults
  /\ At(w, "marked")
  /\ Finish(w)
  /\ UNCHANGED <<tasks, reports, queue, redelivered>>

(* One node of the workflow runs and astream yields its update.            *)
RunNode(w) ==
  /\ At(w, "node")
  /\ ex' = [ex EXCEPT ![w].pc = "persist",
                      ![w].iteration = IF ex[w].node = "search" THEN @ + 1 ELSE @]
  /\ UNCHANGED <<tasks, reports, queue, redelivered>>

(* Mutant of NodeRaises: the workflow runs outside the try statement.      *)
NodeRaisesUnhandled(w) ==
  /\ "node" \in Faults
  /\ At(w, "node")
  /\ ex[w].node \in {"planner", "search", "report"}
  /\ Finish(w)
  /\ UNCHANGED <<tasks, reports, queue, redelivered>>

(* planner, search and report may raise; the recursion limit may strike    *)
(* before any node and, once no node is left, before astream ends.         *)
NodeRaises(w) ==
  /\ "node" \in Faults
  /\ At(w, "node") \/ At(w, "final")
  /\ GoTo(w, "except")
  /\ UNCHANGED <<tasks, reports, queue, redelivered>>

(* Mutant of PersistProgress: the report is stored as soon as it is there. *)
PersistProgressAndReport(w) ==
  /\ At(w, "persist")
  /\ Commit(w, "persisted")
  /\ reports' = IF ex[w].node = "report" THEN reports \union {ex[w].task}
                 ELSE reports
  /\ UNCHANGED <<queue, redelivered>>

(* persist_progress after each node.                                       *)
PersistProgress(w) ==
  /\ At(w, "persist")
  /\ Commit(w, "persisted")
  /\ UNCHANGED <<reports, queue, redelivered>>

(* Where the workflow may go, over everything a pass can have found.       *)
After(n, iteration) ==
  {NextNode(n, iteration, found[1], found[2]) :
     found \in {f \in (0..MinFindings + 1) \X (0..MinFindings + 1) : f[2] <= f[1]}}

(* Refresh of persist_progress, update_state(PROGRESS), and on to the next *)
(* node or out of the loop.                                                *)
PublishProgress(w) ==
  /\ At(w, "persisted")
  /\ \E next \in After(ex[w].node, ex[w].iteration) :
       ex' = [ex EXCEPT ![w].cached = Refresh(w),
                        ![w].pc = IF next = "end" THEN "final" ELSE "node",
                        ![w].node = IF next = "end" THEN @ ELSE next]
  /\ UNCHANGED <<tasks, reports, queue, redelivered>>

(* The result backend is unreachable.                                      *)
PublishRaises(w) ==
  /\ "redis" \in Faults
  /\ At(w, "persisted")
  /\ ex' = [ex EXCEPT ![w].cached = Refresh(w), ![w].pc = "except"]
  /\ UNCHANGED <<tasks, reports, queue, redelivered>>

(* persist_final_state, first half: the task is completed and committed.   *)
PersistFinal(w) ==
  /\ At(w, "final")
  /\ Commit(w, "finalized")
  /\ UNCHANGED <<reports, queue, redelivered>>

(* Its refresh, and the db.get of upsert_report.                           *)
LookUpReport(w) ==
  /\ At(w, "finalized")
  /\ ex' = [ex EXCEPT ![w].cached = Refresh(w),
                      ![w].seen = ex[w].task \in reports,
                      ![w].pc = "save"]
  /\ UNCHANGED <<tasks, reports, queue, redelivered>>

(* upsert_report commits an INSERT or an UPDATE.                           *)
SaveReport(w) ==
  /\ At(w, "save")
  /\ ex[w].seen \/ ex[w].task \notin reports
  /\ reports' = reports \union {ex[w].task}
  /\ GoTo(w, "saved")
  /\ UNCHANGED <<tasks, queue, redelivered>>

(* Its refresh, after which the execution is over.                         *)
RefreshReport(w) ==
  /\ At(w, "saved")
  /\ Finish(w)
  /\ UNCHANGED <<tasks, reports, queue, redelivered>>

(* The INSERT meets a row another execution has inserted since the lookup. *)
SaveReportConflict(w) ==
  /\ At(w, "save")
  /\ ~ex[w].seen /\ ex[w].task \in reports
  /\ ex' = [ex EXCEPT ![w].pc = "except", ![w].poisoned = TRUE]
  /\ UNCHANGED <<tasks, reports, queue, redelivered>>

(* The except clause: get_task reads a row whose refresh has failed anew.  *)
Reload(w) ==
  /\ At(w, "reload")
  /\ ex' = [ex EXCEPT ![w].cached = tasks[ex[w].task], ![w].pc = "except"]
  /\ UNCHANGED <<tasks, reports, queue, redelivered>>

(* Mutant of MarkFailed: the try statement is inside the loop over the     *)
(* nodes, and the workflow goes on.                                        *)
MarkFailedAndGoOn(w) ==
  /\ At(w, "except")
  /\ ~ex[w].poisoned
  /\ Commit(w, "node")
  /\ UNCHANGED <<reports, queue, redelivered>>

(* update_task of mark_task_failed, on the session of the execution.       *)
MarkFailed(w) ==
  /\ At(w, "except")
  /\ ~ex[w].poisoned
  /\ Write(w)
  /\ Finish(w)
  /\ UNCHANGED <<reports, queue, redelivered>>

(* mark_task_failed raises: the session is in need of a rollback.          *)
MarkFailedRaises(w) ==
  /\ At(w, "except")
  /\ ex[w].poisoned
  /\ Finish(w)
  /\ UNCHANGED <<tasks, reports, queue, redelivered>>

(* A database call raises; a commit may have been applied all the same.    *)
CommitLost(w) ==
  \/ UNCHANGED <<tasks, reports>>
  \/ /\ ex[w].pc \in {"mark", "persist", "final", "except"}
     /\ Write(w)
     /\ UNCHANGED reports
  \/ /\ ex[w].pc = "save"
     /\ reports' = reports \union {ex[w].task}
     /\ UNCHANGED tasks

(* Outside the try statement, or in its except clause: the execution ends. *)
DbRaisesOutsideTry(w) ==
  /\ "db" \in Faults
  /\ ex[w].pc \in {"load", "mark", "marked", "reload", "except"}
  /\ ~ex[w].poisoned
  /\ CommitLost(w)
  /\ Finish(w)
  /\ UNCHANGED <<queue, redelivered>>

(* Mutant of DbRaisesInsideTry: the session is rolled back and usable.     *)
DbRaisesThenRollback(w) ==
  /\ "db" \in Faults
  /\ ex[w].pc \in {"persist", "persisted", "final", "finalized", "save", "saved"}
  /\ CommitLost(w)
  /\ ex' = [ex EXCEPT ![w].pc = "except"]
  /\ UNCHANGED <<queue, redelivered>>

(* Inside it, a commit or a statement on a connection: the except clause   *)
(* runs, on a session that needs a rollback.                               *)
DbRaisesInsideTry(w) ==
  /\ "db" \in Faults
  /\ ex[w].pc \in {"persist", "persisted", "final", "finalized", "save", "saved"}
  /\ CommitLost(w)
  /\ ex' = [ex EXCEPT ![w].pc = "except", ![w].poisoned = TRUE]
  /\ UNCHANGED <<queue, redelivered>>

(* No connection for the refresh after a commit.  There is nothing to roll *)
(* back: the except clause runs on a session that works.  A refresh of the *)
(* task has discarded the copy of its row before it fails.                 *)
RefreshRaises(w) ==
  /\ "refresh" \in Faults
  /\ ex[w].pc \in {"persisted", "finalized", "saved"}
  /\ GoTo(w, IF At(w, "saved") THEN "except" ELSE "reload")
  /\ UNCHANGED <<tasks, reports, queue, redelivered>>

(* The worker process dies and is restarted; its message is gone.          *)
Crash(w) ==
  /\ "crash" \in Faults
  /\ ~At(w, "idle")
  /\ Finish(w)
  /\ UNCHANGED <<tasks, reports, queue, redelivered>>

Step(w) ==
  \/ Load(w)
  \/ MarkRunning(w)
  \/ BuildGraph(w)
  \/ RunNode(w)
  \/ PersistProgress(w)
  \/ PublishProgress(w)
  \/ PersistFinal(w)
  \/ LookUpReport(w)
  \/ SaveReport(w)
  \/ SaveReportConflict(w)
  \/ RefreshReport(w)
  \/ Reload(w)
  \/ MarkFailed(w)
  \/ MarkFailedRaises(w)

Fault(w) ==
  \/ BuildRaises(w)
  \/ NodeRaises(w)
  \/ PublishRaises(w)
  \/ DbRaisesOutsideTry(w)
  \/ DbRaisesInsideTry(w)
  \/ RefreshRaises(w)
  \/ Crash(w)

Next ==
  \/ \E t \in TaskIds : Redeliver(t)
  \/ \E w \in Workers, t \in TaskIds : Receive(w, t)
  \/ \E w \in Workers : Step(w) \/ Fault(w)

Spec == Init /\ [][Next]_vars

(* A busy worker goes on (every agent call and every database call returns *)
(* or raises), and a waiting message is received once a worker stays idle. *)
Fairness ==
  /\ \A w \in Workers : WF_vars(Step(w))
  /\ \A t \in TaskIds : WF_vars(\E w \in Workers : Receive(w, t))

FairSpec == Spec /\ Fairness
-----------------------------------------------------------------------------
(* Without a redelivered message every task has one execution at most, and *)
(* the properties down to ImplementsLifecycle are about that case; they    *)
(* hold whatever faults occur.                                             *)

Coherent(row) ==
  /\ row.error <=> row.status = "failed"
  /\ row.status = "pending"   => row.stage = "planning"
  /\ row.status = "running"   => row.stage \in DOMAIN RunningStage
  /\ row.status = "completed" => row.stage = "done"
  /\ row.status = "failed"    => row.stage = "error"

(* Status, stage and error tell one story, docs/api.md sections 3.1 and    *)
(* 3.2: a running task is in a stage of the workflow, a failed task has an *)
(* error and nothing else has one.  Three functions write these columns,   *)
(* each of them only the columns it thinks have changed.                   *)
StageMatchesStatus == \A t \in TaskIds : Coherent(tasks[t])

(* The one way in which an outcome is taken back: mark_task_failed works   *)
(* although the task has been completed.                                   *)
Revocable == "refresh" \in Faults

(* A report row belongs to a completed task, or to one whose completion a  *)
(* failed refresh has taken back: get_research_report never hides a stored *)
(* report behind 425, and behind 409 only then (research.py:184-193).      *)
ReportBacked ==
  \A t \in reports :
    \/ tasks[t].status = "completed"
    \/ Revocable /\ tasks[t].status = "failed"

(* Iterations shown by the status endpoint never exceed the task's bound.  *)
IterationsBounded == \A t \in TaskIds : tasks[t].iterations <= MaxIterations

(* `completed` and `failed` are terminal stage markers, docs/api.md:63: a  *)
(* task that has completed or failed never changes again.                  *)
TerminalIsFinal ==
  [][\A t \in TaskIds : Terminal(tasks[t]) => tasks'[t] = tasks[t]]_vars

(* Whatever fails, a task that has failed never changes again, and all     *)
(* that can happen to a completed one is that a failed refresh, after the  *)
(* commit that completed it or stored its report, turns it into a failed   *)
(* task, once (research_task.py:186-191, crud/tasks.py:57,                 *)
(* crud/reports.py:25).                                                    *)
OutcomesStand ==
  [][\A t \in TaskIds : Terminal(tasks[t]) =>
       \/ tasks'[t] = tasks[t]
       \/ Revocable /\ tasks[t].status = "completed" /\ tasks'[t].status = "failed"]_vars

(* How far a polling client sees a task: passes first, then stages.        *)
Rank ==
  [queued |-> 0, planner |-> 1, search |-> 2, analysis |-> 3, report |-> 4,
   completed |-> 5, failed |-> 5]

Progress(row) == 6 * row.iterations + Rank[StageForApi(row)]

(* A polling client never sees a task go backwards: the stage falls back   *)
(* to search only together with a new iteration.                           *)
ProgressNeverReverts ==
  [][\A t \in TaskIds : Progress(tasks[t]) <= Progress(tasks'[t])]_vars

(* Every change of a row is a transition the task lifecycle allows, with   *)
(* failures of completed tasks where a refresh may fail.                   *)
Lifecycle == INSTANCE TaskLifecycle
               WITH phase <- [t \in TaskIds |-> StageForApi(tasks[t])]

ImplementsLifecycle == Lifecycle!Spec

(* Nobody has a task in hand or a message for it.                          *)
AtRest(t) == queue[t] = 0 /\ \A w \in Workers : ex[w].task # t

(* When only agents and the result backend fail, a task nobody works on    *)
(* any more has an outcome its columns agree on: completed with its report *)
(* stored, or failed with an error.  This holds for duplicate executions   *)
(* too, though each writes columns past the other's.                       *)
Settled(t) ==
  \/ tasks[t].status = "completed" /\ tasks[t].stage = "done" /\ t \in reports
  \/ tasks[t].status = "failed" /\ tasks[t].stage = "error" /\ tasks[t].error

RestingTasksAreSettled == \A t \in TaskIds : AtRest(t) => Settled(t)

(* Every accepted task is settled in the end, for good.                    *)
EveryTaskSettles == \A t \in TaskIds : <>[](AtRest(t) /\ Settled(t))
=============================================================================
